------------------------------- MODULE Topic -------------------------------
(***************************************************************************)
(* topic.c: the path of a topic's file, made from a template.  Strings are *)
(* sequences of characters.                                                *)
(***************************************************************************)
EXTENDS Integers, Sequences

BadPath == <<"bad path">>

\* The marker {topic} is one character here; only the first one counts.
a0_topic_path(tmpl, topic) ==
  LET markers == {i \in 1..Len(tmpl) : tmpl[i] = "{topic}"}
      i == CHOOSE j \in markers : \A k \in markers : j <= k
  IN IF topic = <<>> \/ Head(topic) = "/" \/ markers = {} THEN BadPath
     ELSE SubSeq(tmpl, 1, i - 1) \o topic \o SubSeq(tmpl, i + 1, Len(tmpl))
=============================================================================
