---------------------------- MODULE MCAlgorithms ----------------------------
(* Bounded inputs of Algorithms for TLC. *)
EXTENDS Algorithms

\* Keys that collide at each capacity that occurs (4, 8, 16) and wrap around.
MCHash == <<15, 15, 15, 14, 0>>

Strings(set, n) == UNION {[1..k -> set] : k \in 0..n}

MCLetters == {"k", "v", "w", "p", "q"}
MCBlocks == Strings([key : {<<>>, <<"k">>}, val : {<<>>, <<"v", "w">>}], 2)

\* Up to three blocks, the first of them in the packet itself.
MCPackets ==
  [id : {"id"}, payload : {<<>>, <<Nul>>, <<"p", "q">>},
   blocks : {<<b>> : b \in MCBlocks} \cup {<<b, <<>>, c>> : b, c \in MCBlocks}]

MCChar == {"/", "*", "a", "b"}
MCPatterns == Strings({"/", "*", "a"}, 6)
MCRoots == {<<"/", "b">>}
MCPaths == {<<"/">> \o s : s \in Strings({"/", "a", "b"}, 4)}
\* The first is of the form of the templates in env.c: "{topic}.pubsub.a0".
MCTemplates == {<<"{topic}", ".", "a">>, <<"a", "/", "{topic}", "a", "{topic}">>, <<"a", "{topic}", "/", "a">>, <<"a">>}
MCTopics == {s \in Strings({"/", ".", "a"}, 4) : \A i \in 1..Len(s) - 1 : SubSeq(s, i, i + 1) # <<".", ".">>}

\* Times of every number of digits up to the five of the string, and longer ones.
MCTimes == [sec : 0..3, nsec : {0, 1, 9, 10, 50, 99}] \cup [sec : {10, 99, 100, 999, 1000, 12345}, nsec : {0, 7, 99}]
=============================================================================
