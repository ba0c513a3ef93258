------------------------------ MODULE Pathglob ------------------------------
(***************************************************************************)
(* pathglob.c: patterns of paths, in which * stands for any characters of  *)
(* one part and ** for any number of directories; and a0_abspath of        *)
(* file.c.  Strings are sequences of characters.                           *)
(*                                                                         *)
(* A step is one turn of a loop: of that over the parts in                 *)
(* a0_pathglob_match, or of that over the characters of one part in        *)
(* a0_pathglob_pattern_match.                                              *)
(***************************************************************************)
EXTENDS Integers, Sequences, FiniteSets, Topic

CONSTANTS
  Char,      \* the characters of strings
  Patterns,  \* patterns, relative and absolute
  Roots,     \* root directories
  Paths      \* paths to match: absolute

\* What ends a string, and is no character of one.
End == "end"

ASSUME GlobAssumption ==
  /\ End \notin Char /\ "bad path" \notin Char
  /\ {"/", "*"} \subseteq Char
  /\ Patterns \cup Roots \cup Paths \subseteq Seq(Char)
  /\ \A path \in Paths : path # <<>> /\ Head(path) = "/"

VARIABLES
  glob, real,           \* the parts of the pattern and of the path
  glob_idx, real_idx,   \* how many of them have been passed
  star_g, star_r,       \* where to go back to; star_g is 0 before the first **
  chars,                \* the same four in a0_pathglob_pattern_match, in characters
  loop,                 \* the loop that is running, "idle" between the calls
  out                   \* the answer

globvars == <<glob, real, glob_idx, real_idx, star_g, star_r, chars, loop, out>>

\* Joined to the root directory unless absolute.
a0_abspath(rel, root) ==
  IF rel = <<>> THEN BadPath
  ELSE IF Head(rel) = "/" THEN rel
  ELSE IF root = <<>> \/ Head(root) # "/" THEN BadPath
  ELSE root \o <<"/">> \o rel

Slashes(s) == {i \in 1..Len(s) : s[i] = "/"}

\* The slashes in their order.
Starts(s) ==
  CHOOSE f \in [1..Cardinality(Slashes(s)) -> Slashes(s)] : \A i, j \in DOMAIN f : i < j => f[i] < f[j]

PartEnd(s, i) == (CHOOSE e \in Slashes(s) \cup {Len(s) + 1} : e > i /\ \A d \in Slashes(s) : d > i => e <= d) - 1

(* The parts between slashes.  has_star is set by the first * and never    *)
(* cleared, so that every later part counts as a pattern.                  *)
a0_pathglob_init(abspath) ==
  LET starts == Starts(abspath)
      depth == Cardinality(Slashes(abspath))
      Str(n) == SubSeq(abspath, starts[n] + 1, PartEnd(abspath, starts[n]))
      has_star(n) == \E i \in 1..PartEnd(abspath, starts[n]) : abspath[i] = "*"
  IN [n \in 1..depth |->
        [str |-> Str(n),
         \* Reading one character past the part gives a slash or the end of the string.
         after |-> IF n < depth THEN "/" ELSE End,
         type |-> IF ~has_star(n) THEN "VERBATIM"
                  ELSE IF n < depth /\ Str(n) = <<"*", "*">> THEN "RECURSIVE"
                  ELSE "PATTERN"]]

Chars(g, r, sg, sr) == [g |-> g, r |-> r, star_g |-> sg, star_r |-> sr]
Start == Chars(0, 0, 0, 0)

GlobStart(abspath) ==
  /\ glob = a0_pathglob_init(abspath) /\ real = <<>>
  /\ glob_idx = 0 /\ real_idx = 0 /\ star_g = 0 /\ star_r = 0
  /\ chars = Start /\ loop = "idle" /\ out = FALSE

GlobInit ==
  \E pattern \in Patterns, root \in Roots :
    /\ a0_abspath(pattern, root) # BadPath
    /\ GlobStart(a0_abspath(pattern, root))

\* a0_pathglob_match up to its loop.
a0_pathglob_match(path) ==
  /\ loop = "idle"
  /\ real' = a0_pathglob_init(path)
  /\ loop' = "parts"
  /\ UNCHANGED <<glob, glob_idx, real_idx, star_g, star_r, chars, out>>

\* The parts of the path are dropped when the answer is known, and the call returns.
a0_pathglob_close ==
  /\ loop = "done"
  /\ real' = <<>>
  /\ glob_idx' = 0 /\ real_idx' = 0 /\ star_g' = 0 /\ star_r' = 0
  /\ chars' = Start /\ loop' = "idle" /\ out' = FALSE
  /\ UNCHANGED glob

-----------------------------------------------------------------------------
(* The loop over the parts.                                                *)

Part == glob[glob_idx + 1]
Type == IF glob_idx < Len(glob) THEN Part.type ELSE "NONE"

Answer(yes) ==
  /\ loop' = "done" /\ out' = yes /\ chars' = Start
  /\ UNCHANGED <<glob, real, glob_idx, real_idx, star_g, star_r>>

\* Mutant: what was passed since the last ** is not tried again.
BackHere ==
  /\ star_r' = real_idx + 1 /\ real_idx' = real_idx + 1 /\ glob_idx' = star_g
  /\ loop' = "parts" /\ chars' = Start
  /\ UNCHANGED <<glob, real, star_g, out>>

\* The last ** takes one more directory.
Back ==
  /\ star_r' = star_r + 1 /\ real_idx' = star_r + 1 /\ glob_idx' = star_g
  /\ loop' = "parts" /\ chars' = Start
  /\ UNCHANGED <<glob, real, star_g, out>>

\* The rest of a turn, when segment_match is known.
Segment(segment_match) ==
  \/ /\ segment_match
     /\ real_idx' = real_idx + 1 /\ glob_idx' = glob_idx + 1
     /\ loop' = "parts" /\ chars' = Start
     /\ UNCHANGED <<glob, real, star_g, star_r, out>>
  \/ ~segment_match /\ star_g = 0 /\ Answer(FALSE)
  \/ ~segment_match /\ star_g # 0 /\ Back

Turn == loop = "parts" /\ real_idx < Len(real)

Recursive ==
  /\ Turn /\ Type = "RECURSIVE"
  /\ glob_idx' = glob_idx + 1 /\ star_g' = glob_idx + 1 /\ star_r' = real_idx
  /\ LET all == glob_idx + 1 = Len(glob) /\ real_idx + 1 # Len(real)
     IN loop' = (IF all THEN "done" ELSE "parts") /\ out' = all
  /\ UNCHANGED <<glob, real, real_idx, chars>>

Beyond == Turn /\ Type = "NONE" /\ Segment(FALSE)

Verbatim == Turn /\ Type = "VERBATIM" /\ Segment(Part.str = real[real_idx + 1].str)

\* a0_pathglob_pattern_match up to its loop.
Pattern ==
  /\ Turn /\ Type = "PATTERN"
  /\ loop' = "chars" /\ chars' = Start
  /\ UNCHANGED <<glob, real, glob_idx, real_idx, star_g, star_r, out>>

PartsEnd ==
  /\ loop = "parts" /\ real_idx = Len(real)
  /\ Answer(\A i \in glob_idx + 1..Len(glob) : glob[i].type = "RECURSIVE")

-----------------------------------------------------------------------------
(* The loop over the characters.                                           *)

Text == real[real_idx + 1].str
CharAt(part, g) == IF g < Len(part.str) THEN part.str[g + 1] ELSE part.after

CharTurn == loop = "chars" /\ chars.r < Len(Text)
On(c) == chars' = c /\ UNCHANGED <<glob, real, glob_idx, real_idx, star_g, star_r, loop, out>>

CharStar ==
  /\ CharTurn /\ CharAt(Part, chars.g) = "*"
  /\ \/ chars.g + 1 = Len(Part.str) /\ Segment(TRUE)
     \/ /\ chars.g + 1 # Len(Part.str)
        /\ On(Chars(chars.g + 1, chars.r, chars.g + 1, chars.r))

CharSame ==
  /\ CharTurn /\ CharAt(Part, chars.g) # "*" /\ CharAt(Part, chars.g) = Text[chars.r + 1]
  /\ On(Chars(chars.g + 1, chars.r + 1, chars.star_g, chars.star_r))

CharOther ==
  /\ CharTurn /\ CharAt(Part, chars.g) # "*" /\ CharAt(Part, chars.g) # Text[chars.r + 1]
  /\ \/ chars.star_g = 0 /\ Segment(FALSE)
     \/ /\ chars.star_g # 0
        /\ On(Chars(chars.star_g, chars.star_r + 1, chars.star_g, chars.star_r + 1))

CharEnd ==
  /\ loop = "chars" /\ chars.r = Len(Text)
  /\ Segment(\A i \in chars.g + 1..Len(Part.str) : Part.str[i] = "*")

GlobNext ==
  \/ \E path \in Paths : a0_pathglob_match(path)
  \/ a0_pathglob_close
  \/ Recursive \/ Beyond \/ Verbatim \/ Pattern \/ PartsEnd
  \/ CharStar \/ CharSame \/ CharOther \/ CharEnd

GlobSpec == GlobInit /\ [][GlobNext]_globvars

-----------------------------------------------------------------------------
(* What a pattern means.                                                   *)

(* A text of length m fits a pattern of length n, when the text can be cut *)
(* such that each element of the pattern takes its piece: pos[i] is where  *)
(* that of element i ends.  A star takes any piece, another element the    *)
(* one thing that it fits.                                                 *)
Cut(n, stars, fits, pos) ==
  /\ pos[0] = 0
  /\ \A i \in 1..n : IF i \in stars THEN pos[i - 1] <= pos[i]
                     ELSE pos[i] = pos[i - 1] + 1 /\ <<i, pos[i]>> \in fits

Fit(n, m, stars, fits) == \E pos \in [0..n -> 0..m] : pos[n] = m /\ Cut(n, stars, fits, pos)

Means(pattern, str) ==
  Fit(Len(pattern), Len(str), {i \in 1..Len(pattern) : pattern[i] = "*"},
      {p \in (1..Len(pattern)) \X (1..Len(str)) : pattern[p[1]] = str[p[2]]})

\* The last part names a file, so that ** is a pattern of characters there.
PathMeans(parts, path) ==
  Fit(Len(parts), Len(path), {i \in 1..Len(parts) - 1 : parts[i].str = <<"*", "*">>},
      {p \in (1..Len(parts)) \X (1..Len(path)) : Means(parts[p[1]].str, path[p[2]].str)})

(* The matcher goes back only to the last star and the last **, and yet it *)
(* answers yes exactly for the paths that can be cut to fit the pattern:   *)
(* ** any number of directories, none included, * any characters of one    *)
(* part.                                                                   *)
PathsMatch == loop = "done" => (out <=> PathMeans(glob, real))
=============================================================================
