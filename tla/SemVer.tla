-------------------------------- MODULE SemVer --------------------------------
(* The "sem_ver" rule of flagd's targeting (targeting/sem-ver.ts).  A        *)
(* version is written in full, with a pre-release or without, in part ("1",  *)
(* "1.2"), or not as a version at all; a leading v is stripped and the       *)
(* build metadata of a version counts for nothing.                           *)
(* External: the package semver: parse, coerce, compare.                     *)
EXTENDS Integers, Sequences

Written(major, minor, patch, pre) ==
  [form |-> "full", major |-> major, minor |-> minor, patch |-> patch, pre |-> pre]
NoVersion == [Written(0, 0, 0, 0) EXCEPT !.form = "none"]
VersionType == [form : {"full", "major", "minor", "none"}, major : Int, minor : Int, patch : Int, pre : Int]

(* normalizeVersion: partial versions get zeros.  The pre-release of a final *)
(* version is 0, those before it are negative.                               *)
normalizeVersion(raw) ==
  CASE raw.form = "full" -> raw
    [] raw.form = "major" -> Written(raw.major, 0, 0, 0)
    [] raw.form = "minor" -> Written(raw.major, raw.minor, 0, 0)
    [] OTHER -> NoVersion

(* External: compare.                                                        *)
parts(v) == <<v.major, v.minor, v.patch, v.pre>>
compare(v, w) ==
  IF parts(v) = parts(w) THEN 0
  ELSE LET i == CHOOSE n \in 1 .. 4 : /\ parts(v)[n] # parts(w)[n]
                                      /\ \A m \in 1 .. n - 1 : parts(v)[m] = parts(w)[m]
       IN IF parts(v)[i] < parts(w)[i] THEN -1 ELSE 1

matchesMinor(v, w) == v.major = w.major /\ v.minor = w.minor

Operators == {"=", "!=", "<", "<=", ">=", ">", "^", "~"}
holds(v, operator, w) ==
  CASE operator = "=" -> compare(v, w) = 0
    [] operator = "!=" -> compare(v, w) # 0
    [] operator = "<" -> compare(v, w) < 0
    [] operator = "<=" -> compare(v, w) <= 0
    [] operator = ">=" -> compare(v, w) >= 0
    [] operator = ">" -> compare(v, w) > 0
    [] operator = "^" -> v.major = w.major
    [] operator = "~" -> matchesMinor(v, w)

(* semVer, with the answer as the string a flag takes for its variant.       *)
semVer(raw1, operator, raw2) ==
  LET v == normalizeVersion(raw1)
      w == normalizeVersion(raw2)
  IN IF NoVersion \in {v, w} \/ operator \notin Operators THEN "null"
     ELSE IF holds(v, operator, w) THEN "true" ELSE "false"

-----------------------------------------------------------------------------
(* The operators agree with each other on any three versions: exactly one of *)
(* <, = and > holds, <= is transitive, a version between two that match with *)
(* ~ or ^ matches both, and ~ is the narrower (sem-ver.ts:45-77).            *)
OperatorsAgree(a, b, c) ==
  LET Is(x, operator, y) == semVer(x, operator, y) = "true"
  IN \A x, y \in {a, b, c} : NoVersion \notin {normalizeVersion(x), normalizeVersion(y), normalizeVersion(c)} =>
       /\ Is(x, "<", y) = Is(y, ">", x) /\ Is(x, "<=", y) # Is(x, ">", y)
       /\ Is(x, "!=", y) = (Is(x, "<", y) \/ Is(x, ">", y))
       /\ (Is(x, "~", y) => Is(x, "^", y))
       /\ (Is(x, "<=", y) /\ Is(y, "<=", c)) =>
            /\ Is(x, "<=", c)
            /\ (Is(x, "~", c) => Is(x, "~", y))
            /\ (Is(x, "^", c) => Is(y, "^", c))
=============================================================================
