-------------------------- MODULE MCStreamConversion --------------------------
(***************************************************************************)
(* Constants of the runs of StreamConversion.                               *)
(***************************************************************************)
EXTENDS StreamConversionProps

\* One piece of arguments parses, two do not, three do again.
MCJson == {s \in UNION {[1..n -> 1..MaxFragments] : n \in 1..MaxFragments} : Len(s) % 2 = 1}
===============================================================================
