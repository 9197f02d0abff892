---------------------------- MODULE MCLogBuffer ----------------------------
(***************************************************************************)
(* Instances of LogBuffer: a ring of a few slots and three entries, whose  *)
(* byte sums are given by Weight; a zeroed slot weighs nothing.            *)
(***************************************************************************)
EXTENDS LogBuffer, FiniteSetsExt

CONSTANTS e1, e2, e3

MCEntry == {e1, e2, e3}

Weight(e) ==
  CASE e = e1 -> 1
    [] e = e2 -> 4
    [] e = e3 -> 9
    [] OTHER -> 0

MCSlotSum(s) == MapThenSumSet(LAMBDA i : Weight(s[i]), DOMAIN s)
=============================================================================
