------------------------------ MODULE Callsign ------------------------------
(***************************************************************************)
(* How src/main/bbs.c tells stations from one another: everyone is known   *)
(* by a base call sign, in capitals, without what follows the first "-",   *)
(* and cut to what fits into its field.  A character is a record of its    *)
(* class and, for letters of either case, which letter it is.              *)
(***************************************************************************)
EXTENDS SequencesExt, FiniteSetsExt, Naturals

CONSTANT BaseLen  \* what a field for a base call holds, 6

ASSUME CallsignAssumption == BaseLen \in Nat \ {0}

Upper(sym) == [class |-> "upper", sym |-> sym]
Lower(sym) == [class |-> "lower", sym |-> sym]
Digit(sym) == [class |-> "digit", sym |-> sym]
Dash == [class |-> "dash", sym |-> "-"]

Capital(c) == IF c.class = "lower" THEN Upper(c.sym) ELSE c

\* bbs_base_callsign()
BaseCall(src) ==
  LET end == Min({i \in 1 .. Len(src) : src[i] = Dash} \cup {Len(src) + 1}) - 1
  IN  [i \in 1 .. Min({end, BaseLen}) |-> Capital(src[i])]

\* How many characters of one class there are in s from position i.
Run(s, i, class) ==
  Min({j \in i .. Len(s) : s[j].class # class} \cup {Len(s) + 1}) - i

\* bbs_is_valid_callsign(): one or two letters, a digit, one to three letters.
IsValidCallsign(str) ==
  LET base   == BaseCall(str)
      prefix == Run(base, 1, "upper")
      suffix == Run(base, prefix + 2, "upper")
  IN  /\ prefix \in 1 .. 2
      /\ prefix < Len(base) /\ base[prefix + 1].class = "digit"
      /\ suffix \in 1 .. 3
      /\ Len(base) = prefix + 1 + suffix
=============================================================================
