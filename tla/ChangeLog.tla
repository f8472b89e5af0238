----------------------------- MODULE ChangeLog -----------------------------
(***************************************************************************)
(* What the orderbook store promises its readers (docs/schema.md,          *)
(* "orderbook_snapshots"): for every market, a log of books the exchange   *)
(* really had, in the order it had them, in which no entry repeats the one *)
(* before it.  The log may leave books out (a disconnected collector sees  *)
(* nothing) and may lag; it never invents, reorders or repeats.            *)
(*                                                                         *)
(*   history[m]  the books market m has had on the exchange, oldest first  *)
(*   log[m]      the recorded entries: a position n of history[m], and the *)
(*               book recorded for it                                      *)
(***************************************************************************)
EXTENDS Naturals, Sequences

CONSTANTS Markets, Books

VARIABLES history, log

vars == <<history, log>>

Init ==
    /\ history \in [Markets -> {<<b>> : b \in Books}]
    /\ log = [m \in Markets |-> <<>>]

\* The book of market m changes on the exchange.
Change(m) ==
    /\ \E b \in Books :
          /\ b # history[m][Len(history[m])]
          /\ history' = [history EXCEPT ![m] = Append(@, b)]
    /\ UNCHANGED log

\* Market m's book number n may follow the entries already recorded.
MayFollow(m, n) ==
    log[m] = <<>> \/ LET last == log[m][Len(log[m])]
                     IN  last.n <= n /\ last.book # history[m][n]

Record(m) ==
    \E n \in DOMAIN history[m] :
        /\ MayFollow(m, n)
        /\ log' = [log EXCEPT ![m] = Append(@, [n |-> n, book |-> history[m][n]])]
        /\ UNCHANGED history

Next == \E m \in Markets : Change(m) \/ Record(m)

Spec == Init /\ [][Next]_vars
=============================================================================
