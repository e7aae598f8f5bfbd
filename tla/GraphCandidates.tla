---------------------------- MODULE GraphCandidates ----------------------------
(* The candidate edges of services/reconciliation/graph/engine.py: which two  *)
(* records may belong together, how likely, and in which direction.           *)
(*                                                                            *)
(* A node is a record [type, amount, currency, date, ...], named by its place *)
(* in the order of the ids; amounts are whole units of money.  Parties and    *)
(* references are compared by the code, but nothing follows from it.          *)
EXTENDS Integers

CONSTANT GraphWindow  \* date_window_days
ASSUME GraphWindowAssumption == GraphWindow \in Nat

TypeOrder == [invoice |-> 0, payment |-> 1, processor |-> 2, settlement |-> 3,
              bank_transaction |-> 4, ledger_entry |-> 5]

Rank(type) == IF type \in DOMAIN TypeOrder THEN TypeOrder[type] ELSE 6

Gap(x, y) == IF x < y THEN y - x ELSE x - y

MaxDigits == 9  \* bound: the digits of an amount

Digits(amount) == CHOOSE d \in 1..MaxDigits : 10^(d - 1) <= amount /\ amount < 10^d

\* max(1, int(log10(amount)) * 100): the tens are as far from the ones as from
\* the thousands.
Bucket(amount) ==
  IF amount <= 0 THEN 0 ELSE IF amount < 10 THEN 1 ELSE 100 * (Digits(amount) - 1)

Blocked(a, b) ==
  \/ a.currency # b.currency
  \/ Gap(a.date, b.date) > GraphWindow
  \/ Gap(Bucket(a.amount), Bucket(b.amount)) > 200

\* In hundredths.
EdgeScore(a, b) ==
  IF a.amount = b.amount THEN IF a.date = b.date THEN 95 ELSE 90
  ELSE IF Gap(a.amount, b.amount) <= 10 THEN 80 ELSE 50

\* _directed_pair: in the order of the financial stages, then of the ids.
Directed(node, u, v) ==
  \/ Rank(node[u].type) < Rank(node[v].type)
  \/ Rank(node[u].type) = Rank(node[v].type) /\ u < v

CandidateEdges(node) ==
  {e \in (DOMAIN node) \X (DOMAIN node) :
     Directed(node, e[1], e[2]) /\ ~Blocked(node[e[1]], node[e[2]])}
==============================================================================
