----------------------------- MODULE MCWagering -----------------------------
(***************************************************************************)
(* Instances of Wagering: the operations clients and providers send, each  *)
(* set chosen so that its members compete for a wallet, an identity or a   *)
(* reference.                                                              *)
(***************************************************************************)
EXTENDS Wagering, TLC

CONSTANTS w1, w2

\* Sessions of one role run the same code.
Symmetry == Permutations(Clients) \cup Permutations(Consumers) \cup Permutations(Resolvers)

Coins(n) == InCurrency("BRL", n)

\* An operation of player ana on wallet w1 in round r1.
Op(kind, ext, key, n, reference) ==
  [provider |-> "p", ext |-> ext, key |-> key, player |-> "ana", wallet |-> w1,
   round |-> "r1", kind |-> kind, money |-> Coins(n), ref |-> reference]

Envelope(id, digest, op) == [id |-> id, digest |-> digest, op |-> op]

Open(w, player, n) == [wallet |-> w, player |-> player, money |-> Coins(n)]

-----------------------------------------------------------------------------
Bet == Op("BET", "e1", "k1", 2, NONE)
RefundOfBet == Op("REFUND", "e2", "k2", 2, "e1")
RollbackOfBet == Op("ROLLBACK", "e3", "k3", 2, "e1")

\* A bet, and a refund and a rollback that both want to undo it, in any order.
ReversalRequests == {Bet, RefundOfBet, RollbackOfBet}
OneOpening == {Open(w1, "ana", 2)}

\* What settles and what reverses a win or a refund, and what does not fit.
ChainRequests ==
  {Bet, RefundOfBet, Op("ROLLBACK", "e3", "k3", 2, "e2"), Op("WIN", "e4", "k4", 3, "e1")}
EitherOpening == {Open(w1, "ana", 0), Open(w1, "ana", 2)}

\* One bet under two keys, the same identity used on another wallet, a malformed bet,
\* and one message id under which two envelopes arrive.
DuplicateRequests ==
  {Bet, [Bet EXCEPT !.key = "k2"], [Bet EXCEPT !.wallet = w2], Op("BET", "e2", "k2", 0, NONE)}
DuplicateMessages == {Envelope("m1", "d1", Bet), Envelope("m1", "d2", [Bet EXCEPT !.ext = "e2"])}
TwoOpenings == {Open(w1, "ana", 2), Open(w2, "bia", 0), Open(w2, "ana", 0)}

\* A refund and a rollback that wait for a bet, the rollback on another wallet.
WaitingRequests == {Bet, RefundOfBet, [RollbackOfBet EXCEPT !.wallet = w2, !.player = "bia"]}
BothOpenings == {Open(w1, "ana", 2), Open(w2, "bia", 0)}

\* A bet in a currency the wallet does not have.
ForeignRequests == {[Bet EXCEPT !.money = InCurrency("EUR", 2)]}

\* Two movements far below the limit, decided by machines whose clocks disagree.
SmallRequests == {Op("BET", "e1", "k1", 1, NONE), Op("WIN", "e2", "k2", 1, NONE)}
=============================================================================
