---------------------------- MODULE OperationPanel ----------------------------
(***************************************************************************)
(* One player's operations from the panel in the browser to the server and *)
(* back: the server of Elixir, and the match pages the player has open.    *)
(* A page shows the last state it has received, its panel decides on a     *)
(* preview of the elixir, and an operation carries the number that follows *)
(* the last one in that state (match-page.tsx:114). Several pages, or two  *)
(* quick clicks, send operations that were decided on the same state.      *)
(*                                                                         *)
(* An operation is its cost. The player's number is left out: it changes   *)
(* exactly when lastAcceptedSeq does. States arrive in order; operations   *)
(* may overtake each other, as the gateway awaits the rate limiter first.  *)
(***************************************************************************)
EXTENDS Elixir, Sequences, FiniteSets

CONSTANTS
  Pages,        \* the match pages of this player
  Skews,        \* how far the browser's clock may be ahead of the server's
  MaxInTransit  \* bound on the messages under way, each page and direction

\* Both clocks count whole milliseconds.
ASSUME PanelAssumption == Skews \subseteq Int

VARIABLES
  lastAcceptedSeq,
  skew,          \* the browser's Date.now() minus the server's
  copy,          \* [Pages -> the player's entry in the last match:state]
  preview,       \* [Pages -> previewElixir, a memo]
  panelError,    \* [Pages -> the panel says "Not enough elixir"]
  toServer,      \* [Pages -> the set of operations under way]
  toClient       \* [Pages -> states under way]

panelVars == <<skew, copy, preview, panelError, toServer, toClient>>
allVars   == <<vars, lastAcceptedSeq, panelVars>>

Stored == [stored |-> storedElixir, last |-> lastElixirUpdateAt, seq |-> lastAcceptedSeq]

\* recomputeElixir as the panel calls it: by the browser's own clock.
Preview(entry) == RecomputeElixir(entry.stored, entry.last, now + skew).actual

PanelInit ==
  /\ Init
  /\ lastAcceptedSeq = 0
  /\ skew \in Skews
  /\ copy = [p \in Pages |-> Stored]
  /\ preview = [p \in Pages |-> Preview(Stored)]
  /\ panelError = [p \in Pages |-> FALSE]
  /\ toServer = [p \in Pages |-> {}]
  /\ toClient = [p \in Pages |-> <<>>]

PanelTick == Tick /\ UNCHANGED <<lastAcceptedSeq, panelVars>>

\* trySubmit stops with an error when the cost exceeds the preview.
Refuse(p, cost) ==
  /\ now < Duration
  /\ cost > preview[p]
  /\ panelError' = [panelError EXCEPT ![p] = TRUE]
  /\ UNCHANGED <<vars, lastAcceptedSeq, skew, copy, preview, toServer, toClient>>

\* Variant: pages number by a counter of their own, as getNextSeq of the
\* match store does.
NumberLocally(p) == copy[p].seq + 1 + Cardinality(toServer[p])

Number(p) == copy[p].seq + 1

\* trySubmit passes, and sendOperation emits match:operation.
Send(p, cost) ==
  /\ now < Duration
  /\ cost <= preview[p]
  /\ Cardinality(toServer[p]) < MaxInTransit
  /\ panelError' = [panelError EXCEPT ![p] = FALSE]
  /\ toServer' = [toServer EXCEPT ![p] =
                    @ \cup {[cost |-> cost, seq |-> Number(p), decidedOn |-> copy[p]]}]
  /\ UNCHANGED <<vars, lastAcceptedSeq, skew, copy, preview, toClient>>

Fresh(op) == op.seq > lastAcceptedSeq

\* submitOperation takes the operation.
Accept(p, op) ==
  /\ op \in toServer[p]
  /\ Fresh(op)
  /\ Spend(op.cost)
  /\ lastAcceptedSeq' = op.seq
  /\ toServer' = [toServer EXCEPT ![p] = @ \ {op}]
  /\ UNCHANGED <<skew, copy, preview, panelError, toClient>>

\* submitOperation refuses it: too late, an old number, or too dear.
Drop(p, op) ==
  /\ op \in toServer[p]
  /\ \/ now >= Duration
     \/ ~Fresh(op)
     \/ ~CanSpend(storedElixir, lastElixirUpdateAt, op.cost, now)
  /\ toServer' = [toServer EXCEPT ![p] = @ \ {op}]
  /\ UNCHANGED <<vars, lastAcceptedSeq, skew, copy, preview, panelError, toClient>>

\* match:state, after an operation of either player or a join; it carries the
\* entry as it is when it is emitted.
Broadcast ==
  /\ \A p \in Pages : Len(toClient[p]) < MaxInTransit
  /\ toClient' = [p \in Pages |-> Append(toClient[p], Stored)]
  /\ UNCHANGED <<vars, lastAcceptedSeq, skew, copy, preview, panelError, toServer>>

\* Variant: the memo depends on the time of the last update only.
ChangedByStamp(old, new) == old.last # new.last

\* The dependencies of the memo.
Changed(old, new) == old.stored # new.stored \/ old.last # new.last

\* A state arrives; the memo is computed again if one of its dependencies changed.
Show(p) ==
  /\ toClient[p] # <<>>
  /\ LET new == Head(toClient[p])
     IN  /\ copy' = [copy EXCEPT ![p] = new]
         /\ preview' = [preview EXCEPT ![p] = IF Changed(copy[p], new) THEN Preview(new) ELSE @]
  /\ toClient' = [toClient EXCEPT ![p] = Tail(@)]
  /\ UNCHANGED <<vars, lastAcceptedSeq, skew, panelError, toServer>>

PanelNext ==
  \/ PanelTick
  \/ Broadcast
  \/ \E p \in Pages :
       \/ \E op \in toServer[p] : Accept(p, op) \/ Drop(p, op)
       \/ Show(p)
       \/ \E cost \in Costs : Refuse(p, cost) \/ Send(p, cost)

PanelSpec == PanelInit /\ [][PanelNext]_allVars

-----------------------------------------------------------------------------
\* The number of an operation is an optimistic lock on the player's state: an
\* operation is accepted only if the page that sent it was showing the state
\* the server then changes, so nobody plays on a number he did not see
\* (match-page.tsx:114, match-runtime.service.ts:183).
DecidedOnCurrent ==
  [][lastAcceptedSeq' # lastAcceptedSeq =>
       \E p \in Pages : \E op \in toServer[p] \ toServer'[p] : op.decidedOn = Stored]_allVars

\* A page that is up to date, in a browser whose clock is not ahead, never
\* offers more than the server will take: its panel would send operations that
\* come back refused, each using up its number in the log of moves.
PanelIsCautious ==
  \A p \in Pages :
    copy[p] = Stored /\ skew <= 0
      => preview[p] <= RecomputeElixir(storedElixir, lastElixirUpdateAt, now).actual

\* When an up-to-date page in a browser with the right time says "Not enough
\* elixir" (operation-panel.tsx:37), the player cannot pay for the operation.
RefusalIsTrue ==
  [][\A p \in Pages, cost \in Costs :
       Refuse(p, cost) /\ copy[p] = Stored /\ skew = 0
         => ~CanSpend(storedElixir, lastElixirUpdateAt, cost, now)]_allVars
=============================================================================
