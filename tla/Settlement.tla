----------------------------- MODULE Settlement -----------------------------
(***************************************************************************)
(* The way of a payment through the whole server: the handlers of Payments *)
(* and the runs of PaymentListener over one database, with a crash that    *)
(* loses every request and every event in progress and nothing stored.     *)
(***************************************************************************)
EXTENDS Payments, PaymentListener

vars == <<status, gateway, notices, req, projectStatus, investments, donorRecords,
          raised, credited, address, minted, holders, recorded, stamped, run>>

TypeOK == PayTypeOK /\ LisTypeOK

Init == PayInit /\ LisInit

dbVars == <<projectStatus, investments, donorRecords, raised, credited,
            address, minted, holders, recorded, stamped>>

Crash ==
    /\ Faults
    /\ req' = [w \in Workers |-> NoRequest]
    /\ run' = [w \in Workers |-> NoRun]
    /\ UNCHANGED <<status, gateway, notices, dbVars>>

Next ==
    \/ PayNext /\ UNCHANGED dbVars
    \/ LisNext /\ UNCHANGED payVars
    \/ Crash

Spec == Init /\ [][Next]_vars

\* Node runs every handler and every listener run on while it is up; clients,
\* gateways and administrators owe nothing.
Fairness ==
    \A w \in Workers :
        /\ WF_vars(HandlerStep(w) /\ UNCHANGED dbVars)
        /\ WF_vars(RunStep(w) /\ UNCHANGED payVars)

\* The server while it stays up.
Serving ==
    \/ PayNext /\ UNCHANGED dbVars
    \/ LisNext /\ UNCHANGED payVars

FairSpec == Init /\ [][Serving]_vars /\ Fairness

-----------------------------------------------------------------------------
(* Safety.                                                                 *)

Paid(t) == gateway[t] = "paid"

\* No transaction is stored as successful, and no investment exists for it,
\* unless the money was really taken: through late, repeated and reordered
\* webhooks, stale reads, declined attempts and crashes.
MoneyBehindEverything ==
    \A t \in Tx : status[t] = "successful" \/ investments[t] > 0 => Paid(t)

\* The books agree down the chain, whatever step throws or crashes: the project
\* is credited no more often than investments exist, a donor's record and the
\* creator's credit follow the project's, an NFT is minted for an investment
\* and recorded after it was minted.
BooksAgree ==
    \A t \in Tx :
        /\ raised[t] <= investments[t]
        /\ credited[t] <= donorRecords[t] /\ donorRecords[t] <= raised[t]
        /\ recorded[t] <= minted[t] /\ minted[t] <= investments[t]
        /\ stamped[t] => recorded[t] > 0

\* "Check for existing investment to avoid duplicates": one payment becomes one
\* investment.
InvestedOnce == \A t \in Tx : investments[t] <= 1

\* What the check guarantees whatever happens: an event handled after a payment
\* was recorded adds nothing, so there are never more investments than events
\* in progress at a time.
CopiesBounded == \A t \in Tx : investments[t] <= Cardinality(Workers)

\* An NFT is held by the address the platform keeps the key of.
HoldersKeepTheirKey == holders \subseteq {address}

\* The server meets the abstract ledger.
Ledger == INSTANCE PaymentLedger WITH
    Copies <- Cardinality(Workers),
    paid <- {t \in Tx : Paid(t)},
    invested <- investments

MeetsLedger == Ledger!Spec

-----------------------------------------------------------------------------
(* The inductive strengthening of the safety properties.                   *)

\* How many listener runs stand at one of the steps P for transaction t.
RunsAt(R, t, P) == Cardinality({w \in Workers : R[w].tx = t /\ R[w].pc \in P})

\* Each gateway entry is opened by the one request that created it.
OpenedOnce ==
    /\ \A t \in FlwTx : status[t] = "none" => gateway[t] = "none"
    /\ \A w \in Workers :
         /\ req[w].pc = "flwInit" =>
              req[w].tx \in FlwTx /\ status[req[w].tx] # "none" /\ gateway[req[w].tx] = "none"
         /\ req[w].pc = "dpoInit" => req[w].tx \in DpoTx /\ gateway[req[w].tx] = "token"
    /\ \A v, w \in Workers :
         req[v].pc \in {"flwInit", "dpoInit"} /\ req[w].pc = req[v].pc /\ req[w].tx = req[v].tx
           => v = w

\* Whatever speaks of success speaks of money that was taken.
Backed ==
    /\ \A t \in Tx :
         /\ status[t] = "successful" => Paid(t)
         /\ investments[t] > 0 => Paid(t)
         /\ <<t, "successful">> \in notices => Paid(t)
    /\ \A w \in Workers :
         /\ req[w].pc # "idle" => req[w].tx \in Tx
         /\ req[w].pc = "save" => req[w].write \in {"successful", "failed"}
         /\ req[w].pc = "save" /\ (req[w].write = "successful" \/ req[w].then) => Paid(req[w].tx)
         /\ req[w].pc \in {"emit", "walletRow"} => Paid(req[w].tx)
         /\ run[w].pc # "idle" => run[w].tx \in Tx /\ Paid(run[w].tx)

ToRaise == {"fund", "increment"}
ToMint == {"fund", "increment", "donor", "credit", "custody", "keygen", "mint"}

\* Each count, with the runs about to add to it, stays below the one before it.
CountsAgree ==
    \A t \in Tx :
        /\ raised[t] + RunsAt(run, t, ToRaise) <= investments[t]
        /\ donorRecords[t] + RunsAt(run, t, {"donor"}) <= raised[t]
        /\ credited[t] + RunsAt(run, t, {"credit"}) <= donorRecords[t]
        /\ minted[t] + RunsAt(run, t, ToMint) <= investments[t]
        /\ recorded[t] + RunsAt(run, t, {"record"}) <= minted[t]
        /\ investments[t] = 0
             \/ investments[t] + RunsAt(run, t, {"create"}) <= Cardinality(Workers)

StampsFollow ==
    /\ \A t \in Tx : stamped[t] => recorded[t] > 0
    /\ \A w \in Workers : run[w].pc = "stamp" => recorded[run[w].tx] > 0

IInv == TypeOK /\ OpenedOnce /\ Backed /\ CountsAgree /\ StampsFollow

-----------------------------------------------------------------------------
(* What must not overlap, however many workers there are.                  *)

\* Two listener runs for one payment are not both between the check and the
\* creation of the investment.
RunsApart ==
    \A v, w \in Workers :
        /\ run[v].pc \in {"check", "create"} /\ run[w].pc \in {"check", "create"}
        /\ run[v].tx = run[w].tx
        => v = w

\* Two runs do not both generate a custodial key for the investor.
KeysApart == \A v, w \in Workers : run[v].pc = "keygen" /\ run[w].pc = "keygen" => v = w

-----------------------------------------------------------------------------
(* Liveness, without faults.                                               *)

\* Worker w is about to publish the event of t, or to record its investment.
Carries(w, t) ==
    \/ req[w].tx = t /\ (req[w].pc = "emit" \/ (req[w].pc = "save" /\ req[w].then))
    \/ run[w].tx = t /\ run[w].pc \in {"check", "create"}

OnItsWay(t) == investments[t] > 0 \/ \E w \in Workers : Carries(w, t)

\* A payment stored as successful has its investment, or a request or a run
\* is about to make it: nothing else in the code would notice a missing one.
NoneForgotten ==
    \A t \in Tx : status[t] = "successful" => OnItsWay(t)

\* A worker's handler emits once, as its last step or just before its save, and
\* a handler that emitted before its save has an investment on its way.
EmitsOnce ==
    \A w \in Workers :
        /\ run[w].pc # "idle" => req[w].pc = "idle" \/ (req[w].pc = "save" /\ ~ req[w].then)
        /\ req[w].pc = "save" /\ req[w].write = "successful" => OnItsWay(req[w].tx)

\* A payment stored as successful becomes an investment.
SuccessIsInvested ==
    \A t \in Tx : status[t] = "successful" ~> investments[t] > 0
=============================================================================
