--------------------------- MODULE PaymentEvents ---------------------------
(***************************************************************************)
(* What the payment handlers and the investment listener share: the        *)
(* payment transactions, the requests in progress and the in-process event *)
(* bus between them (EventEmitter2, event 'payment.successful').           *)
(*                                                                         *)
(* A worker is one request in progress together with the listener run its  *)
(* event starts: `req[w]' is the handler, `run[w]' the listener run.  A    *)
(* worker takes its next request when both are over, so Cardinality(       *)
(* Workers) bounds how many requests, with their effects, are in progress  *)
(* at a time.  Everything in `req' and `run' is process memory: a crash    *)
(* loses it, and an event that was emitted is stored nowhere else.         *)
(***************************************************************************)
EXTENDS FiniteSets

CONSTANTS
    FlwTx,       \* transactions paid through Flutterwave
    DpoTx,       \* transactions paid through DPO Pay
    WalletTx,    \* transactions paid from the in-app wallet
    Donations,   \* those whose metadata.projectType is 'CHARITY' (DPO only)
    Workers,     \* requests in progress at the same time (a bound)
    NoTx,        \* the transaction of an idle worker
    NoAddress,   \* no custodial address
    Faults       \* may calls throw and the server crash?

Tx == FlwTx \cup DpoTx \cup WalletTx

ASSUME TxAssumption ==
    /\ FlwTx \cap DpoTx = {} /\ FlwTx \cap WalletTx = {} /\ DpoTx \cap WalletTx = {}
    /\ Donations \subseteq DpoTx
    /\ NoTx \notin Tx
ASSUME WorkersAssumption == IsFiniteSet(Workers) /\ NoAddress \notin Workers
ASSUME FaultsAssumption == Faults \in BOOLEAN

VARIABLES
    req,         \* [Workers -> request handler in progress]
    run          \* [Workers -> listener run in progress]

\* A custodial key is known by the worker that generated it.
Addresses == Workers \cup {NoAddress}

RunPc == {"idle", "check", "create", "fund", "increment", "donor", "credit",
          "custody", "keygen", "mint", "record", "stamp"}

Run == [pc : RunPc, tx : Tx \cup {NoTx}, addr : Addresses]

NoRun == [pc |-> "idle", tx |-> NoTx, addr |-> NoAddress]

\* eventEmitter.emit('payment.successful', ...): Nest starts the listener,
\* which reads the database in a later turn of the event loop.
Emit(w, t) ==
    run' = [run EXCEPT ![w] = [pc |-> "check", tx |-> t, addr |-> NoAddress]]
=============================================================================
