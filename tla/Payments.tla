------------------------------ MODULE Payments ------------------------------
(***************************************************************************)
(* PaymentsService: how a payment transaction is created, verified and     *)
(* settled, over the two gateways and the in-app wallet.                   *)
(*                                                                         *)
(* Each handler is split where it awaits: what it read from the database   *)
(* stays in `req[w].seen' and may be stale when it saves.  save() is       *)
(* Mongoose's: it writes the status only when the handler changed it from  *)
(* the value it had read, and never compares it with the stored one.       *)
(***************************************************************************)
EXTENDS PaymentEvents

VARIABLES
    status,      \* [Tx -> status of the stored transaction, "none" before it exists]
    gateway,     \* [Tx -> what really happened to the money, outside the program]
    notices      \* webhooks Flutterwave has sent; each may arrive late, again, or never

payVars == <<status, gateway, notices, req>>

Status == {"none", "pending", "successful", "failed"}
Gateway == {"none", "token", "open", "failed", "paid"}
ReqPc == {"idle", "flwInit", "dpoInit", "flwVerify", "dpoVerify", "dpoHook",
          "save", "emit", "walletRow"}

\* seen: the status the handler read.  write: the status it is about to save.
\* then: does it emit 'payment.successful' after the save?
Request == [pc : ReqPc, tx : Tx \cup {NoTx}, seen : Status, write : Status, then : BOOLEAN]

NoRequest == [pc |-> "idle", tx |-> NoTx, seen |-> "none", write |-> "none", then |-> FALSE]

PayTypeOK ==
    /\ status \in [Tx -> Status]
    /\ gateway \in [Tx -> Gateway]
    /\ notices \subseteq FlwTx \X {"successful", "failed"}
    /\ req \in [Workers -> Request]

PayInit ==
    /\ status = [t \in Tx |-> "none"]
    /\ gateway = [t \in Tx |-> "none"]
    /\ notices = {}
    /\ req = [w \in Workers |-> NoRequest]

-----------------------------------------------------------------------------
(* Handler bookkeeping.                                                    *)

Free(w) == req[w].pc = "idle" /\ run[w].pc = "idle"

Await(w, pc, t) ==
    req' = [req EXCEPT ![w] = [pc |-> pc, tx |-> t, seen |-> status[t],
                               write |-> status[t], then |-> FALSE]]

Saving(w, s, emits) ==
    req' = [req EXCEPT ![w] = [pc |-> "save", tx |-> req[w].tx, seen |-> req[w].seen,
                               write |-> s, then |-> emits]]

Return(w) == req' = [req EXCEPT ![w] = NoRequest]

-----------------------------------------------------------------------------
(* initializePayment: the row is stored first, then Flutterwave is asked.  *)

FlwInitCreate(w, t) ==
    /\ Free(w) /\ t \in FlwTx /\ status[t] = "none"
    /\ status' = [status EXCEPT ![t] = "pending"]
    /\ req' = [req EXCEPT ![w] = [NoRequest EXCEPT !.pc = "flwInit", !.tx = t]]
    /\ UNCHANGED <<gateway, notices, run>>

\* Flutterwave accepts, and the customer can pay from now on.
FlwInitAccepted(w) ==
    /\ req[w].pc = "flwInit"
    /\ gateway' = [gateway EXCEPT ![req[w].tx] = "open"]
    /\ Return(w)
    /\ UNCHANGED <<status, notices, run>>

(* initializeDPOPayment: DPO is asked first, then the row is stored.  The  *)
(* customer gets the token with the response.                              *)

DpoInitToken(w, t) ==
    /\ Free(w) /\ t \in DpoTx /\ gateway[t] = "none"
    /\ gateway' = [gateway EXCEPT ![t] = "token"]
    /\ Await(w, "dpoInit", t)
    /\ UNCHANGED <<status, notices, run>>

DpoInitCreate(w) ==
    /\ req[w].pc = "dpoInit"
    /\ status' = [status EXCEPT ![req[w].tx] = "pending"]
    /\ gateway' = [gateway EXCEPT ![req[w].tx] = "open"]
    /\ Return(w)
    /\ UNCHANGED <<notices, run>>

-----------------------------------------------------------------------------
(* verifyPayment and verifyDPOPayment start alike: findOne, then await the *)
(* gateway's answer.                                                       *)

RequestVerify(w, t) ==
    /\ Free(w) /\ t \notin WalletTx /\ status[t] # "none"
    /\ Await(w, IF t \in FlwTx THEN "flwVerify" ELSE "dpoVerify", t)
    /\ UNCHANGED <<status, gateway, notices, run>>

\* Mutant of FlwVerifyPaid: the answer's status is not looked at.
FlwVerifyPaidUnchecked(w) ==
    /\ req[w].pc = "flwVerify"
    /\ Emit(w, req[w].tx)
    /\ Saving(w, "successful", FALSE)
    /\ UNCHANGED <<status, gateway, notices>>

\* verifyPayment on 'successful': it emits whatever status it had read, and
\* before it saves.
FlwVerifyPaid(w) ==
    /\ req[w].pc = "flwVerify" /\ gateway[req[w].tx] = "paid"
    /\ Emit(w, req[w].tx)
    /\ Saving(w, "successful", FALSE)
    /\ UNCHANGED <<status, gateway, notices>>

FlwVerifyFailed(w) ==
    /\ req[w].pc = "flwVerify" /\ gateway[req[w].tx] = "failed"
    /\ Saving(w, "failed", FALSE)
    /\ UNCHANGED <<status, gateway, notices, run>>

\* Mutant of FlwVerifyOther: the gateway's word is stored as the status.
FlwVerifyOtherStored(w) ==
    /\ req[w].pc = "flwVerify" /\ gateway[req[w].tx] \notin {"paid", "failed"}
    /\ Saving(w, gateway[req[w].tx], FALSE)
    /\ UNCHANGED <<status, gateway, notices, run>>

\* Any other answer leaves the document as it was read.
FlwVerifyOther(w) ==
    /\ req[w].pc = "flwVerify" /\ gateway[req[w].tx] \notin {"paid", "failed"}
    /\ Return(w)
    /\ UNCHANGED <<status, gateway, notices, run>>

\* verifyDPOPayment: '000' settles a transaction that was not read as settled.
DpoVerifyPaid(w) ==
    /\ req[w].pc = "dpoVerify" /\ gateway[req[w].tx] = "paid"
    /\ IF req[w].seen # "successful" THEN Saving(w, "successful", TRUE) ELSE Return(w)
    /\ UNCHANGED <<status, gateway, notices, run>>

\* Any code but '000' and 'pending' fails it, whatever was read.  DPO's Result is
\* handed through, so an error or an answer without one comes for paid tokens too.
DpoVerifyOther(w) ==
    /\ req[w].pc = "dpoVerify"
    /\ Saving(w, "failed", FALSE) \/ Return(w)
    /\ UNCHANGED <<status, gateway, notices, run>>

-----------------------------------------------------------------------------
(* The webhooks.                                                           *)

\* handleWebhook trusts the status in Flutterwave's signed notice.  `failed'
\* is saved whatever was read.
FlwWebhookPaid(w, t) ==
    /\ Free(w) /\ <<t, "successful">> \in notices /\ status[t] # "successful"
    /\ req' = [req EXCEPT ![w] = [pc |-> "save", tx |-> t, seen |-> status[t],
                                  write |-> "successful", then |-> TRUE]]
    /\ UNCHANGED <<status, gateway, notices, run>>

FlwWebhookFailed(w, t) ==
    /\ Free(w) /\ <<t, "failed">> \in notices
    /\ req' = [req EXCEPT ![w] = [pc |-> "save", tx |-> t, seen |-> status[t],
                                  write |-> "failed", then |-> FALSE]]
    /\ UNCHANGED <<status, gateway, notices, run>>

\* handleDPOWebhook only takes the token from the call, then asks DPO.
DpoWebhook(w, t) ==
    /\ Free(w) /\ t \in DpoTx /\ gateway[t] \in {"open", "failed", "paid"}
    /\ Await(w, "dpoHook", t)
    /\ UNCHANGED <<status, gateway, notices, run>>

\* Mutant of DpoWebhookAnswer: the call is believed without asking DPO.
DpoWebhookAnswerUnverified(w) ==
    /\ req[w].pc = "dpoHook"
    /\ IF req[w].seen # "successful" THEN Saving(w, "successful", TRUE) ELSE Return(w)
    /\ UNCHANGED <<status, gateway, notices, run>>

DpoWebhookAnswer(w) ==
    /\ req[w].pc = "dpoHook"
    /\ \/ /\ gateway[req[w].tx] = "paid" /\ req[w].seen # "successful"
          /\ Saving(w, "successful", TRUE)
       \/ Return(w)
    /\ UNCHANGED <<status, gateway, notices, run>>

-----------------------------------------------------------------------------
(* The end of every handler: transaction.save(), then maybe the event.     *)

Save(w) ==
    /\ req[w].pc = "save"
    /\ status' = IF req[w].write = req[w].seen
                 THEN status
                 ELSE [status EXCEPT ![req[w].tx] = req[w].write]
    /\ IF req[w].then THEN req' = [req EXCEPT ![w].pc = "emit"] ELSE Return(w)
    /\ UNCHANGED <<gateway, notices, run>>

\* Mutant of Publish: the status is saved and the event forgotten.
PublishNothing(w) ==
    /\ req[w].pc = "emit"
    /\ Return(w)
    /\ UNCHANGED <<status, gateway, notices, run>>

Publish(w) ==
    /\ req[w].pc = "emit"
    /\ Emit(w, req[w].tx)
    /\ Return(w)
    /\ UNCHANGED <<status, gateway, notices>>

\* processWalletInvestment: the wallet is debited and saved, then the row is
\* created already successful, then the event.
WalletDebit(w, t) ==
    /\ Free(w) /\ t \in WalletTx /\ gateway[t] = "none"
    /\ gateway' = [gateway EXCEPT ![t] = "paid"]
    /\ Await(w, "walletRow", t)
    /\ UNCHANGED <<status, notices, run>>

WalletRow(w) ==
    /\ req[w].pc = "walletRow"
    /\ status' = [status EXCEPT ![req[w].tx] = "successful"]
    /\ req' = [req EXCEPT ![w].pc = "emit"]
    /\ UNCHANGED <<gateway, notices, run>>

\* An awaited call throws: the handler ends with what it had done so far.
RequestThrows(w) ==
    /\ Faults /\ req[w].pc \notin {"idle", "emit"}
    /\ Return(w)
    /\ UNCHANGED <<status, gateway, notices, run>>

-----------------------------------------------------------------------------
(* The gateways.  A declined customer may try again; paid money stays paid. *)

Charge(t) ==
    /\ gateway[t] \in {"open", "failed"}
    /\ gateway' = [gateway EXCEPT ![t] = "paid"]
    /\ notices' = IF t \in FlwTx THEN notices \cup {<<t, "successful">>} ELSE notices
    /\ UNCHANGED <<status, req, run>>

Decline(t) ==
    /\ gateway[t] = "open"
    /\ gateway' = [gateway EXCEPT ![t] = "failed"]
    /\ notices' = IF t \in FlwTx THEN notices \cup {<<t, "failed">>} ELSE notices
    /\ UNCHANGED <<status, req, run>>

HandlerStep(w) ==
    \/ FlwInitAccepted(w) \/ DpoInitCreate(w)
    \/ FlwVerifyPaid(w) \/ FlwVerifyFailed(w) \/ FlwVerifyOther(w)
    \/ DpoVerifyPaid(w) \/ DpoVerifyOther(w) \/ DpoWebhookAnswer(w)
    \/ Save(w) \/ Publish(w) \/ WalletRow(w)

ClientStep(w, t) ==
    \/ FlwInitCreate(w, t) \/ DpoInitToken(w, t) \/ WalletDebit(w, t)
    \/ RequestVerify(w, t)
    \/ FlwWebhookPaid(w, t) \/ FlwWebhookFailed(w, t) \/ DpoWebhook(w, t)

PayNext ==
    \/ \E w \in Workers : HandlerStep(w) \/ RequestThrows(w)
    \/ \E w \in Workers, t \in Tx : ClientStep(w, t)
    \/ \E t \in Tx : Charge(t) \/ Decline(t)
=============================================================================
