------------------------------ MODULE Treasury ------------------------------
(***************************************************************************)
(* treasury.service.ts: the platform's ledger of fees, donations,          *)
(* withdrawals and distributions, and the one document with its balances.  *)
(*                                                                         *)
(* updateWalletBalance reads that document, or creates it, and saves the   *)
(* fields it changed.  Fees and donations are booked before the balances   *)
(* are; withdrawals and distributions are first paid on chain (if they     *)
(* name a receiver and not a payment made already), then taken off the     *)
(* balances, then booked.                                                  *)
(***************************************************************************)
EXTENDS Naturals, Sequences, FiniteSets

CONSTANTS
    Bookings,        \* requests, each used once
    Amounts,
    TellersTogether  \* requests in progress at the same time

ASSUME TreasuryAssumption ==
    IsFiniteSet(Bookings) /\ Amounts \subseteq Nat \ {0} /\ TellersTogether \in Nat

VARIABLES
    treasury,   \* the TreasuryWallet documents, the oldest first
    rows,       \* the bookings that have a TreasuryTransaction
    paid,       \* the bookings paid on chain
    booking,    \* [Bookings -> the request: what it is, and what it read]
    smooth      \* history: so far no two requests overlapped and none failed

treasuryVars == <<treasury, rows, paid, booking, smooth>>

In == {"FEE", "DONATION"}
Out == {"WITHDRAWAL", "DISTRIBUTION"}

Balances == [total : Nat, available : Nat]

\* "balance" only looks at the balances; onchain: the server is to pay it.
Booking == [pc : {"new", "pay", "find", "create", "save", "row", "done", "failed"},
            type : In \cup Out \cup {"balance"}, amount : Amounts \cup {0}, onchain : BOOLEAN,
            at : Nat, read : Balances]

TreasuryTypeOK ==
    /\ treasury \in Seq(Balances)
    /\ rows \subseteq Bookings /\ paid \subseteq Bookings
    /\ booking \in [Bookings -> Booking]
    /\ smooth \in BOOLEAN

Empty == [total |-> 0, available |-> 0]

TreasuryInit ==
    /\ treasury = <<>> /\ rows = {} /\ paid = {}
    /\ booking = [b \in Bookings |->
         [pc |-> "new", type |-> "balance", amount |-> 0, onchain |-> FALSE, at |-> 0, read |-> Empty]]
    /\ smooth = TRUE

Booked == {b \in Bookings : booking[b].pc \notin {"new", "done", "failed"}}

Goes(b, pc) ==
    booking' = [booking EXCEPT ![b] =
      IF pc \in {"done", "failed"} THEN [@ EXCEPT !.pc = pc, !.at = 0, !.read = Empty]
      ELSE [@ EXCEPT !.pc = pc]]

-----------------------------------------------------------------------------

\* recordFee, recordDonation (also handleEscrowFeeEvent, handleNFTFeeEvent), withdraw,
\* distributeFunds and getBalance, up to their first call.
Book(b, type, amount, onchain) ==
    /\ booking[b].pc = "new" /\ Cardinality(Booked) < TellersTogether
    /\ type = "balance" <=> amount = 0
    /\ onchain => type \in Out
    /\ booking' = [booking EXCEPT ![b] =
         [@ EXCEPT !.type = type, !.amount = amount, !.onchain = onchain,
                   !.pc = IF type \in In THEN "row" ELSE IF onchain THEN "pay" ELSE "find"]]
    /\ smooth' = (smooth /\ Booked = {})
    /\ UNCHANGED <<treasury, rows, paid>>

\* The contract pays, or the transaction is reverted: the client waits for the
\* receipt and does not look at its status.
Pay(b, reverted) ==
    /\ booking[b].pc = "pay"
    /\ paid' = IF reverted THEN paid ELSE paid \cup {b}
    /\ Goes(b, "find")
    /\ UNCHANGED <<treasury, rows, smooth>>

\* Is the request done with the document it holds, is there too little, or will it
\* save?
Holding(b, n, wallet) ==
    LET type == booking[b].type
        amount == booking[b].amount
        short == \/ type = "WITHDRAWAL" /\ wallet.total < amount
                 \/ type \in Out /\ wallet.available < amount
    IN  IF type = "balance" THEN Goes(b, "done")
        ELSE IF short THEN Goes(b, "failed")
        ELSE booking' = [booking EXCEPT ![b] = [@ EXCEPT !.pc = "save", !.at = n, !.read = wallet]]

\* findOneAndUpdate({}) returns the first document, or is about to insert one.
FindTreasury(b) ==
    /\ booking[b].pc = "find"
    /\ IF treasury = <<>> THEN Goes(b, "create") ELSE Holding(b, 1, treasury[1])
    /\ UNCHANGED <<treasury, rows, paid, smooth>>

\* Two that found none insert one each: no index forbids it.
CreateTreasury(b) ==
    /\ booking[b].pc = "create"
    /\ treasury' = Append(treasury, Empty)
    /\ Holding(b, Len(treasury) + 1, Empty)
    /\ UNCHANGED <<rows, paid, smooth>>

\* Mutant of Changed: a distribution is taken off the total, too.
ChangedAll(type, amount, wallet) ==
    IF type \in In
    THEN [total |-> wallet.total + amount, available |-> wallet.available + amount]
    ELSE [total |-> wallet.total - amount, available |-> wallet.available - amount]

\* The balances after a booking.
Changed(type, amount, wallet) ==
    CASE type \in In -> [total |-> wallet.total + amount, available |-> wallet.available + amount]
      [] type = "WITHDRAWAL" ->
           [total |-> wallet.total - amount, available |-> wallet.available - amount]
      [] OTHER -> [total |-> wallet.total, available |-> wallet.available - amount]

\* save() writes the fields that differ from what was read: a distribution leaves
\* the total alone.
SaveTreasury(b) ==
    /\ booking[b].pc = "save"
    /\ LET new == Changed(booking[b].type, booking[b].amount, booking[b].read)
       IN  treasury' = [treasury EXCEPT ![booking[b].at] =
             [total |-> IF new.total = booking[b].read.total THEN @.total ELSE new.total,
              available |-> new.available]]
    /\ Goes(b, IF booking[b].type \in In THEN "done" ELSE "row")
    /\ UNCHANGED <<rows, paid, smooth>>

\* Mutant of Row: fees and donations are added to the balances whether or not they
\* could be booked.
RowLost(b) ==
    /\ booking[b].pc = "row"
    /\ rows' \in {rows, rows \cup {b}}
    /\ Goes(b, IF booking[b].type \in In THEN "find" ELSE "done")
    /\ UNCHANGED <<treasury, paid, smooth>>

\* The TreasuryTransaction is created.
Row(b) ==
    /\ booking[b].pc = "row"
    /\ rows' = rows \cup {b}
    /\ Goes(b, IF booking[b].type \in In THEN "find" ELSE "done")
    /\ UNCHANGED <<treasury, paid, smooth>>

\* A call throws, or the server stops.
Fail(b) ==
    /\ b \in Booked
    /\ Goes(b, "failed")
    /\ smooth' = FALSE
    /\ UNCHANGED <<treasury, rows, paid>>

TreasuryNext ==
    \E b \in Bookings :
        \/ \E type \in In \cup Out \cup {"balance"}, amount \in Amounts \cup {0}, onchain \in BOOLEAN :
             Book(b, type, amount, onchain)
        \/ \E reverted \in BOOLEAN : Pay(b, reverted)
        \/ FindTreasury(b) \/ CreateTreasury(b) \/ SaveTreasury(b) \/ Row(b) \/ Fail(b)

TreasurySpec == TreasuryInit /\ [][TreasuryNext]_treasuryVars

-----------------------------------------------------------------------------

\* What some requests add up to, counted unit by unit.
TotalOf(requests, B) == Cardinality(UNION {{b} \X (1..requests[b].amount) : b \in B})

\* getSummary: what the rows of some types add up to.
Sums(types) == TotalOf(booking, {b \in rows : booking[b].type \in types})

\* However requests overlap, fail or overwrite each other's balances, no document
\* shows more than the fees and donations that are booked.
ShownWasBooked ==
    \A n \in DOMAIN treasury :
        treasury[n].total <= Sums(In) /\ treasury[n].available <= Sums(In)

\* While no two requests overlapped and none failed, there is one document, and its
\* balances are what the bookings add up to.
BalancesMatchRows ==
    smooth /\ Booked = {} =>
        /\ Len(treasury) <= 1
        /\ \A n \in DOMAIN treasury :
             /\ treasury[n].total + Sums({"WITHDRAWAL"}) = Sums(In)
             /\ treasury[n].available + Sums(Out) = Sums(In)
        /\ treasury = <<>> => rows = {}

-----------------------------------------------------------------------------
(* The inductive strengthening.                                            *)

\* The fees and donations that are in some balance, and what was taken off one.
Shown == {b \in Bookings : booking[b].type \in In /\ booking[b].pc = "done"}

Taken(types) == {b \in Bookings : booking[b].type \in types /\ booking[b].pc \in {"row", "done"}}

\* Which bookings have their row at which step, and that only looking is free.
RowsInPlace ==
    \A b \in Bookings :
        /\ booking[b].type = "balance" <=> booking[b].amount = 0
        /\ booking[b].pc = "new" => booking[b].type = "balance"
        /\ booking[b].pc = "pay" => booking[b].type \in Out
        /\ booking[b].pc \in {"save", "row"} => booking[b].type \in In \cup Out
        /\ booking[b].type \in In /\ booking[b].pc \in {"find", "create", "save", "done"} => b \in rows
        /\ booking[b].type \in Out /\ booking[b].pc = "done" => b \in rows
        /\ b \in rows =>
             \/ booking[b].type \in In /\ booking[b].pc \notin {"new", "pay", "row"}
             \/ booking[b].type \in Out /\ booking[b].pc = "done"

\* A booking that is about to be saved is covered by what it read.
ReadsCover ==
    \A b \in Bookings : booking[b].pc = "save" =>
        /\ booking[b].at \in DOMAIN treasury
        /\ booking[b].type = "WITHDRAWAL" => booking[b].amount <= booking[b].read.total
        /\ booking[b].type \in Out => booking[b].amount <= booking[b].read.available

\* What a document shows, and what was read of one, is in what was saved before.
SavedBefore(wallet) ==
    wallet.total <= TotalOf(booking, Shown) /\ wallet.available <= TotalOf(booking, Shown)

BalancesSaved ==
    /\ \A n \in DOMAIN treasury : SavedBefore(treasury[n])
    /\ \A b \in Bookings : booking[b].pc = "save" => SavedBefore(booking[b].read)

\* While all goes smoothly one request at a time works on one document, whose
\* balances are exact at each step.
Exact(wallet) ==
    /\ wallet.total + TotalOf(booking, Taken({"WITHDRAWAL"})) = TotalOf(booking, Shown)
    /\ wallet.available + TotalOf(booking, Taken(Out)) = TotalOf(booking, Shown)

SmoothOK ==
    smooth =>
        /\ \A b, c \in Booked : b = c
        /\ Len(treasury) <= 1
        /\ \A n \in DOMAIN treasury : Exact(treasury[n])
        /\ treasury = <<>> => Shown = {} /\ Taken(Out) = {}
        /\ \A b \in Bookings :
             /\ booking[b].pc = "create" => treasury = <<>>
             /\ booking[b].pc = "save" => booking[b].read = treasury[booking[b].at]
        /\ \A b \in rows : booking[b].pc # "failed"

TreasuryIInv == TreasuryTypeOK /\ RowsInPlace /\ ReadsCover /\ BalancesSaved /\ SmoothOK
=============================================================================
