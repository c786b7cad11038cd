------------------------------ MODULE Receipts ------------------------------
(***************************************************************************)
(* Money that reaches the lender outside a teller's counter, and the rule  *)
(* that one bank transfer is applied once (D-164).  Borrowers claim that   *)
(* they paid and staff record what they saw (KhqrReceiptsService); a       *)
(* second person verifies.  Bank statements and channel files are imported *)
(* (KhqrStatementsService, ChannelFilesService): a line is posted to a     *)
(* loan, or held in suspense until somebody matches or refunds it          *)
(* (SuspenseService).                                                      *)
(*                                                                         *)
(* An import is one transaction, long and without locks on what it reads;  *)
(* so is the recording of a receipt.  Both are modelled by what they read  *)
(* and, in a later step, what they write; files have one line.  All other  *)
(* operations hold the row they are about, and are one step.  Loans are    *)
(* left out: whether one takes a payment, and which of them a remark or a  *)
(* payer's name points to, may go either way each time.                    *)
(***************************************************************************)
EXTENDS Integers, FiniteSets

CONSTANTS
  Transfers,   \* bank transfers, by their reference
  Listed,      \* those of them that statements list
  Channels,    \* payments of channel files, by their transaction id
  Walkins,     \* money that staff enter as unidentified by hand
  Amount,      \* of each of them
  Receipts,    \* numbers of receipts
  People,      \* staff
  Borrower,
  Uploads,     \* imports under way at once
  Recorders,   \* recordings of a receipt under way at once
  AutoPosts,   \* values payments.khqr.statementAutoPost may have at an import
  Nothing,
  Scenes       \* bound: sets of payments that come together

Payments == Transfers \cup Channels \cup Walkins
Makers == People \cup {Borrower}
Sums == {Amount[p] : p \in Payments}

VARIABLES
  coming,    \* the payments there are
  receipt,   \* KhqrReceipt rows
  line,      \* outcome of the ChannelFileLine that keeps a reference's dedupeKey
  held,      \* UnidentifiedPayment rows, by the payment that was received
  refund,    \* the SUSPENSE_REFUND task awaiting approval, of each held payment
  upload,    \* what each import has decided
  form,      \* what each recording has read
  cash,      \* history: the times a payment was entered as received
  posts,     \* history: the repayments posted for a receipt
  spent      \* history: the money that left suspense

vars == <<coming, receipt, line, held, refund, upload, form, cash, posts, spent>>

NoReceipt == [status |-> "NONE", ref |-> Nothing, amount |-> 0, maker |-> Nothing,
              held |-> Nothing]
NotHeld == [status |-> "NONE", remaining |-> 0]
NoTask == [amount |-> 0, maker |-> Nothing]
NoUpload == [kind |-> "IDLE", at |-> Nothing, receipt |-> 0, held |-> Nothing, auto |-> FALSE]
NoForm == [ref |-> Nothing, amount |-> 0, maker |-> Nothing, held |-> Nothing]

\* "rejected receipts free their reference"
Standing(t) == {r \in Receipts : receipt[r].ref = t /\ receipt[r].status # "REJECTED"}
Open(h) == held[h].status = "OPEN"
Unused == {r \in Receipts : receipt[r].status = "NONE"}

Count(c) == IF c < 2 THEN c + 1 ELSE c

-----------------------------------------------------------------------------
(* Suspense. *)

\* receiveInTx: cash against the suspense account.
Received(h) == [status |-> "OPEN", remaining |-> Amount[h]]

\* settle: what is left, and how the payment ended when nothing is.
Settled(h, n, kind) ==
  [held[h] EXCEPT !.remaining = @ - n,
                  !.status = IF held[h].remaining # n THEN "OPEN"
                             ELSE IF kind = "MATCH" \/ spent[h].matched > 0
                                  THEN "MATCHED" ELSE "REFUNDED"]

Settle(h, n, kind) ==
  /\ held' = [held EXCEPT ![h] = Settled(h, n, kind)]
  /\ spent' = IF kind = "MATCH" THEN [spent EXCEPT ![h].matched = @ + n]
              ELSE [spent EXCEPT ![h].refunded = @ + n]

\* lockOpen and the comparison with what is still held.
Covers(h, n) == Open(h) /\ n <= held[h].remaining

Receive(h) ==
  /\ held[h].status = "NONE"
  /\ held' = [held EXCEPT ![h] = Received(h)]
  /\ cash' = [cash EXCEPT ![h] = Count(@)]
  /\ UNCHANGED <<coming, receipt, line, refund, upload, form, posts, spent>>

Match(h, n) ==
  /\ Open(h) /\ n <= held[h].remaining
  /\ Settle(h, n, "MATCH")
  /\ UNCHANGED <<coming, receipt, line, refund, upload, form, cash, posts>>

ProposeRefund(p, h, n) ==
  /\ Open(h) /\ n <= held[h].remaining /\ refund[h] = NoTask
  /\ refund' = [refund EXCEPT ![h] = [amount |-> n, maker |-> p]]
  /\ UNCHANGED <<coming, receipt, line, held, upload, form, cash, posts, spent>>

ApproveRefund(p, h) ==
  /\ refund[h] # NoTask /\ refund[h].maker # p
  /\ Covers(h, refund[h].amount)
  /\ Settle(h, refund[h].amount, "REFUND")
  /\ refund' = [refund EXCEPT ![h] = NoTask]
  /\ UNCHANGED <<coming, receipt, line, upload, form, cash, posts>>

RejectRefund(p, h) ==
  /\ refund[h] # NoTask /\ refund[h].maker # p
  /\ refund' = [refund EXCEPT ![h] = NoTask]
  /\ UNCHANGED <<coming, receipt, line, held, upload, form, cash, posts, spent>>

-----------------------------------------------------------------------------
(* Receipts. *)

\* refFree: the held payment to link to, where the reference may be recorded.
LinkOf(t) == IF line[t] = "SUSPENSE" THEN t ELSE Nothing

ReadForm(f, m, t, n) ==
  /\ form[f] = NoForm
  /\ Standing(t) = {}
  /\ line[t] = "NONE" \/ (line[t] = "SUSPENSE" /\ Open(t))
  /\ form' = [form EXCEPT ![f] = [ref |-> t, amount |-> n, maker |-> m, held |-> LinkOf(t)]]
  /\ UNCHANGED <<coming, receipt, line, held, refund, upload, cash, posts, spent>>

\* The unique index KhqrReceipt_one_per_bank_ref has the last word.
Record(f) ==
  /\ form[f] # NoForm
  /\ IF Standing(form[f].ref) = {}
     THEN \E r \in Unused :
            /\ \A k \in Unused : r <= k
            /\ receipt' = [receipt EXCEPT ![r] =
                 [status |-> "PENDING", ref |-> form[f].ref, amount |-> form[f].amount,
                  maker |-> form[f].maker, held |-> form[f].held]]
     ELSE UNCHANGED receipt
  /\ form' = [form EXCEPT ![f] = NoForm]
  /\ UNCHANGED <<coming, line, held, refund, upload, cash, posts, spent>>

\* postInTx: a repayment funded from suspense where the row read is linked to
\* held money, from cash otherwise.  `paid` is the payment it is entered for.
Fund(link, n, paid) ==
  \/ /\ link = Nothing
     /\ cash' = [cash EXCEPT ![paid] = Count(@)]
     /\ UNCHANGED <<held, spent>>
  \/ /\ link # Nothing /\ Open(link) /\ n <= held[link].remaining
     /\ Settle(link, n, "MATCH")
     /\ UNCHANGED cash

Verify(p, r) ==
  /\ receipt[r].status = "PENDING" /\ receipt[r].maker # p
  /\ Fund(receipt[r].held, receipt[r].amount, receipt[r].ref)
  /\ receipt' = [receipt EXCEPT ![r].status = "POSTED"]
  /\ posts' = [posts EXCEPT ![r] = Count(@)]
  /\ UNCHANGED <<coming, line, refund, upload, form>>

Reject(p, r) ==
  /\ receipt[r].status = "PENDING" /\ receipt[r].maker # p
  /\ receipt' = [receipt EXCEPT ![r].status = "REJECTED"]
  /\ UNCHANGED <<coming, line, held, refund, upload, form, cash, posts, spent>>

-----------------------------------------------------------------------------
(* Imports. *)

\* decide: what a line is to do, from what is committed when it is read.
Decides(u, t, kind, r) ==
  \E auto \in AutoPosts :
    upload' = [upload EXCEPT ![u] =
      [kind |-> kind, at |-> t, receipt |-> r, auto |-> auto,
       held |-> IF r = 0 THEN Nothing ELSE receipt[r].held]]

\* Pending receipts the rule of payer and amount may take for the line's.
Candidates(t) == {r \in Receipts :
  receipt[r].status = "PENDING" /\ receipt[r].amount = Amount[t] /\ receipt[r].held = Nothing}

DecideStatement(u, t) ==
  /\ upload[u] = NoUpload /\ line[t] = "NONE"
  /\ \/ \E r \in Standing(t) :
          \/ receipt[r].status = "PENDING" /\ receipt[r].amount = Amount[t]
               /\ Decides(u, t, "RECEIPT", r)
          \/ receipt[r].status = "PENDING" /\ receipt[r].amount # Amount[t]
               /\ Decides(u, t, "SUSPENSE", 0)
     \/ /\ Standing(t) = {}
        /\ \/ Decides(u, t, "LOAN", 0) \/ Decides(u, t, "SUSPENSE", 0)
           \/ \E r \in Candidates(t) : Decides(u, t, "RECEIPT", r)
  /\ UNCHANGED <<coming, receipt, line, held, refund, form, cash, posts, spent>>

\* processLine of a settlement or payroll file: matched lines are always posted.
DecideChannel(u, c) ==
  /\ upload[u] = NoUpload /\ line[c] = "NONE"
  /\ \E kind \in {"LOAN", "SUSPENSE"} : upload' = [upload EXCEPT ![u] =
       [NoUpload EXCEPT !.kind = kind, !.at = c, !.auto = TRUE]]
  /\ UNCHANGED <<coming, receipt, line, held, refund, form, cash, posts, spent>>

\* The outcome of a line, under its dedupeKey: the file that comes second fails.
Files(u, outcome) ==
  /\ line[upload[u].at] = "NONE"
  /\ line' = [line EXCEPT ![upload[u].at] = outcome]
  /\ upload' = [upload EXCEPT ![u] = NoUpload]
  /\ UNCHANGED <<coming, refund, form>>

PostLoan(u) ==
  /\ upload[u].kind = "LOAN" /\ upload[u].auto
  /\ Files(u, "POSTED")
  /\ cash' = [cash EXCEPT ![upload[u].at] = Count(@)]
  /\ UNCHANGED <<coming, receipt, held, posts, spent>>

AsItWasRead(r) == TRUE

\* The update that marks the receipt finds it pending.
StillPending(r) == receipt[r].status = "PENDING"

PostReceipt(u) ==
  /\ upload[u].kind = "RECEIPT" /\ upload[u].auto
  /\ LET r == upload[u].receipt
     IN  /\ StillPending(r)
         /\ Fund(upload[u].held, receipt[r].amount, upload[u].at)
         /\ receipt' = [receipt EXCEPT ![r].status = "POSTED"]
         /\ posts' = [posts EXCEPT ![r] = Count(@)]
  /\ Files(u, "POSTED")

\* Unmatched, refused by the loan or decided meanwhile, or matched while
\* auto-posting is off.  Only in the last case is a receipt linked or made.
Hold(u) ==
  LET t == upload[u].at
      r == upload[u].receipt
  IN  /\ upload[u].kind # "IDLE"
      /\ held' = [held EXCEPT ![t] = Received(t)]
      /\ cash' = [cash EXCEPT ![t] = Count(@)]
      /\ \/ /\ upload[u].auto \/ upload[u].kind = "SUSPENSE"
               \/ (upload[u].kind = "RECEIPT" /\ ~StillPending(r))
            /\ UNCHANGED receipt
         \/ /\ ~upload[u].auto /\ upload[u].kind = "RECEIPT" /\ StillPending(r)
            /\ receipt' = [receipt EXCEPT ![r].held = t]
         \/ /\ ~upload[u].auto /\ upload[u].kind = "LOAN" /\ Standing(t) = {}
            /\ \E k \in Unused, m \in People :
                 /\ \A j \in Unused : k <= j
                 /\ receipt' = [receipt EXCEPT ![k] =
                      [status |-> "PENDING", ref |-> t, amount |-> Amount[t],
                       maker |-> m, held |-> t]]
      /\ Files(u, "SUSPENSE")
      /\ UNCHANGED <<posts, spent>>

\* Another import has the line's key, another receipt its reference, or the
\* server dies: nothing of the file is kept.
Fail(u) ==
  /\ upload[u] # NoUpload
  /\ upload' = [upload EXCEPT ![u] = NoUpload]
  /\ UNCHANGED <<coming, receipt, line, held, refund, form, cash, posts, spent>>

-----------------------------------------------------------------------------
Init ==
  /\ coming \in Scenes
  /\ receipt = [r \in Receipts |-> NoReceipt]
  /\ line = [t \in Transfers \cup Channels |-> "NONE"]
  /\ held = [h \in Payments |-> NotHeld]
  /\ refund = [h \in Payments |-> NoTask]
  /\ upload = [u \in Uploads |-> NoUpload]
  /\ form = [f \in Recorders |-> NoForm]
  /\ cash = [t \in Payments |-> 0]
  /\ posts = [r \in Receipts |-> 0]
  /\ spent = [h \in Payments |-> [matched |-> 0, refunded |-> 0]]

Next ==
  \/ \E h \in Walkins \cap coming : Receive(h)
  \/ \E h \in Payments, n \in Sums : Match(h, n)
  \/ \E p \in People, h \in Payments, n \in Sums : ProposeRefund(p, h, n)
  \/ \E p \in People, h \in Payments : ApproveRefund(p, h) \/ RejectRefund(p, h)
  \/ \E f \in Recorders, m \in Makers, t \in Transfers \cap coming, n \in Sums : ReadForm(f, m, t, n)
  \/ \E f \in Recorders : Record(f)
  \/ \E p \in People, r \in Receipts : Verify(p, r) \/ Reject(p, r)
  \/ \E u \in Uploads, t \in Listed \cap coming : DecideStatement(u, t)
  \/ \E u \in Uploads, c \in Channels \cap coming : DecideChannel(u, c)
  \/ \E u \in Uploads : PostLoan(u) \/ PostReceipt(u) \/ Hold(u) \/ Fail(u)

Spec == Init /\ [][Next]_vars
-----------------------------------------------------------------------------
(* Properties. *)

TypeOK ==
  /\ coming \in Scenes
  /\ receipt \in [Receipts ->
       [status : {"NONE", "PENDING", "POSTED", "REJECTED"}, ref : Transfers \cup {Nothing},
        amount : Sums \cup {0}, maker : Makers \cup {Nothing},
        held : Transfers \cup {Nothing}]]
  /\ line \in [Transfers \cup Channels -> {"NONE", "POSTED", "SUSPENSE"}]
  /\ \A h \in Payments :
       /\ held[h].status \in {"NONE", "OPEN", "MATCHED", "REFUNDED"}
       /\ held[h].remaining \in 0 .. Amount[h]
       /\ refund[h].amount \in Sums \cup {0} /\ refund[h].maker \in People \cup {Nothing}
  /\ \A u \in Uploads : upload[u].kind \in {"IDLE", "LOAN", "RECEIPT", "SUSPENSE"}

\* A receipt is decided once, by a person or by a statement: what was posted for
\* it is one repayment, and nothing for one that is pending or was rejected.
PostedOnce == \A r \in Receipts :
  posts[r] = IF receipt[r].status = "POSTED" THEN 1 ELSE 0

\* Held money is matched, refunded and used by receipts once: what left suspense
\* and what is still held are what was received.
HeldOnce == \A h \in Payments : held[h].status # "NONE" =>
  /\ held[h].remaining + spent[h].matched + spent[h].refunded = Amount[h]
  /\ held[h].remaining >= 0
  /\ (held[h].status = "OPEN") = (held[h].remaining > 0)

\* D-164: "a claim or receipt for a reference whose statement line is held in
\* suspense is linked to it, and verifying it applies the money from suspense":
\* the transfer is not entered as received a second time.
LinkedOnce == \A r \in Receipts :
  receipt[r].status = "POSTED" /\ receipt[r].held = receipt[r].ref => cash[receipt[r].ref] = 1

\* Money that came in is used once, whether a person, a statement or a channel
\* file comes to it first.
MoneyIsUsedOnce == TypeOK /\ PostedOnce /\ HeldOnce /\ LinkedOnce

\* D-164: "One bank transfer, applied once": it is entered as received once.
OneTransferOnce == \A t \in Transfers : cash[t] <= 1

\* "money a channel reports is never dropped": a line that was imported has been
\* entered as received.
EveryLineIsBooked == \A t \in Transfers \cup Channels : line[t] # "NONE" => cash[t] >= 1
=============================================================================
