------------------------------ MODULE Queries ------------------------------
(***************************************************************************)
(* What clients are shown while money moves: the listing of transactions,  *)
(* page by page (get_provider_transactions, get_user_transactions), the    *)
(* balance of a user (get_user_balance) and the check of a balance before  *)
(* a priority is accepted (create_user_priority).                          *)
(*                                                                         *)
(* A listing is two SELECTs without a common snapshot, and the pages of a  *)
(* client are requests of their own.  A row carries the time its           *)
(* transaction began and becomes visible when it commits, so rows appear   *)
(* in the middle of a listing; rows of one time have no order.  Rows are   *)
(* never deleted.  Balances are differences of unsigned 128-bit sums that  *)
(* are reported in 64 signed bits.                                         *)
(***************************************************************************)
EXTENDS SignedMath, FiniteSets, SequencesExt

CONSTANTS
  Account,    \* the ledger accounts of one user, one per provider
  Transfer,   \* the credits and debits of that user
  AccountOf,  \* [Transfer -> Account]
  TypeOf,     \* [Transfer -> {"CREDIT", "DEBIT"}]
  AmountOf,   \* [Transfer -> u64]
  MaxLimit,   \* the 100 of "limit.max(1).min(100)"
  Limit, Page, \* the values of the query parameters, i64
  MaxAmount,  \* the max_amount of the item of a priority
  MaxTime     \* bound of the clock of the database

ASSUME QueriesAssumption ==
  /\ AccountOf \in [Transfer -> Account]
  /\ TypeOf \in [Transfer -> {"CREDIT", "DEBIT"}]
  /\ AmountOf \in [Transfer -> 0 .. (2 * MaxSigned + 1)]
  /\ MaxLimit \in Nat \ {0}
  /\ Limit \subseteq I64 /\ Page \subseteq I64
  /\ MaxAmount \in Nat /\ MaxTime \in Nat
  /\ IsFiniteSet(Account)

(* The rows of a table, and a page more, can be counted in an i64.           *)
ASSUME TableFits ==
  IsFiniteSet(Transfer) /\ Cardinality(Transfer) + MaxLimit <= MaxSigned

VARIABLES
  posted,    \* the transfers in the ledger
  credits, debits,  \* credits_posted and debits_posted of its accounts
  begun,     \* the transfers whose INSERT has begun
  stamp,     \* created_at: the time at which it began
  rows,      \* the transactions table as committed
  clock,
  opened,    \* the accounts that exist in the ledger
  client,    \* who asks; clients change nothing, so one at a time is enough
  listing,   \* what the client of a listing asked for and was shown
  balance,   \* what the client of get_user_balance was shown
  check      \* the balance validation of a create

tableVars == <<posted, credits, debits, begun, stamp, rows, clock, opened>>
clientVars == <<client, listing, balance, check>>
vars == <<tableVars, clientVars>>

Client == {"walker", "reader", "owner", "creator"}

TypeOK ==
  /\ rows \subseteq begun /\ begun \subseteq posted /\ posted \subseteq Transfer
  /\ credits \in [Account -> Nat] /\ debits \in [Account -> Nat]
  /\ stamp \in [Transfer -> 0 .. MaxTime]
  /\ clock \in 0 .. MaxTime
  /\ opened \subseteq Account
  /\ client \in Client
  /\ listing \in [at : {"new", "count", "select", "done", "failed"}, page : I64, limit : I64,
                  total : Nat, due : SUBSET Transfer, shown : SUBSET Transfer]
  /\ balance \in [at : {"new", "done", "failed"}, total : I64, of : [Account -> I64],
                  true : [Account -> Int]]
  /\ check \in [at : {"new", "accepted", "refused"}, true : Int]

Asks(p, l) ==
  [at |-> "new", page |-> p, limit |-> l, total |-> 0, due |-> {}, shown |-> {}]

Init ==
  /\ posted = {} /\ begun = {} /\ rows = {} /\ opened = {}
  /\ credits = [a \in Account |-> 0] /\ debits = [a \in Account |-> 0]
  /\ stamp = [t \in Transfer |-> 0]
  /\ clock = 0
  /\ \/ client = "walker" /\ \E l \in Limit : listing = Asks(1, l)
     \/ client = "reader" /\ \E p \in Page, l \in Limit : listing = Asks(p, l)
     \/ client \in {"owner", "creator"} /\ listing = Asks(1, 1)
  /\ balance = [at |-> "new", total |-> 0, of |-> [a \in Account |-> 0],
                true |-> [a \in Account |-> 0]]
  /\ check = [at |-> "new", true |-> 0]

-----------------------------------------------------------------------------
(* The ledger and the table. *)

TrueBalance == [a \in Account |-> credits[a] - debits[a]]

(* create_account of a registration, after its row has been committed.       *)
Open(a) ==
  /\ a \notin opened
  /\ opened' = opened \cup {a}
  /\ UNCHANGED <<posted, credits, debits, begun, stamp, rows, clock, clientVars>>

(* Accounts of users are created with DebitsMustNotExceedCredits.            *)
Post(t) ==
  /\ t \notin posted /\ AccountOf[t] \in opened
  /\ TypeOf[t] = "DEBIT" => AmountOf[t] <= TrueBalance[AccountOf[t]]
  /\ posted' = posted \cup {t}
  /\ \/ /\ TypeOf[t] = "CREDIT"
        /\ credits' = [credits EXCEPT ![AccountOf[t]] = @ + AmountOf[t]]
        /\ UNCHANGED debits
     \/ /\ TypeOf[t] = "DEBIT"
        /\ debits' = [debits EXCEPT ![AccountOf[t]] = @ + AmountOf[t]]
        /\ UNCHANGED credits
  /\ UNCHANGED <<begun, stamp, rows, clock, opened, clientVars>>

(* execute_credit_transfer, execute_debit_transfer: BEGIN gives the time ... *)
BeginInsert(t) ==
  /\ t \in posted \ begun
  /\ begun' = begun \cup {t}
  /\ stamp' = [stamp EXCEPT ![t] = clock]
  /\ UNCHANGED <<posted, credits, debits, rows, clock, opened, clientVars>>

(* ... and COMMIT makes the row visible, if CHECK (amount > 0) holds.        *)
CommitInsert(t) ==
  /\ t \in begun \ rows /\ Wrapped(AmountOf[t]) > 0
  /\ rows' = rows \cup {t}
  /\ UNCHANGED <<posted, credits, debits, begun, stamp, clock, opened, clientVars>>

Tick ==
  /\ clock < MaxTime
  /\ clock' = clock + 1
  /\ UNCHANGED <<posted, credits, debits, begun, stamp, rows, opened, clientVars>>

-----------------------------------------------------------------------------
(* The listing. *)

Lower(m, n) == IF m < n THEN m ELSE n
Higher(m, n) == IF m > n THEN m ELSE n

(* pagination.limit.max(1).min(100), pagination.page.max(1) *)
LimitOf(q) == Lower(Higher(q.limit, 1), MaxLimit)
PageOf(q) == Higher(q.page, 1)

(* (page - 1) * limit *)
TrueOffset(q) == (PageOf(q) - 1) * LimitOf(q)
UnclampedOffset(q) == Wrapped((PageOf(q) - 1) * q.limit)     \* mutant of Offset
Offset(q) == Wrapped(TrueOffset(q))

(* (total_count as f64 / limit as f64).ceil() *)
OneMorePage(q) == q.total \div LimitOf(q) + 1           \* mutant of TotalPages
TotalPages(q) == (q.total + LimitOf(q) - 1) \div LimitOf(q)

(* ORDER BY created_at DESC *)
Listings ==
  {s \in SetToSeqs(rows) : \A i, j \in DOMAIN s : i < j => stamp[s[i]] >= stamp[s[j]]}

(* LIMIT $limit OFFSET $offset; the offset may not be negative.              *)
Cut(s, q) == {s[i] : i \in {j \in DOMAIN s : Offset(q) < j /\ j <= Offset(q) + LimitOf(q)}}

(* SELECT count( * ): the first of the two statements.                       *)
CountRows ==
  /\ client \in {"walker", "reader"} /\ listing.at \in {"new", "count"}
  /\ listing' = [listing EXCEPT !.at = "select", !.total = Cardinality(rows),
                                !.due = IF listing.at = "new" THEN rows ELSE @]
  /\ UNCHANGED <<tableVars, client, balance, check>>

(* The page is read and answered.  A walker asks for the next one; the       *)
(* server keeps nothing between two pages.                                   *)
Answer(data) ==
  IF client = "walker" /\ data # {}
  THEN [listing EXCEPT !.at = "count", !.page = @ + 1, !.shown = @ \cup data]
  ELSE [listing EXCEPT !.at = "done", !.shown = @ \cup data]

SelectPage ==
  /\ listing.at = "select" /\ Offset(listing) >= 0
  /\ \E s \in Listings : listing' = Answer(Cut(s, listing))
  /\ UNCHANGED <<tableVars, client, balance, check>>

(* PostgreSQL refuses a negative offset; a debug build panics before.        *)
RefusePage ==
  /\ listing.at = "select"
  /\ Offset(listing) < 0 \/ Overflows(TrueOffset(listing))
  /\ listing' = [listing EXCEPT !.at = "failed"]
  /\ UNCHANGED <<tableVars, client, balance, check>>

-----------------------------------------------------------------------------
(* The balances: one lookup_accounts call for all accounts.                  *)

(* An account that the ledger does not have counts 0.                        *)
BalanceOf == [a \in Account |->
  IF a \in opened THEN Difference(credits[a], debits[a]) ELSE 0]
TotalOf(f, A) == MapThenSumSet(LAMBDA a : f[a], A)

(* A debug build panics at the first result that does not fit; the order of  *)
(* the accounts is the database's.                                           *)
Panics ==
  \/ \E a \in opened : Overflows(RawDifference(credits[a], debits[a]))
  \/ \E A \in SUBSET Account : Overflows(TotalOf(BalanceOf, A))

GetBalance ==
  /\ client = "owner" /\ balance.at = "new"
  /\ \/ balance' = [at |-> "done", total |-> Wrapped(TotalOf(BalanceOf, Account)),
                    of |-> BalanceOf, true |-> TrueBalance]
     \/ Panics /\ balance' = [balance EXCEPT !.at = "failed"]
  /\ UNCHANGED <<tableVars, client, listing, check>>

(* "available_balance < item.max_amount" is refused with 422.                *)
CheckFunds ==
  /\ client = "creator" /\ check.at = "new"
  /\ \E a \in Account :
       check' = [at |-> IF a \in opened /\ Available(credits[a], debits[a]) >= MaxAmount
                        THEN "accepted" ELSE "refused",
                 true |-> TrueBalance[a]]
  /\ UNCHANGED <<tableVars, client, listing, balance>>

-----------------------------------------------------------------------------
Next ==
  \/ \E a \in Account : Open(a)
  \/ \E t \in Transfer : Post(t) \/ BeginInsert(t) \/ CommitInsert(t)
  \/ Tick
  \/ CountRows \/ SelectPage \/ RefusePage
  \/ GetBalance \/ CheckFunds

Spec == Init /\ [][Next]_vars

-----------------------------------------------------------------------------
(* Properties. *)

(* A client that goes on until a page is empty has seen every row that was   *)
(* there when it began, whatever was inserted meanwhile and whatever limit   *)
(* it asked for.  Rows with the very same time are excepted: their order may *)
(* change between two pages.                                                 *)
Tied(t) == \E r \in rows \ {t} : stamp[r] = stamp[t]
NoRowSkipped ==
  client = "walker" =>
    /\ listing.at # "failed"
    /\ listing.at = "done" => \A t \in listing.due : t \in listing.shown \/ Tied(t)

(* The total_pages of an answer is a promise that later insertions keep: a   *)
(* page up to it is not empty, and never fails, so the product behind the    *)
(* offset of an existing page always fits.                                   *)
ExistingPageIsShown ==
  client = "reader" /\ listing.at \in {"done", "failed"}
      /\ PageOf(listing) <= TotalPages(listing)
    => listing.at = "done" /\ listing.shown # {}

(* Casting both sums to i64 before they are subtracted loses nothing as long *)
(* as the result is an i64, however large the sums are: each balance shown   *)
(* is exact, and so is the total of balances of one moment.                  *)
TrueTotal == TotalOf(balance.true, Account)
BalancesAreExact ==
  balance.at = "done" =>
    /\ \A a \in Account : balance.true[a] \in I64 => balance.of[a] = balance.true[a]
    /\ TrueTotal \in I64 => balance.total = TrueTotal

(* The check of a create may refuse a balance that does not fit an i64, but  *)
(* never lets a priority pass that the account cannot pay.                   *)
AcceptedIsCovered == check.at = "accepted" => MaxAmount <= check.true
=============================================================================
