------------------------------- MODULE Accounts -------------------------------
(***************************************************************************)
(* The identifiers of accounts (accounts.service.ts, register of           *)
(* auth.service.ts).  An email or a phone belongs to one account.  Rows    *)
(* written before identifiers were normalised spell them differently, so   *)
(* the unique index of the table does not see that they are the same; the  *)
(* services compare normalised values instead, register and update under   *)
(* advisory locks on the identifiers, taken one by one.                    *)
(***************************************************************************)
EXTENDS Integers, FiniteSets

CONSTANTS
  Emails, Phones,     \* normalised identifiers
  AccountRows,        \* numbers of the rows that may be made
  AccountDesks,       \* transactions in flight
  NoIdentifier,       \* no email
  MaxAccountOps

ASSUME AccountsAssumption ==
  /\ AccountRows \subseteq Nat \ {0}    \* 0 stands for a row not made yet
  /\ NoIdentifier \notin Emails \cup Phones

VARIABLES
  rows,        \* accounts: number -> row or NoAccountRow
  accountDesk,
  accountOps

accountVars == <<rows, accountDesk, accountOps>>

(* plain: the phone is stored as it was typed, not normalised.             *)
AccountRow ==
  [email : Emails \cup {NoIdentifier}, phone : Phones, plain : BOOLEAN]
NoAccountRow == [email |-> NoIdentifier, phone |-> NoIdentifier, plain |-> FALSE]
Taken == {r \in AccountRows : rows[r] # NoAccountRow}

(* Two rows a query for either identifier would both find.                 *)
Shares(x, y) ==
  \/ x.email # NoIdentifier /\ x.email = y.email
  \/ x.phone # NoIdentifier /\ x.phone = y.phone

(* The comparison of the unique index: spelling counts.                    *)
SharesSpelling(x, y) ==
  \/ x.email # NoIdentifier /\ x.email = y.email
  \/ x.phone # NoIdentifier /\ x.phone = y.phone /\ x.plain = y.plain

(* The keys of an operation in the order it locks them: sorted, and those  *)
(* of emails sort before those of phones.  Row locks come last.            *)
LockKeys(o) ==
  <<[kind |-> "email", id |-> o.new.email], [kind |-> "phone", id |-> o.new.phone],
    [kind |-> "row", id |-> o.row]>>

Absent(key) == key.id = NoIdentifier \/ (key.kind = "row" /\ key.id = 0)
Holds(w, key) ==
  LET o == accountDesk[w] IN
  /\ o.locks
  /\ \E n \in 1 .. o.held : LockKeys(o)[n] = key
KeyFree(w, key) == Absent(key) \/ \A v \in AccountDesks \ {w} : ~Holds(v, key)

(* row is the row that is updated, 0 for a new one; locks tells whether    *)
(* the operation takes locks, held how many it has.                        *)
FreeAccountDesk ==
  [pc |-> "free", row |-> 0, new |-> NoAccountRow, locks |-> FALSE, held |-> 0]

AccountsInit ==
  /\ \E legacy \in AccountRow :
       /\ legacy.plain
       /\ rows = [r \in AccountRows |-> IF r = 1 THEN legacy ELSE NoAccountRow]
  /\ accountDesk = [w \in AccountDesks |-> FreeAccountDesk]
  /\ accountOps = 0

AccountBegins(w, row, new, locks) ==
  /\ accountDesk[w] = FreeAccountDesk
  /\ accountOps < MaxAccountOps
  /\ accountOps' = accountOps + 1
  /\ accountDesk' = [accountDesk EXCEPT ![w] =
       [pc |-> "lock", row |-> row, new |-> new, locks |-> locks, held |-> 0]]
  /\ UNCHANGED rows

(* register, with an email or without one.                                 *)
Register(w, email, phone) ==
  AccountBegins(w, 0, [email |-> email, phone |-> phone, plain |-> FALSE], TRUE)

(* create on behalf of the owner (createManualEmployee): no locks.         *)
CreateUnlocked(w, email, phone) ==
  AccountBegins(w, 0, [email |-> email, phone |-> phone, plain |-> FALSE], FALSE)

(* update: only the identifiers that change are locked and compared.       *)
UpdateAccount(w, r, email, phone) ==
  /\ r \in Taken
  /\ {email, phone} # {NoIdentifier}
  /\ AccountBegins(w, r, [email |-> email, phone |-> phone, plain |-> FALSE], TRUE)

LockNextKey(w) ==
  LET o == accountDesk[w] IN
  /\ o.pc = "lock"
  /\ o.locks /\ o.held < 3
  /\ KeyFree(w, LockKeys(o)[o.held + 1])
  /\ accountDesk' = [accountDesk EXCEPT ![w].held = @ + 1]
  /\ UNCHANGED <<rows, accountOps>>

(* Old spellings are not recognised.                                       *)
DuplicateSpelling(o) == {r \in Taken \ {o.row} : SharesSpelling(rows[r], o.new)}

(* The query for another account with one of the identifiers.              *)
DuplicateOf(o) == {r \in Taken \ {o.row} : Shares(rows[r], o.new)}

CheckDuplicates(w) ==
  LET o == accountDesk[w] IN
  /\ o.pc = "lock"
  /\ o.locks => o.held = 3
  /\ accountDesk' = [accountDesk EXCEPT ![w] =
       IF DuplicateOf(o) # {} THEN FreeAccountDesk ELSE [o EXCEPT !.pc = "write"]]
  /\ UNCHANGED <<rows, accountOps>>

Written(o) ==
  IF o.row = 0 THEN o.new
  ELSE [email |-> IF o.new.email = NoIdentifier THEN rows[o.row].email
                  ELSE o.new.email,
        phone |-> IF o.new.phone = NoIdentifier THEN rows[o.row].phone
                  ELSE o.new.phone,
        plain |-> rows[o.row].plain /\ o.new.phone = NoIdentifier]

(* The write and the commit, which frees the locks; the unique index       *)
(* refuses the same spelling twice.                                        *)
WriteAccount(w) ==
  LET o == accountDesk[w]
      row == IF o.row # 0 THEN o.row ELSE Cardinality(Taken) + 1
  IN
  /\ o.pc = "write"
  /\ row \in AccountRows
  /\ rows' = IF \E r \in Taken \ {row} : SharesSpelling(rows[r], Written(o))
             THEN rows ELSE [rows EXCEPT ![row] = Written(o)]
  /\ accountDesk' = [accountDesk EXCEPT ![w] = FreeAccountDesk]
  /\ UNCHANGED accountOps

AccountsNext ==
  \E w \in AccountDesks :
    \/ \E email \in Emails \cup {NoIdentifier}, phone \in Phones :
         Register(w, email, phone) \/ CreateUnlocked(w, email, phone)
    \/ \E r \in AccountRows, email \in Emails \cup {NoIdentifier},
          phone \in Phones \cup {NoIdentifier} : UpdateAccount(w, r, email, phone)
    \/ LockNextKey(w)
    \/ CheckDuplicates(w)
    \/ WriteAccount(w)

AccountsSpec == AccountsInit /\ [][AccountsNext]_accountVars

-----------------------------------------------------------------------------
AccountDesk ==
  [pc : {"free", "lock", "write"}, row : AccountRows \cup {0},
   new : [email : Emails \cup {NoIdentifier}, phone : Phones \cup {NoIdentifier},
          plain : {FALSE}],
   locks : BOOLEAN, held : 0 .. 3]
AccountsTypeOK ==
  /\ rows \in [AccountRows -> AccountRow \cup {NoAccountRow}]
  /\ accountDesk \in [AccountDesks -> AccountDesk]

(* What the operations under way know: a free desk holds nothing, a new    *)
(* row has a phone and a changed one exists, and once an operation has     *)
(* looked for duplicates no old spelling of its phone turns up.            *)
DesksInOrder ==
  \A w \in AccountDesks : LET o == accountDesk[w] IN
    /\ o.pc = "free" => o = FreeAccountDesk
    /\ o.pc # "free" => IF o.row = 0 THEN o.new.phone \in Phones ELSE o.row \in Taken
    /\ o.pc = "write" =>
         \A r \in Taken \ {o.row} : rows[r].plain => rows[r].phone # o.new.phone

(* An email and a phone belong to one account, whichever way two           *)
(* registrations, creations and changes of them race, and however old      *)
(* rows spell them.                                                        *)
IdentifiersAreUnique ==
  \A r, q \in Taken : r # q => ~Shares(rows[r], rows[q])

(* Operations that lock several identifiers never wait for each other in a *)
(* circle: as long as one is under way, one of them can take its next step.*)
LocksNeverTangle ==
  LET busy == {w \in AccountDesks : accountDesk[w].pc = "lock"} IN
  busy # {} /\ (\A w \in AccountDesks : accountDesk[w].pc # "write") =>
    \E w \in busy : LET o == accountDesk[w] IN
      ~o.locks \/ o.held = 3 \/ KeyFree(w, LockKeys(o)[o.held + 1])

(* What registering and changing accounts promises: identifiers stay       *)
(* unique, and the locks that keep them so never tangle.                   *)
AccountsPromise ==
  /\ AccountsTypeOK
  /\ DesksInOrder
  /\ IdentifiersAreUnique
  /\ LocksNeverTangle
=============================================================================
