----------------------------- MODULE MemberTable -----------------------------
(***************************************************************************)
(* The User table and the requests that check, insert and change its rows: *)
(* POST /register (routes/register.js), POST /update-user                  *)
(* (routes/memberIndex.js), and what the lookup of POST /login             *)
(* (routes/login.js) makes of it.                                          *)
(*                                                                         *)
(* As in ChurchApp, a slot is a request in flight and its pc names the     *)
(* database operation that it awaits; other requests run meanwhile.  The   *)
(* columns kept are the three that identify a member.  Numbers and         *)
(* addresses are strings: nothing keeps one from being an address in the   *)
(* number's column, or anything in the address's.                          *)
(***************************************************************************)
EXTENDS Naturals

CONSTANTS
  Names,     \* names, each the set of its words
  Contacts,  \* the strings that a number or an address can be
  Numbers,   \* those that Joi accepts as a PHONENUMBER: all but the empty one
  Emails,    \* those that Joi accepts as an EMAIL
  None,      \* null
  Absent,    \* undefined: what a form has in a column it leaves out
  Slots,     \* requests that can be in flight together
  MaxUsers,  \* bounds the rows a run can insert into the User table
  Forms,     \* what the forms of a run are filled in with
  DbFails    \* whether a database operation may be rejected

\* Login looks for one word of a name, register compares whole names.  The name
\* without words is what every schema refuses.
NoName == {}

\* A row: NAME is the column that may not be null.
Member == [NAME : Names, PHONENUMBER : Contacts \cup {None}, EMAIL : Contacts \cup {None}]
Column == {"NAME", "PHONENUMBER", "EMAIL"}
Id == 1..MaxUsers

\* The body of a request, whatever its sender has put into it.
Form == [NAME : Names \cup {None, Absent},
         PHONENUMBER : Contacts \cup {None, Absent},
         EMAIL : Contacts \cup {None, Absent}]

ASSUME MemberAssumption ==
  /\ MaxUsers \in Nat
  /\ Forms \subseteq Form
  /\ DbFails \in BOOLEAN
  /\ Numbers \subseteq Contacts /\ Emails \subseteq Contacts
  /\ {None, Absent} \cap (Names \cup Contacts) = {}
  /\ None \notin Id \cup Member \cup Form

Pc == {"idle", "registerFind", "registerCreate", "updateFind", "updateWrite"}
Slot == [pc : Pc, form : Form \cup {None}, target : Id \cup {None},
         user : Member \cup {None}, refused : BOOLEAN]
Idle == [pc |-> "idle", form |-> None, target |-> None, user |-> None, refused |-> FALSE]

VARIABLES
  User,       \* the table, on disk: the row of each id, None if there is none
  userCount,  \* rows inserted so far
  slots,      \* the requests in flight
  (* history *)
  fresh,      \* registrations since whose check no name or number was written
  unchecked,  \* rows inserted although the table had changed since their check
  edited      \* rows whose name or number was changed by an update

vars == <<User, userCount, slots, fresh, unchecked, edited>>

TypeOK ==
  /\ User \in [Id -> Member \cup {None}]
  /\ userCount \in 0..MaxUsers
  /\ slots \in [Slots -> Slot]
  /\ fresh \subseteq Slots
  /\ unchecked \subseteq Id
  /\ edited \subseteq Id

Init ==
  /\ User = [i \in Id |-> None]
  /\ userCount = 0
  /\ slots = [r \in Slots |-> Idle]
  /\ fresh = {} /\ unchecked = {} /\ edited = {}

Await(r, slot) == slots' = [slots EXCEPT ![r] = slot]
Done(r) == slots' = [slots EXCEPT ![r] = Idle]
Rows == {i \in Id : User[i] # None}

\* Joi has nothing to say about the form; only an update may leave EMAIL out.
valid(form) ==
  /\ form.NAME \in Names \ {NoName}
  /\ form.PHONENUMBER \in Numbers
  /\ form.EMAIL \in Emails \cup {Absent}

-----------------------------------------------------------------------------
(* POST /register.                                                         *)

\* Faulty variant: only the pair of both columns counts as taken.
taken_pair(a, b) == a.NAME = b.NAME /\ a.PHONENUMBER = b.PHONENUMBER

\* The where clause of the check for an existing user.
taken(a, b) == a.NAME = b.NAME \/ a.PHONENUMBER = b.PHONENUMBER

\* Joi and the token accept the form; a refused one changes nothing.
Register(r) ==
  /\ slots[r].pc = "idle"
  /\ \E form \in Forms :
       /\ valid(form)
       /\ form.EMAIL # Absent
       /\ Await(r, [Idle EXCEPT !.pc = "registerFind", !.form = form])
  /\ UNCHANGED <<User, userCount, fresh, unchecked, edited>>

RegisterTaken(r) ==
  /\ slots[r].pc = "registerFind"
  /\ \E i \in Rows : taken(User[i], slots[r].form)
  /\ Done(r)
  /\ UNCHANGED <<User, userCount, fresh, unchecked, edited>>

RegisterFree(r) ==
  /\ slots[r].pc = "registerFind"
  /\ ~ \E i \in Rows : taken(User[i], slots[r].form)
  /\ Await(r, [slots[r] EXCEPT !.pc = "registerCreate"])
  /\ fresh' = fresh \cup {r}
  /\ UNCHANGED <<User, userCount, unchecked, edited>>

RegisterCreate(r) ==
  /\ slots[r].pc = "registerCreate"
  /\ userCount < MaxUsers
  /\ userCount' = userCount + 1
  /\ User' = [User EXCEPT ![userCount + 1] = slots[r].form]
  /\ unchecked' = IF r \in fresh THEN unchecked ELSE unchecked \cup {userCount + 1}
  /\ fresh' = {}
  /\ Done(r)
  /\ UNCHANGED edited

-----------------------------------------------------------------------------
(* POST /update-user/:userId.                                              *)

\* Joi's complaint about the form, or that the session is neither the member's
\* own nor a worker's, is rendered, but no return follows: the handler goes on
\* with any form, and does not look for doubles.
Update(r) ==
  /\ slots[r].pc = "idle"
  /\ \E form \in Forms, target \in Id, editor \in Id, isWorker \in BOOLEAN :
       Await(r, [pc |-> "updateFind", form |-> form, target |-> target, user |-> None,
                 refused |-> ~valid(form) \/ (editor # target /\ ~isWorker)])
  /\ UNCHANGED <<User, userCount, fresh, unchecked, edited>>

\* No such row: update() of null throws and the answer is an error.
UpdateNoUser(r) ==
  /\ slots[r].pc = "updateFind"
  /\ User[slots[r].target] = None
  /\ Done(r)
  /\ UNCHANGED <<User, userCount, fresh, unchecked, edited>>

UpdateFind(r) ==
  /\ slots[r].pc = "updateFind"
  /\ User[slots[r].target] # None
  /\ Await(r, [slots[r] EXCEPT !.pc = "updateWrite", !.user = User[slots[r].target]])
  /\ UNCHANGED <<User, userCount, fresh, unchecked, edited>>

\* Faulty variant: the model has lost the allowNull of NAME.
invalid_never(form) == FALSE

\* What the model of User.js refuses: Sequelize throws before it writes.
invalid(form) == form.NAME = None

UpdateInvalid(r) ==
  /\ slots[r].pc = "updateWrite"
  /\ invalid(slots[r].form)
  /\ Done(r)
  /\ UNCHANGED <<User, userCount, fresh, unchecked, edited>>

\* Sequelize writes the columns in which the form differs from the row as it
\* was read; a column the form leaves out does not differ.
changed(slot) == {c \in Column : slot.form[c] # Absent /\ slot.form[c] # slot.user[c]}

UpdateWrite(r) ==
  LET slot == slots[r] IN
  /\ slot.pc = "updateWrite"
  /\ ~invalid(slot.form)
  /\ User' = [User EXCEPT ![slot.target] =
                [c \in Column |-> IF c \in changed(slot) THEN slot.form[c] ELSE @[c]]]
  /\ IF changed(slot) \subseteq {"EMAIL"}
       THEN UNCHANGED <<edited, fresh>>
       ELSE edited' = edited \cup {slot.target} /\ fresh' = {}
  /\ Done(r)
  /\ UNCHANGED <<userCount, unchecked>>

-----------------------------------------------------------------------------
\* An awaited operation is rejected, an insert also when the table is full:
\* the handler's catch answers.
DbError(r) ==
  /\ slots[r].pc # "idle"
  /\ DbFails \/ (slots[r].pc = "registerCreate" /\ userCount = MaxUsers)
  /\ Done(r)
  /\ UNCHANGED <<User, userCount, fresh, unchecked, edited>>

\* The process ends and is started again.
Restart ==
  /\ slots' = [r \in Slots |-> Idle]
  /\ UNCHANGED <<User, userCount, fresh, unchecked, edited>>

Next ==
  \/ \E r \in Slots :
       \/ Register(r) \/ RegisterTaken(r) \/ RegisterFree(r) \/ RegisterCreate(r)
       \/ Update(r) \/ UpdateNoUser(r) \/ UpdateFind(r) \/ UpdateInvalid(r) \/ UpdateWrite(r)
       \/ DbError(r)
  \/ Restart

Spec == Init /\ [][Next]_vars

-----------------------------------------------------------------------------
(* The lookup of POST /login: the oldest row with the number or the        *)
(* address, if the first name given is a word of its name.                 *)

\* Faulty variant: the clause for the phone number is lost.
matches_email(row, contact) == row.EMAIL = contact

matches(row, contact) == row.PHONENUMBER = contact \/ row.EMAIL = contact

logsInAs(i, contact, firstName) ==
  /\ matches(User[i], contact)
  /\ \A j \in Rows : matches(User[j], contact) => i <= j
  /\ firstName \in User[i].NAME

-----------------------------------------------------------------------------
(* What holds.                                                             *)

Doubles(a, b) == a.NAME = b.NAME \/ a.PHONENUMBER = b.PHONENUMBER

\* Two rows share a name or a number only where the check of register.js:81-86
\* could not see it: the later one was inserted on a check that another write
\* had overtaken, or an update, which checks nothing, wrote one of them.
NoSilentDuplicates ==
  \A i, j \in Rows : i < j /\ Doubles(User[i], User[j]) =>
    j \in unchecked \/ {i, j} \cap edited # {}

\* No race and no update has touched the names and numbers of the row and of
\* those before it.
Untouched(i) == \A j \in Rows : j <= i => j \notin unchecked \cup edited

\* Every untouched member logs in as himself with his number and any word of his
\* name (login.js:50-79), unless the number is what an earlier row has in its
\* address column.  Registrations and updates of addresses, in whatever order
\* they run, take nothing else away from him.
NumberIdentifies ==
  \A i \in Rows :
    /\ Untouched(i)
    /\ \A j \in Rows : j < i => User[j].EMAIL # User[i].PHONENUMBER
    => \A firstName \in User[i].NAME : logsInAs(i, User[i].PHONENUMBER, firstName)

-----------------------------------------------------------------------------
(* The inductive invariant behind the properties above.                    *)

\* What a request carries from one of its steps to the next.
SlotInv(slot) ==
  /\ slot.pc # "idle" => slot.form \in Form
  /\ slot.pc \in {"registerFind", "registerCreate"} => slot.form \in Member
  /\ slot.pc \in {"updateFind", "updateWrite"} => slot.target \in Id
  /\ slot.pc = "updateWrite" => slot.user \in Member /\ User[slot.target] # None

\* What a check has found still holds as long as nobody writes.
FreshInv ==
  \A r \in fresh : slots[r].pc = "registerCreate" =>
    \A i \in Rows : ~Doubles(User[i], slots[r].form)

IInv ==
  /\ TypeOK
  /\ \A r \in Slots : SlotInv(slots[r])
  /\ \A i \in Id : i > userCount => User[i] = None
  /\ FreshInv
  /\ NoSilentDuplicates

-----------------------------------------------------------------------------
(* What the messages say and the code does not do.                         *)

\* memberIndex.js:236, "invalid authentication you are not allowed to access
\* this": an update answered so, with a form that Joi accepts, changes no row.
RefusedUpdateChangesNothing ==
  [][\A r \in Slots :
       slots[r].refused /\ valid(slots[r].form) /\ slots'[r] # slots[r] => User' = User]_vars
=============================================================================
