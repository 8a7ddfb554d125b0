-------------------------- MODULE MemberTableProofs --------------------------
(***************************************************************************)
(* Proofs that the properties of MemberTable hold for any names, numbers,  *)
(* addresses and requests in flight: IInv is inductive and implies them.   *)
(***************************************************************************)
EXTENDS MemberTable, TLAPS

LEMMA IdleSlot == Idle \in Slot /\ Idle.pc = "idle"
BY DEF Idle, Slot, Pc

\* The row that an update leaves is a row, with the form's value in the columns
\* that differ.
LEMMA UpdatedRow ==
  ASSUME NEW old \in Member, NEW form \in Form, NEW cols \in SUBSET Column,
         form.NAME # None, \A c \in cols : form[c] # Absent
  PROVE  LET new == [c \in Column |-> IF c \in cols THEN form[c] ELSE old[c]] IN
         /\ new \in Member
         /\ \A c \in Column : new[c] = IF c \in cols THEN form[c] ELSE old[c]
         /\ "NAME" \notin cols => new.NAME = old.NAME
         /\ "PHONENUMBER" \notin cols => new.PHONENUMBER = old.PHONENUMBER
BY DEF Member, Column, Form

-----------------------------------------------------------------------------
(* The steps that write nothing.                                           *)

\* A step that leaves the table alone keeps the invariant if the slot it leaves
\* behind is in order.
LEMMA QuietStep ==
  ASSUME IInv, NEW r \in Slots, NEW x \in Slot, slots' = [slots EXCEPT ![r] = x],
         UNCHANGED <<User, userCount, unchecked, edited>>,
         SlotInv(x), fresh' \in {fresh, fresh \cup {r}},
         x.pc = "registerCreate" => \A i \in Rows : ~Doubles(User[i], x.form)
  PROVE  IInv'
<1>1. /\ slots' \in [Slots -> Slot] /\ slots'[r] = x
      /\ \A q \in Slots : q # r => slots'[q] = slots[q]
  BY DEF IInv, TypeOK
<1>2. TypeOK'
  BY <1>1 DEF IInv, TypeOK
<1>3. \A q \in Slots : SlotInv(slots[q])'
  BY <1>1 DEF IInv, SlotInv
<1>4. Rows' = Rows
  BY DEF Rows
<1>5. FreshInv'
  BY <1>1, <1>4 DEF IInv, FreshInv, TypeOK
<1>6. NoSilentDuplicates'
  BY <1>4 DEF IInv, NoSilentDuplicates
<1> QED BY <1>2, <1>3, <1>5, <1>6 DEF IInv

LEMMA DoneInv ==
  ASSUME IInv, NEW r \in Slots, Done(r), UNCHANGED <<User, userCount, fresh, unchecked, edited>>
  PROVE  IInv'
<1>1. SlotInv(Idle) /\ Idle.pc # "registerCreate"
  BY DEF SlotInv, Idle
<1> QED BY <1>1, IdleSlot, QuietStep DEF Done

LEMMA RegisterInv ==
  ASSUME IInv, NEW r \in Slots, Register(r)
  PROVE  IInv'
<1>1. PICK form \in Forms : /\ valid(form) /\ form.EMAIL # Absent
                            /\ Await(r, [Idle EXCEPT !.pc = "registerFind", !.form = form])
  BY DEF Register
<1> DEFINE x == [Idle EXCEPT !.pc = "registerFind", !.form = form]
<1>2. form \in Form /\ form \in Member
  BY <1>1, MemberAssumption DEF valid, Form, Member
<1>3. x \in Slot /\ x.pc = "registerFind" /\ x.form = form
  BY <1>2 DEF Idle, Slot, Pc
<1>4. slots' = [slots EXCEPT ![r] = x]
  BY <1>1 DEF Await
<1>5. SlotInv(x)
  BY <1>2, <1>3 DEF SlotInv
<1> HIDE DEF x
<1> QED BY <1>3, <1>4, <1>5, QuietStep DEF Register

LEMMA RegisterFreeInv ==
  ASSUME IInv, NEW r \in Slots, RegisterFree(r)
  PROVE  IInv'
<1> DEFINE x == [slots[r] EXCEPT !.pc = "registerCreate"]
<1>1. slots[r] \in Slot /\ slots[r].form \in Form /\ slots[r].form \in Member
  BY DEF IInv, TypeOK, SlotInv, RegisterFree
<1>2. x \in Slot /\ x.pc = "registerCreate" /\ x.form = slots[r].form
  BY <1>1 DEF Slot, Pc
<1>3. slots' = [slots EXCEPT ![r] = x]
  BY DEF RegisterFree, Await
<1>4. SlotInv(x)
  BY <1>1, <1>2 DEF SlotInv
<1>5. \A i \in Rows : ~Doubles(User[i], x.form)
  BY <1>2 DEF RegisterFree, taken, Doubles
<1> HIDE DEF x
<1> QED BY <1>2, <1>3, <1>4, <1>5, QuietStep DEF RegisterFree

LEMMA UpdateInv ==
  ASSUME IInv, NEW r \in Slots, Update(r)
  PROVE  IInv'
<1>1. PICK form \in Forms, target \in Id, editor \in Id, isWorker \in BOOLEAN :
        Await(r, [pc |-> "updateFind", form |-> form, target |-> target, user |-> None,
                  refused |-> ~valid(form) \/ (editor # target /\ ~isWorker)])
  BY DEF Update
<1> DEFINE refused == ~valid(form) \/ (editor # target /\ ~isWorker)
<1>2. refused \in BOOLEAN
  OBVIOUS
<1> HIDE DEF refused
<1> DEFINE x == [pc |-> "updateFind", form |-> form, target |-> target, user |-> None,
                 refused |-> refused]
<1>3. form \in Form
  BY MemberAssumption
<1>4. x \in Slot /\ x.pc = "updateFind" /\ x.form = form /\ x.target = target
  BY <1>2, <1>3 DEF Slot, Pc
<1>5. slots' = [slots EXCEPT ![r] = x]
  BY <1>1 DEF Await, refused
<1>6. SlotInv(x)
  BY <1>3, <1>4 DEF SlotInv
<1> HIDE DEF x
<1> QED BY <1>4, <1>5, <1>6, QuietStep DEF Update

LEMMA UpdateFindInv ==
  ASSUME IInv, NEW r \in Slots, UpdateFind(r)
  PROVE  IInv'
<1> DEFINE user == User[slots[r].target]
<1> DEFINE x == [slots[r] EXCEPT !.pc = "updateWrite", !.user = user]
<1>1. slots[r] \in Slot /\ slots[r].form \in Form /\ slots[r].target \in Id
  BY DEF IInv, TypeOK, SlotInv, UpdateFind
<1>2. user \in Member
  BY <1>1 DEF UpdateFind, IInv, TypeOK
<1>3. /\ x \in Slot /\ x.pc = "updateWrite" /\ x.form = slots[r].form
      /\ x.target = slots[r].target /\ x.user = user
  BY <1>1, <1>2 DEF Slot, Pc
<1>4. slots' = [slots EXCEPT ![r] = x]
  BY DEF UpdateFind, Await
<1>5. User[x.target] # None
  BY <1>3 DEF UpdateFind
<1> HIDE DEF x
<1>6. SlotInv(x)
  BY <1>1, <1>2, <1>3, <1>5 DEF SlotInv
<1> QED BY <1>3, <1>4, <1>6, QuietStep DEF UpdateFind

-----------------------------------------------------------------------------
(* The two steps that write.                                               *)

\* A registration whose check is still fresh doubles nobody; any other one is
\* counted as unchecked.
LEMMA RegisterCreateInv ==
  ASSUME IInv, NEW r \in Slots, RegisterCreate(r)
  PROVE  IInv'
<1> DEFINE n == userCount + 1
<1> DEFINE form == slots[r].form
<1>1. /\ slots[r].pc = "registerCreate" /\ userCount' = n /\ User' = [User EXCEPT ![n] = form]
      /\ unchecked' = (IF r \in fresh THEN unchecked ELSE unchecked \cup {n})
      /\ fresh' = {} /\ slots' = [slots EXCEPT ![r] = Idle] /\ edited' = edited
  BY DEF RegisterCreate, Done
<1>2. userCount \in Nat /\ n \in Id /\ n \in 0..MaxUsers
  BY MemberAssumption DEF RegisterCreate, IInv, TypeOK, Id
<1>3. form \in Member /\ form # None
  BY <1>1, MemberAssumption DEF IInv, SlotInv
<1>4. /\ User' \in [Id -> Member \cup {None}] /\ User'[n] = form
      /\ \A i \in Id : i # n => User'[i] = User[i]
  BY <1>1, <1>2, <1>3 DEF IInv, TypeOK
<1>5. /\ slots' \in [Slots -> Slot] /\ slots'[r] = Idle
      /\ \A q \in Slots : q # r => slots'[q] = slots[q]
  BY <1>1, IdleSlot DEF IInv, TypeOK
<1>6. TypeOK'
  BY <1>1, <1>2, <1>4, <1>5 DEF IInv, TypeOK
<1>7. \A i \in Rows : i \in Id /\ i < n
  BY <1>2 DEF IInv, Rows, Id
<1>8. Rows' = Rows \cup {n}
  BY <1>2, <1>3, <1>4 DEF Rows
<1>9. ASSUME NEW q \in Slots PROVE SlotInv(slots[q])'
  <2>1. CASE q = r
    BY <1>5, <2>1 DEF SlotInv, Idle
  <2>2. CASE q # r
    <3>1. slots'[q] = slots[q] /\ SlotInv(slots[q])
      BY <1>5, <2>2 DEF IInv
    <3>2. slots[q].pc = "updateWrite" => User'[slots[q].target] # None
      BY <1>3, <1>4, <3>1 DEF SlotInv
    <3> QED BY <3>1, <3>2 DEF SlotInv
  <2> QED BY <2>1, <2>2
<1>10. \A i \in Id : i > userCount' => User'[i] = None
  BY <1>1, <1>2, <1>4 DEF IInv, Id
<1>11. FreshInv'
  BY <1>1 DEF FreshInv
<1>12. ASSUME NEW i \in Rows', NEW j \in Rows', i < j, Doubles(User'[i], User'[j])
       PROVE  j \in unchecked' \/ {i, j} \cap edited' # {}
  <2>1. i \in Rows /\ i # n
    BY <1>2, <1>7, <1>8, <1>12 DEF Id
  <2>2. CASE j = n
    <3>1. Doubles(User[i], form)
      BY <1>4, <1>7, <1>12, <2>1, <2>2
    <3>2. r \notin fresh
      BY <1>1, <2>1, <3>1 DEF IInv, FreshInv
    <3> QED BY <1>1, <2>2, <3>2
  <2>3. CASE j # n
    <3>1. j \in Rows /\ Doubles(User[i], User[j])
      BY <1>4, <1>7, <1>8, <1>12, <2>1, <2>3
    <3>2. j \in unchecked \/ {i, j} \cap edited # {}
      BY <1>12, <2>1, <3>1 DEF IInv, NoSilentDuplicates
    <3> QED BY <1>1, <3>2
  <2> QED BY <2>2, <2>3
<1>13. NoSilentDuplicates'
  BY <1>12 DEF NoSilentDuplicates
<1> QED BY <1>6, <1>9, <1>10, <1>11, <1>13 DEF IInv

\* What UpdateWrite does to the table.
LEMMA Written ==
  ASSUME IInv, NEW r \in Slots, UpdateWrite(r)
  PROVE  LET t == slots[r].target
             cols == changed(slots[r]) IN
         /\ t \in Id /\ User[t] \in Member
         /\ User' \in [Id -> Member \cup {None}] /\ User'[t] \in Member
         /\ cols \subseteq {"EMAIL"} =>
              User'[t].NAME = User[t].NAME /\ User'[t].PHONENUMBER = User[t].PHONENUMBER
         /\ \A i \in Id : i # t => User'[i] = User[i]
<1> DEFINE t == slots[r].target
<1> DEFINE form == slots[r].form
<1> DEFINE cols == changed(slots[r])
<1>1. slots[r].pc = "updateWrite" /\ SlotInv(slots[r])
  BY DEF UpdateWrite, IInv
<1>2. form \in Form /\ form.NAME # None /\ t \in Id /\ User[t] # None
  BY <1>1 DEF SlotInv, UpdateWrite, invalid
<1>3. User[t] \in Member
  BY <1>2 DEF IInv, TypeOK
<1>4. cols \in SUBSET Column /\ \A c \in cols : form[c] # Absent
  BY DEF changed
<1> HIDE DEF cols
<1> DEFINE old == User[t]
<1> DEFINE new == [c \in Column |-> IF c \in cols THEN form[c] ELSE old[c]]
<1>6. User' = [User EXCEPT ![t] = new]
  BY DEF UpdateWrite, cols
<1>7. /\ new \in Member
      /\ \A c \in Column : new[c] = IF c \in cols THEN form[c] ELSE old[c]
      /\ "NAME" \notin cols => new.NAME = old.NAME
      /\ "PHONENUMBER" \notin cols => new.PHONENUMBER = old.PHONENUMBER
  BY <1>2, <1>3, <1>4, UpdatedRow
<1> HIDE DEF new
<1>8. /\ User' \in [Id -> Member \cup {None}] /\ User'[t] = new
      /\ \A i \in Id : i # t => User'[i] = User[i]
  BY <1>2, <1>6, <1>7 DEF IInv, TypeOK
<1> QED BY <1>2, <1>3, <1>7, <1>8 DEF cols

LEMMA UpdateWriteInv ==
  ASSUME IInv, NEW r \in Slots, UpdateWrite(r)
  PROVE  IInv'
<1> DEFINE t == slots[r].target
<1> DEFINE quiet == changed(slots[r]) \subseteq {"EMAIL"}
<1>1. /\ slots' = [slots EXCEPT ![r] = Idle] /\ userCount' = userCount /\ unchecked' = unchecked
      /\ quiet => edited' = edited /\ fresh' = fresh
      /\ ~quiet => edited' = edited \cup {t} /\ fresh' = {}
  BY DEF UpdateWrite, Done
<1>2. /\ t \in Id /\ User[t] \in Member
      /\ User' \in [Id -> Member \cup {None}] /\ User'[t] \in Member
      /\ quiet => User'[t].NAME = User[t].NAME /\ User'[t].PHONENUMBER = User[t].PHONENUMBER
      /\ \A i \in Id : i # t => User'[i] = User[i]
  BY Written
<1> HIDE DEF quiet
<1>3. User[t] # None /\ User'[t] # None
  BY <1>2, MemberAssumption
<1>4. /\ slots' \in [Slots -> Slot] /\ slots'[r] = Idle
      /\ \A q \in Slots : q # r => slots'[q] = slots[q]
  BY <1>1, IdleSlot DEF IInv, TypeOK
<1>5. TypeOK'
  BY <1>1, <1>2, <1>4 DEF IInv, TypeOK
<1>6. Rows' = Rows
  BY <1>2, <1>3 DEF Rows
<1>7. ASSUME NEW q \in Slots PROVE SlotInv(slots[q])'
  <2>1. CASE q = r
    BY <1>4, <2>1 DEF SlotInv, Idle
  <2>2. CASE q # r
    <3>1. slots'[q] = slots[q] /\ SlotInv(slots[q])
      BY <1>4, <2>2 DEF IInv
    <3>2. slots[q].pc = "updateWrite" => User'[slots[q].target] # None
      BY <1>2, <1>3, <3>1 DEF SlotInv
    <3> QED BY <3>1, <3>2 DEF SlotInv
  <2> QED BY <2>1, <2>2
<1>8. \A i \in Id : i > userCount' => User'[i] = None
  BY <1>1, <1>2, <1>3 DEF IInv
<1>9. quiet => \A i \in Rows : User'[i].NAME = User[i].NAME
                                /\ User'[i].PHONENUMBER = User[i].PHONENUMBER
  BY <1>2 DEF Rows
<1>10. FreshInv'
  <2>1. CASE quiet
    BY <1>1, <1>4, <1>6, <1>9, <2>1 DEF IInv, FreshInv, TypeOK, Doubles, Idle
  <2>2. CASE ~quiet
    BY <1>1, <2>2 DEF FreshInv
  <2> QED BY <2>1, <2>2
<1>11. NoSilentDuplicates'
  <2>1. CASE quiet
    BY <1>1, <1>6, <1>9, <2>1 DEF IInv, NoSilentDuplicates, Doubles
  <2>2. CASE ~quiet
    <3> SUFFICES ASSUME NEW i \in Rows, NEW j \in Rows, i < j, Doubles(User'[i], User'[j])
                 PROVE  j \in unchecked' \/ {i, j} \cap edited' # {}
      BY <1>6 DEF NoSilentDuplicates
    <3>1. CASE t \in {i, j}
      BY <1>1, <2>2, <3>1
    <3>2. CASE t \notin {i, j}
      BY <1>1, <1>2, <2>2, <3>2 DEF IInv, NoSilentDuplicates, Rows
    <3> QED BY <3>1, <3>2
  <2> QED BY <2>1, <2>2
<1> QED BY <1>5, <1>7, <1>8, <1>10, <1>11 DEF IInv

-----------------------------------------------------------------------------
(* The theorems.                                                           *)

LEMMA InitInv == Init => IInv
<1> SUFFICES ASSUME Init PROVE IInv
  OBVIOUS
<1>1. TypeOK
  BY IdleSlot, MemberAssumption DEF Init, TypeOK
<1>2. Rows = {}
  BY DEF Init, Rows
<1>3. \A r \in Slots : SlotInv(slots[r])
  BY DEF Init, SlotInv, Idle
<1> QED BY <1>1, <1>2, <1>3 DEF Init, IInv, FreshInv, NoSilentDuplicates

LEMMA RestartInv ==
  ASSUME IInv, Restart
  PROVE  IInv'
<1>1. \A r \in Slots : slots'[r] = Idle
  BY DEF Restart
<1>2. TypeOK'
  BY IdleSlot DEF Restart, IInv, TypeOK
<1>3. \A r \in Slots : SlotInv(slots[r])'
  BY <1>1 DEF SlotInv, Idle
<1>4. FreshInv'
  BY <1>1, <1>2, IdleSlot DEF FreshInv, TypeOK
<1>5. NoSilentDuplicates' /\ (\A i \in Id : i > userCount => User[i] = None)'
  BY DEF IInv, Restart, NoSilentDuplicates, Rows
<1> QED BY <1>2, <1>3, <1>4, <1>5 DEF IInv

LEMMA NextInv == IInv /\ [Next]_vars => IInv'
<1> SUFFICES ASSUME IInv, [Next]_vars PROVE IInv'
  OBVIOUS
<1>1. ASSUME NEW r \in Slots, Register(r) PROVE IInv'
  BY <1>1, RegisterInv
<1>2. ASSUME NEW r \in Slots, RegisterTaken(r) \/ UpdateNoUser(r) \/ UpdateInvalid(r) \/ DbError(r)
      PROVE  IInv'
  BY <1>2, DoneInv DEF RegisterTaken, UpdateNoUser, UpdateInvalid, DbError
<1>3. ASSUME NEW r \in Slots, RegisterFree(r) PROVE IInv'
  BY <1>3, RegisterFreeInv
<1>4. ASSUME NEW r \in Slots, RegisterCreate(r) PROVE IInv'
  BY <1>4, RegisterCreateInv
<1>5. ASSUME NEW r \in Slots, Update(r) PROVE IInv'
  BY <1>5, UpdateInv
<1>6. ASSUME NEW r \in Slots, UpdateFind(r) PROVE IInv'
  BY <1>6, UpdateFindInv
<1>7. ASSUME NEW r \in Slots, UpdateWrite(r) PROVE IInv'
  BY <1>7, UpdateWriteInv
<1>8. CASE Restart
  BY <1>8, RestartInv
<1>9. CASE UNCHANGED vars
  BY <1>9 DEF vars, IInv, TypeOK, SlotInv, FreshInv, NoSilentDuplicates, Rows
<1> QED BY <1>1, <1>2, <1>3, <1>4, <1>5, <1>6, <1>7, <1>8, <1>9 DEF Next

\* The inductive invariant holds in every state, whatever the forms, however
\* many requests and rows there are.
THEOREM Invariance == Spec => []IInv
BY InitInv, NextInv, PTL DEF Spec

\* Every variable keeps its type: registrations and updates, however they
\* overlap, leave rows that have all their columns.
THEOREM TypeCorrect == Spec => []TypeOK
<1>1. IInv => TypeOK
  BY DEF IInv
<1> QED BY <1>1, Invariance, PTL

\* The check of register.js:81-86 misses a double only when another write fell
\* between it and the insert, or an update made the double.
THEOREM DuplicatesExplained == Spec => []NoSilentDuplicates
<1>1. IInv => NoSilentDuplicates
  BY DEF IInv
<1> QED BY <1>1, Invariance, PTL

\* A member whom no race and no update has touched, nor any before him, logs in
\* as himself with his number and any word of his name (login.js:50-79), unless
\* the number is what an earlier row has in its address column.
THEOREM NumbersIdentify == Spec => []NumberIdentifies
<1>1. IInv => NumberIdentifies
  <2> SUFFICES ASSUME IInv, NEW i \in Rows,
                      \A j \in Rows : j <= i => j \notin unchecked \cup edited,
                      \A j \in Rows : j < i => User[j].EMAIL # User[i].PHONENUMBER,
                      NEW firstName \in User[i].NAME
               PROVE  logsInAs(i, User[i].PHONENUMBER, firstName)
    BY DEF NumberIdentifies, Untouched
  <2>1. matches(User[i], User[i].PHONENUMBER)
    BY DEF matches
  <2>2. ASSUME NEW j \in Rows, matches(User[j], User[i].PHONENUMBER), ~(i <= j) PROVE FALSE
    <3>1. i \in Nat /\ j \in Nat /\ j < i
      BY <2>2 DEF Rows, Id
    <3>2. Doubles(User[j], User[i])
      BY <2>2, <3>1 DEF matches, Doubles
    <3>3. i \in unchecked \/ {j, i} \cap edited # {}
      BY <3>1, <3>2 DEF IInv, NoSilentDuplicates
    <3> QED BY <3>1, <3>3
  <2> QED BY <2>1, <2>2 DEF logsInAs
<1> QED BY <1>1, Invariance, PTL
=============================================================================
