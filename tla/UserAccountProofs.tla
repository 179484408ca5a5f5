-------------------------- MODULE UserAccountProofs --------------------------
(***************************************************************************)
(* Types of UserAccount; no profile without a photo; no password that was  *)
(* not submitted for its account; and a profile with the email and the     *)
(* photo of the last attempt, if nothing interfered with it: for any       *)
(* number of accounts, emails, passwords and photos.                       *)
(***************************************************************************)
EXTENDS UserAccount, FiniteSetTheorems, WellFoundedInduction, TLAPS

-----------------------------------------------------------------------------
(***************************************************************************)
(* The invariant. What is under way refers to views there are, to accounts *)
(* there are and to photos that are stored: each of these sets says what a *)
(* thing under way may be in the present state.                            *)
(***************************************************************************)
Has(u) == accounts[u] # NoAccount

ViewIndex == 1 .. Len(views)

\* The views opened by members that exist.
Views == {f \in View : f.user # None => Has(f.user)}

IsMembers(v) == v \in ViewIndex /\ views[v].user # None

CallType == [view : Nat, tap : Nat, email : Emails, password : Passwords]

Calls == {c \in CallType : c.view \in ViewIndex}

ChangeType == [op : {"email"}, value : Emails, view : Nat]
              \cup [op : {"password"}, value : Passwords, view : Nat]

ChangesOf(u) ==
    {c \in ChangeType : /\ c.view \in ViewIndex /\ Has(u)
                        /\ c.op = "email" => views[c.view].user = u}

TaskType == [kind : {"loaded"}, view : Nat, email : Emails \cup {Empty, None}]
            \cup [kind : {"created"}, view : Nat, email : Emails]
            \cup [kind : {"saved"}, view : Nat]

\* A profile that was found has a photo to fetch.
Tasks ==
    {t \in TaskType :
        /\ t.view \in ViewIndex
        /\ t.kind # "created" => views[t.view].user # None
        /\ t.kind = "loaded" /\ t.email # None => blobs[views[t.view].user] # None}

UploadType == [view : Nat, uid : Uids, email : Emails \cup {Empty},
               photo : Photos \cup {Placeholder}, stored : BOOLEAN]

Uploads == {x \in UploadType : Has(x.uid) /\ (x.stored => blobs[x.uid] # None)}

WriteType == [uid : Uids, email : Emails \cup {Empty}]

Writes == {w \in WriteType : Has(w.uid) /\ blobs[w.uid] # None}

Typed ==
    /\ accounts \in [Uids -> Account] /\ current \in Uids \cup {None}
    /\ views \in Seq(Views) /\ open \in BOOLEAN /\ (open => views # <<>>)
    /\ creating \in SUBSET Calls /\ \A v \in loads : IsMembers(v)
    /\ changes \in [Uids -> Seq(ChangeType)]
    /\ \A u \in Uids : changes[u] \in Seq(ChangesOf(u))
    /\ main \in Seq(Tasks) /\ uploads \in SUBSET Uploads
    /\ blobs \in [Uids -> Photos \cup {Placeholder, None}]
    /\ docs \in [Uids -> Emails \cup {Empty, None}]
    /\ queue \in [Uids \cup {None} -> Seq(Writes)]
    /\ acts \in Nat /\ confirmed \in [Uids -> SUBSET Passwords]
    /\ attempt \in Attempt /\ late \in BOOLEAN

\* Accounts are numbered one after the other.
InOrder == \A u, v \in Uids : u < v /\ Has(v) => Has(u)

Known ==
    /\ current # None => Has(current)
    /\ \A u \in Uids : docs[u] # None => blobs[u] # None /\ Has(u)
    /\ \A u \in Uids : ~Has(u) => confirmed[u] = {}

\* The password in the field of v will do for the account of v, if it comes to
\* setting it: the handler sets that of the user signed in.
Fits(v) ==
    /\ views[v].password \in confirmed[views[v].user] \cup {Empty}
    /\ current \in {None, views[v].user}

FittingChanges(u) ==
    {c \in ChangesOf(u) : IF c.op = "email" THEN Fits(c.view)
                          ELSE c.value \in confirmed[u]}

FittingTasks == {t \in Tasks : t.kind = "saved" => Fits(t.view)}

\* A member's screen is that of the user signed in.
ScreenOfUser == open /\ views[Top].user # None => current = views[Top].user

Submitted ==
    /\ \A u \in Uids : Has(u) => accounts[u].password \in confirmed[u]
    /\ \A u \in Uids : changes[u] \in Seq(FittingChanges(u))
    /\ main \in Seq(FittingTasks)
    /\ ScreenOfUser

IInv == Typed /\ InOrder /\ Known /\ (~late => Submitted)

-----------------------------------------------------------------------------
(* Sets and sequences                                                       *)

LEMMA LargerSeq ==
    ASSUME NEW S, NEW T, S \subseteq T, NEW q \in Seq(S)
    PROVE  q \in Seq(T)
  OBVIOUS

LEMMA ElementsSeq ==
    ASSUME NEW S, NEW T, NEW q \in Seq(S), \A i \in 1 .. Len(q) : q[i] \in T
    PROVE  q \in Seq(T)
  OBVIOUS

\* A set of indices has a last one: the one with the fewest behind it.
LEMMA MaxIsIn ==
    ASSUME NEW n \in Nat, NEW S \in SUBSET (1 .. n), S # {}
    PROVE  Max(S) \in S
  <1> DEFINE Behind(i) == {j \in S : i < j}
             T == {Behind(i) : i \in S}
  <1>1. IsFiniteSet(S)
    <2>1. IsFiniteSet(1 .. n)
      BY FS_Interval
    <2> QED BY <2>1, FS_Subset
  <1>2. IsWellFoundedOn(StrictSubsetOrdering(S), SUBSET S)
    <2>1. FiniteSubsetsOf(S) = SUBSET S
      BY <1>1, FS_FiniteSubsetsOfFinite
    <2> QED BY <2>1, FS_StrictSubsetOrderingWellFounded
  <1>3. T \subseteq SUBSET S /\ T # {}
    OBVIOUS
  <1>4. PICK x \in T : \A y \in T : ~(<<y, x>> \in StrictSubsetOrdering(S))
    BY <1>2, <1>3, WFMin
  <1>5. PICK m \in S : x = Behind(m)
    BY <1>4
  <1>6. \A y \in S : m >= y
    <2> SUFFICES ASSUME NEW y \in S, ~(m >= y) PROVE FALSE
      OBVIOUS
    <2>1. S \subseteq Int /\ m < y
      OBVIOUS
    <2>2. y \in Behind(m) /\ y \notin Behind(y) /\ Behind(y) \subseteq Behind(m)
      <3>1. \A j \in S : y < j => m < j
        BY <2>1
      <3>2. ~(y < y)
        BY <2>1
      <3> QED BY <2>1, <3>1, <3>2
    <2>3. <<Behind(y), Behind(m)>> \in StrictSubsetOrdering(S)
      BY <2>2 DEF StrictSubsetOrdering
    <2> QED BY <1>4, <1>5, <2>3
  <1> QED BY <1>6 DEF Max

-----------------------------------------------------------------------------
(***************************************************************************)
(* The next account is a new one, and the accounts stay in order           *)
(***************************************************************************)
LEMMA NextIsNew ==
    ASSUME accounts \in [Uids -> Account], InOrder
    PROVE  /\ NextUid \in Nat \ {0}
           /\ NextUid \in Uids => ~Has(NextUid)
           /\ \A u \in Uids : u < NextUid => Has(u)
  <1> DEFINE S == {u \in Uids : accounts[u] # NoAccount}
             n == Cardinality(S)
  <1>1. \A i \in Nat : /\ IsFiniteSet(1 .. i)
                       /\ Cardinality(1 .. i) = IF 1 > i THEN 0 ELSE i - 1 + 1
    BY FS_Interval
  <1>2. \A i \in Nat : Cardinality(1 .. i) = i
    BY <1>1
  <1>3. IsFiniteSet(S) /\ n \in Nat
    <2>1. S \subseteq 1 .. MaxAccounts /\ MaxAccounts \in Nat
      BY AccountAssumption DEF Uids
    <2> QED BY <1>1, <2>1, FS_Subset, FS_CardinalityType
  <1>4. NextUid = n + 1
    BY DEF NextUid
  <1>5. ASSUME n + 1 \in Uids, Has(n + 1) PROVE FALSE
    <2> HIDE DEF n
    <2>1. \A i \in 1 .. n + 1 : i \in Uids /\ accounts[i] # NoAccount
      <3> TAKE i \in 1 .. n + 1
      <3>1. i \in Uids /\ (i < n + 1 \/ i = n + 1)
        BY <1>3, <1>5, AccountAssumption DEF Uids
      <3> QED BY <1>5, <3>1 DEF InOrder, Has
    <2>2. 1 .. n + 1 \subseteq S
      BY <2>1
    <2>3. Cardinality(1 .. n + 1) <= n
      BY <1>3, <2>2, FS_Subset DEF n
    <2>4. Cardinality(1 .. n + 1) = n + 1
      BY <1>2, <1>3
    <2> QED BY <1>3, <2>3, <2>4
  <1>6. ASSUME NEW u \in Uids, u < n + 1, ~Has(u) PROVE FALSE
    <2>1. S \subseteq 1 .. u - 1 /\ u - 1 \in Nat
      BY <1>6, AccountAssumption DEF InOrder, Has, Uids
    <2>2. n <= Cardinality(1 .. u - 1)
      BY <1>1, <2>1, FS_Subset
    <2> HIDE DEF n
    <2>3. u \in Int /\ n <= u - 1
      BY <1>2, <2>1, <2>2 DEF Uids
    <2> QED BY <1>3, <1>6, <2>3
  <1> HIDE DEF n
  <1> QED BY <1>3, <1>4, <1>5, <1>6

-----------------------------------------------------------------------------
(***************************************************************************)
(* What grows: views, accounts and photos are not taken back. What is      *)
(* under way then refers to the next state as well as it did to this one.  *)
(***************************************************************************)
Grown ==
    /\ \A v \in ViewIndex : v \in ViewIndex' /\ views'[v].user = views[v].user
    /\ \A u \in Uids : Has(u) => Has(u)'
    /\ \A u \in Uids : blobs[u] # None => blobs'[u] # None

LEMMA Constants ==
    /\ None \notin Uids /\ None \notin Emails /\ Empty \notin Emails
    /\ Empty \notin Passwords /\ None \notin Photos /\ None # Placeholder
    /\ NoAccount.email = None /\ MaxAccounts \in Nat
    /\ \A e \in Emails, p \in Passwords : [email |-> e, password |-> p] \in Account
                                          /\ [email |-> e, password |-> p] # NoAccount
  BY AccountAssumption DEF Uids, NoAccount, Account

LEMMA ViewFields ==
    ASSUME Typed, NEW v \in ViewIndex
    PROVE  /\ views[v] \in Views /\ views[v].user \in Uids \cup {None}
           /\ views[v].email \in Emails \cup {Empty}
           /\ views[v].password \in Passwords \cup {Empty}
           /\ views[v].photo \in Photos \cup {Placeholder}
           /\ views[v].user # None => views[v].user \in Uids /\ Has(views[v].user)
  BY DEF Typed, ViewIndex, Views, View

LEMMA Frame ==
    ASSUME Typed, Grown
    PROVE  /\ Views \subseteq Views' /\ views \in Seq(Views')
           /\ creating \in SUBSET Calls' /\ \A v \in loads : IsMembers(v)'
           /\ \A u \in Uids : changes[u] \in Seq(ChangesOf(u)')
           /\ main \in Seq(Tasks') /\ uploads \in SUBSET Uploads'
           /\ queue \in [Uids \cup {None} -> Seq(Writes')]
  <1>1. Views \subseteq Views'
    BY DEF Grown, Views, View
  <1>2. views \in Seq(Views')
    BY <1>1, LargerSeq DEF Typed
  <1>3. creating \in SUBSET Calls' /\ \A v \in loads : IsMembers(v)'
    BY DEF Typed, Grown, Calls, IsMembers
  <1>4. ASSUME NEW u \in Uids PROVE changes[u] \in Seq(ChangesOf(u)')
    <2>1. ChangesOf(u) \subseteq ChangesOf(u)'
      BY DEF Grown, ChangesOf
    <2> QED BY <2>1, LargerSeq DEF Typed
  <1>5. main \in Seq(Tasks')
    <2>1. ASSUME NEW t \in Tasks PROVE t \in Tasks'
      <3>1. t.view \in ViewIndex /\ views'[t.view].user = views[t.view].user
            /\ t.view \in ViewIndex'
        BY DEF Tasks, Grown
      <3>2. views[t.view].user \in Uids \cup {None}
        BY <3>1, ViewFields
      <3>3. CASE t.kind = "created"
        BY <3>1, <3>3 DEF Tasks
      <3>4. CASE t.kind # "created"
        <4>1. views[t.view].user \in Uids
          BY <3>2, <3>4 DEF Tasks
        <4> QED BY <3>1, <3>4, <4>1 DEF Tasks, Grown
      <3> QED BY <3>3, <3>4
    <2>2. Tasks \subseteq Tasks'
      BY <2>1
    <2> QED BY <2>2, LargerSeq DEF Typed
  <1>6. uploads \in SUBSET Uploads'
    BY DEF Typed, Grown, Uploads, UploadType
  <1>7. queue \in [Uids \cup {None} -> Seq(Writes')]
    <2>1. Writes \subseteq Writes'
      BY DEF Grown, Writes, WriteType
    <2>2. \A w \in Uids \cup {None} : queue[w] \in Seq(Writes')
      BY <2>1, LargerSeq DEF Typed
    <2> QED BY <2>2 DEF Typed
  <1> QED BY <1>1, <1>2, <1>3, <1>4, <1>5, <1>6, <1>7

LEMMA SameAccounts ==
    ASSUME InOrder, Known, UNCHANGED <<accounts, current, confirmed, docs, blobs>>
    PROVE  InOrder' /\ Known'
  BY DEF InOrder, Known, Has

\* Without a save under way no password in a field matters.
LEMMA FittingFrame ==
    ASSUME Typed, Submitted, Grown,
           \A u \in Uids : confirmed[u] \subseteq confirmed'[u],
           SaveUnderWay => /\ \A v \in ViewIndex :
                                views'[v].password = views[v].password
                           /\ current' \in {None, current}
    PROVE  /\ \A u \in Uids : changes[u] \in Seq(FittingChanges(u)')
           /\ main \in Seq(FittingTasks')
  <1>1. ASSUME SaveUnderWay, NEW v \in ViewIndex, views[v].user # None, Fits(v)
        PROVE  Fits(v)'
    <2>1. /\ views'[v].password = views[v].password /\ current' \in {None, current}
          /\ views'[v].user = views[v].user /\ views[v].user \in Uids
      BY <1>1, ViewFields DEF Grown
    <2> QED BY <1>1, <2>1 DEF Fits
  <1>2. ASSUME NEW u \in Uids, NEW c \in FittingChanges(u), c \in ChangesOf(u)',
               c.op = "email" => SaveUnderWay
        PROVE  c \in FittingChanges(u)'
    <2>1. CASE c.op = "email"
      <3>1. c.view \in ViewIndex /\ views[c.view].user # None /\ Fits(c.view)
        BY <2>1, Constants DEF ChangesOf, FittingChanges
      <3>2. Fits(c.view)'
        BY <1>1, <1>2, <2>1, <3>1
      <3> QED BY <1>2, <2>1, <3>2 DEF FittingChanges
    <2>2. CASE c.op # "email"
      BY <1>2, <2>2 DEF FittingChanges
    <2> QED BY <2>1, <2>2
  <1>3. ASSUME NEW t \in FittingTasks, t \in Tasks', t.kind = "saved" => SaveUnderWay
        PROVE  t \in FittingTasks'
    <2>1. CASE t.kind = "saved"
      <3>1. t.view \in ViewIndex /\ views[t.view].user # None /\ Fits(t.view)
        BY <2>1 DEF Tasks, FittingTasks
      <3>2. Fits(t.view)'
        BY <1>1, <1>3, <2>1, <3>1
      <3> QED BY <1>3, <2>1, <3>2 DEF FittingTasks
    <2>2. CASE t.kind # "saved"
      BY <1>3, <2>2 DEF FittingTasks
    <2> QED BY <2>1, <2>2
  <1>4. ASSUME NEW u \in Uids PROVE changes[u] \in Seq(FittingChanges(u)')
    <2>1. changes[u] \in Seq(ChangesOf(u)') /\ changes[u] \in Seq(FittingChanges(u))
      BY Frame DEF Submitted
    <2>2. ASSUME NEW i \in 1 .. Len(changes[u])
          PROVE  changes[u][i] \in FittingChanges(u)'
      <3>1. changes[u][i] \in Range(changes[u])
        BY <2>1 DEF Range
      <3>2. changes[u][i].op = "email" => SaveUnderWay
        BY <3>1 DEF SaveUnderWay
      <3>3. changes[u][i] \in FittingChanges(u) /\ changes[u][i] \in ChangesOf(u)'
        BY <2>1
      <3> QED BY <1>2, <3>2, <3>3
    <2> QED BY <2>1, <2>2, ElementsSeq
  <1>5. main \in Seq(FittingTasks')
    <2>1. main \in Seq(Tasks') /\ main \in Seq(FittingTasks)
      BY Frame DEF Submitted
    <2>2. ASSUME NEW i \in 1 .. Len(main) PROVE main[i] \in FittingTasks'
      <3>1. main[i] \in Range(main)
        BY <2>1 DEF Range
      <3>2. main[i].kind = "saved" => SaveUnderWay
        BY <3>1 DEF SaveUnderWay
      <3>3. main[i] \in FittingTasks /\ main[i] \in Tasks'
        BY <2>1
      <3> QED BY <1>3, <3>2, <3>3
    <2> QED BY <2>1, <2>2, ElementsSeq
  <1> QED BY <1>4, <1>5

-----------------------------------------------------------------------------
(***************************************************************************)
(* Every step keeps the invariant: the screen                              *)
(***************************************************************************)
LEMMA PopSeq ==
    ASSUME NEW S, NEW q \in Seq(S), q # <<>>
    PROVE  Head(q) \in S /\ Tail(q) \in Seq(S)
  OBVIOUS

LEMMA PushSeq ==
    ASSUME NEW S, NEW q \in Seq(S), NEW x \in S
    PROVE  Append(q, x) \in Seq(S)
  OBVIOUS

LEMMA TopIsView ==
    ASSUME Typed
    PROVE  Len(views) \in Nat /\ ViewIndex = 1 .. Len(views)
           /\ (open => Top \in ViewIndex)
  BY DEF Typed, ViewIndex, Top

\* The submitted passwords, with no view, no account and no user changed.
LEMMA SubmittedFrame ==
    ASSUME Typed, Submitted,
           UNCHANGED <<accounts, current, views, changes, main, confirmed, blobs>>,
           open' => open
    PROVE  Submitted'
  <1>1. Grown
    BY DEF Grown, Has, ViewIndex
  <1>2. /\ \A u \in Uids : changes[u] \in Seq(FittingChanges(u)')
        /\ main \in Seq(FittingTasks')
    BY <1>1, FittingFrame
  <1>3. \A u \in Uids : Has(u)' => accounts'[u].password \in confirmed'[u]
    BY DEF Submitted, Has
  <1>4. ScreenOfUser'
    BY DEF Submitted, ScreenOfUser, Top
  <1> QED BY <1>2, <1>3, <1>4 DEF Submitted

LEMMA OpenAccountKeeps == IInv /\ OpenAccount => IInv'
  <1> SUFFICES ASSUME IInv, OpenAccount PROVE IInv'
    OBVIOUS
  <1> DEFINE f == [user |-> current, email |-> Empty, password |-> Empty,
                   photo |-> Placeholder]
  <1>1. /\ ~open /\ open' = TRUE /\ views' = Append(views, f) /\ acts' = acts + 1
        /\ loads' = IF current = None THEN loads ELSE loads \cup {Len(views')}
        /\ UNCHANGED <<accounts, current, creating, changes, confirmed, main, uploads,
                       blobs, docs, queue, attempt, late>>
    BY DEF OpenAccount, Act, auth, profile
  <1>2. Typed /\ InOrder /\ Known /\ views \in Seq(Views)
    BY DEF IInv, Typed
  <1>3. f \in Views
    BY <1>2 DEF Typed, Known, Views, View
  <1>4. f.user = current
    OBVIOUS
  <1> HIDE DEF f
  <1>5. /\ views' \in Seq(Views) /\ Len(views') = Len(views) + 1 /\ Len(views) \in Nat
        /\ \A v \in ViewIndex : views'[v] = views[v]
        /\ views'[Len(views')] = f /\ views' # <<>>
    BY <1>1, <1>2, <1>3 DEF ViewIndex
  <1>6. /\ \A v \in ViewIndex : v \in ViewIndex'
        /\ Len(views') \in ViewIndex'
    BY <1>5 DEF ViewIndex
  <1>7. Grown
    BY <1>1, <1>5, <1>6 DEF Grown, Has
  <1>8. Typed'
    <2>1. Views' = Views
      BY <1>1 DEF Views, Has
    <2>2. \A v \in loads' : IsMembers(v)'
      BY <1>1, <1>2, <1>4, <1>5, <1>6, <1>7, Frame DEF IsMembers
    <2> QED BY <1>1, <1>2, <1>5, <1>7, <2>1, <2>2, Frame DEF Typed
  <1>9. InOrder' /\ Known'
    BY <1>1, <1>2, SameAccounts
  <1>10. ASSUME ~late' PROVE Submitted'
    <2>1. Submitted
      BY <1>1, <1>10 DEF IInv
    <2>2. /\ \A u \in Uids : changes[u] \in Seq(FittingChanges(u)')
          /\ main \in Seq(FittingTasks')
      BY <1>1, <1>2, <1>5, <1>7, <2>1, FittingFrame
    <2>3. ScreenOfUser'
      BY <1>1, <1>4, <1>5 DEF ScreenOfUser, Top
    <2>4. \A u \in Uids : Has(u)' => accounts'[u].password \in confirmed'[u]
      BY <1>1, <2>1 DEF Submitted, Has
    <2> QED BY <1>1, <2>2, <2>3, <2>4 DEF Submitted
  <1> QED BY <1>8, <1>9, <1>10 DEF IInv

LEMMA CancelButtonKeeps == IInv /\ CancelButton => IInv'
  <1> SUFFICES ASSUME IInv, CancelButton PROVE IInv'
    OBVIOUS
  <1>1. /\ open' = FALSE
        /\ UNCHANGED <<accounts, current, creating, changes, confirmed, views, loads,
                       main, uploads, blobs, docs, queue, acts, attempt, late>>
    BY DEF CancelButton, auth, profile
  <1>2. Typed /\ InOrder /\ Known
    BY DEF IInv
  <1>3. Grown
    BY <1>1 DEF Grown, Has, ViewIndex
  <1>4. Typed'
    BY <1>1, <1>2, <1>3, Frame DEF Typed
  <1>5. InOrder' /\ Known'
    BY <1>1, <1>2, SameAccounts
  <1>6. ~late' => Submitted'
    BY <1>1, <1>2, SubmittedFrame DEF IInv
  <1> QED BY <1>4, <1>5, <1>6 DEF IInv

\* Some fields of one view change, but not whose it is.
LEMMA ViewChanges ==
    ASSUME Typed, NEW v \in ViewIndex, NEW f \in Views, f.user = views[v].user,
           views' = [views EXCEPT ![v] = f], UNCHANGED <<accounts, blobs>>
    PROVE  /\ Grown /\ views' \in Seq(Views') /\ Len(views') = Len(views)
           /\ ViewIndex' = ViewIndex /\ views'[v] = f
           /\ \A w \in ViewIndex : w # v => views'[w] = views[w]
  <1>1. views \in Seq(Views) /\ Views' = Views
    BY DEF Typed, Views, Has
  <1>2. /\ views' \in Seq(Views) /\ Len(views') = Len(views)
        /\ views'[v] = f /\ \A w \in ViewIndex : w # v => views'[w] = views[w]
    BY <1>1 DEF ViewIndex
  <1>3. ViewIndex' = ViewIndex
    BY <1>2 DEF ViewIndex
  <1>4. Grown
    BY <1>2, <1>3 DEF Grown, Has
  <1> QED BY <1>1, <1>2, <1>3, <1>4

LEMMA EditKeeps ==
    ASSUME IInv, open, NEW view \in Edited, Edit(view) PROVE IInv'
  <1>1. /\ views' = [views EXCEPT ![Top] = view] /\ acts' = acts + 1
        /\ late' = (late \/ (SaveUnderWay /\ view.password # views[Top].password))
        /\ attempt' = [attempt EXCEPT !.clean = @ /\ ~HandlerPending]
        /\ UNCHANGED <<accounts, current, creating, changes, confirmed, open, loads,
                       main, uploads, blobs, docs, queue>>
    BY DEF Edit, Act, auth, profile, SpoilIf
  <1>2. Typed /\ InOrder /\ Known /\ Top \in ViewIndex
    BY TopIsView DEF IInv
  <1>3. view \in Views /\ view.user = views[Top].user
    <2>1. view \in View /\ view.user = views[Top].user
      BY DEF Edited
    <2>2. view.user # None => Has(view.user)
      BY <1>2, <2>1, ViewFields
    <2> QED BY <2>1, <2>2 DEF Views
  <1>4. /\ Grown /\ views' \in Seq(Views') /\ Len(views') = Len(views)
        /\ ViewIndex' = ViewIndex /\ views'[Top] = view
        /\ \A w \in ViewIndex : w # Top => views'[w] = views[w]
    BY <1>1, <1>2, <1>3, ViewChanges
  <1>5. Typed'
    <2>1. views' # <<>>
      BY <1>2, <1>4 DEF ViewIndex
    <2>2. attempt' \in Attempt
      BY <1>1, <1>2 DEF Typed, Attempt
    <2>3. late' \in BOOLEAN /\ acts' \in Nat
      BY <1>1, <1>2 DEF Typed
    <2> QED BY <1>1, <1>2, <1>4, <2>1, <2>2, <2>3, Frame DEF Typed
  <1>6. InOrder' /\ Known'
    BY <1>1, <1>2, SameAccounts
  <1>7. ASSUME ~late' PROVE Submitted'
    <2>1. Submitted
      BY <1>1, <1>7 DEF IInv
    <2>2. SaveUnderWay =>
            \A v \in ViewIndex : views'[v].password = views[v].password
      BY <1>1, <1>4, <1>7
    <2>3. /\ \A u \in Uids : changes[u] \in Seq(FittingChanges(u)')
          /\ main \in Seq(FittingTasks')
      BY <1>1, <1>2, <1>4, <2>1, <2>2, FittingFrame
    <2>4. ScreenOfUser'
      BY <1>1, <1>3, <1>4, <2>1 DEF ScreenOfUser, Top, Submitted
    <2>5. \A u \in Uids : Has(u)' => accounts'[u].password \in confirmed'[u]
      BY <1>1, <2>1 DEF Submitted, Has
    <2> QED BY <1>1, <2>3, <2>4, <2>5 DEF Submitted
  <1> QED BY <1>5, <1>6, <1>7 DEF IInv

\* A profile the client shows is one whose photo is stored.
LEMMA SeenHasPhoto ==
    ASSUME Typed, Known, NEW u \in Uids
    PROVE  /\ Seen(u) \in Emails \cup {Empty, None}
           /\ Seen(u) # None => blobs[u] # None
  <1> DEFINE writes == queue[current]
             own == {i \in 1 .. Len(writes) : writes[i].uid = u}
  <1>1. writes \in Seq(Writes) /\ Len(writes) \in Nat
    BY DEF Typed
  <1>2. CASE own = {}
    BY <1>2 DEF Seen, Known, Typed
  <1>3. CASE own # {}
    <2>1. Max(own) \in own
      BY <1>1, <1>3, MaxIsIn
    <2>2. Seen(u) = writes[Max(own)].email
      BY <1>3 DEF Seen
    <2> HIDE DEF writes
    <2>3. writes[Max(own)] \in Writes /\ writes[Max(own)].uid = u
      BY <1>1, <2>1
    <2> QED BY <2>2, <2>3 DEF Writes, WriteType
  <1> QED BY <1>2, <1>3

LEMMA LoadAnsweredKeeps ==
    ASSUME IInv, NEW v \in loads, LoadAnswered(v) PROVE IInv'
  <1> DEFINE t == [kind |-> "loaded", view |-> v, email |-> Seen(views[v].user)]
  <1>1. /\ loads' = loads \ {v} /\ main' = Append(main, t)
        /\ UNCHANGED <<accounts, current, creating, changes, confirmed, views, open,
                       uploads, blobs, docs, queue, acts, attempt, late>>
    BY DEF LoadAnswered, auth, screen, profile
  <1>2. Typed /\ InOrder /\ Known
    BY DEF IInv
  <1>3. v \in ViewIndex /\ views[v].user \in Uids /\ v \in Nat
    BY <1>2, ViewFields DEF Typed, IsMembers, ViewIndex
  <1>4. t \in Tasks /\ t.kind = "loaded"
    <2>1. t \in TaskType /\ t.view = v /\ t.email = Seen(views[v].user)
      BY <1>2, <1>3, SeenHasPhoto DEF TaskType
    <2> QED BY <1>2, <1>3, <2>1, SeenHasPhoto, Constants DEF Tasks
  <1> HIDE DEF t
  <1>5. Grown /\ Tasks' = Tasks
    BY <1>1 DEF Grown, Has, ViewIndex, Tasks
  <1>6. Typed'
    <2>1. main' \in Seq(Tasks')
      BY <1>1, <1>2, <1>4, <1>5, PushSeq DEF Typed
    <2> QED BY <1>1, <1>2, <1>5, <2>1, Frame DEF Typed
  <1>7. InOrder' /\ Known'
    BY <1>1, <1>2, SameAccounts
  <1>8. ASSUME ~late' PROVE Submitted'
    <2>1. Submitted
      BY <1>1, <1>8 DEF IInv
    <2>2. /\ \A u \in Uids : changes[u] \in Seq(FittingChanges(u)')
          /\ main \in Seq(FittingTasks')
      BY <1>1, <1>2, <1>5, <2>1, FittingFrame
    <2>3. t \in FittingTasks'
      BY <1>4, <1>5 DEF FittingTasks
    <2>4. main' \in Seq(FittingTasks')
      BY <1>1, <2>2, <2>3, PushSeq
    <2>5. ScreenOfUser'
      BY <1>1, <2>1 DEF ScreenOfUser, Top, Submitted
    <2>6. \A u \in Uids : Has(u)' => accounts'[u].password \in confirmed'[u]
      BY <1>1, <2>1 DEF Submitted, Has
    <2> QED BY <1>1, <2>2, <2>4, <2>5, <2>6 DEF Submitted
  <1> QED BY <1>6, <1>7, <1>8 DEF IInv

\* loadUser's answer fills the fields, all but the password.
LEMMA RunLoadedKeeps == IInv /\ main # <<>> /\ RunLoaded => IInv'
  <1> SUFFICES ASSUME IInv, main # <<>>, RunLoaded PROVE IInv'
    OBVIOUS
  <1> DEFINE t == Head(main)
             v == t.view
             photo == blobs[views[v].user]
  <1>1. /\ t.kind = "loaded" /\ main' = Tail(main)
        /\ views' = IF t.email = None THEN views
                    ELSE [views EXCEPT ![v].email = t.email, ![v].photo = photo]
        /\ attempt' = [attempt EXCEPT !.clean = @ /\ ~(views' # views)]
        /\ UNCHANGED <<accounts, current, creating, changes, confirmed, open, loads,
                       uploads, blobs, docs, queue, acts, late>>
    BY DEF RunLoaded, auth, profile, SpoilIf
  <1>2. Typed /\ InOrder /\ Known
    BY DEF IInv
  <1>3. t \in Tasks
    BY <1>2, PopSeq DEF Typed
  <1>4. v \in ViewIndex /\ views[v].user \in Uids
    BY <1>1, <1>2, <1>3, ViewFields DEF Tasks
  <1>5. t.email # None => /\ photo \in Photos \cup {Placeholder}
                          /\ t.email \in Emails \cup {Empty}
    BY <1>1, <1>2, <1>3, <1>4 DEF Tasks, TaskType, Typed
  <1> HIDE DEF t, photo
  <1>6. /\ Grown /\ views' \in Seq(Views') /\ Len(views') = Len(views)
        /\ ViewIndex' = ViewIndex
        /\ \A w \in ViewIndex : views'[w].user = views[w].user
                                /\ views'[w].password = views[w].password
    <2>1. CASE t.email = None
      BY <1>1, <1>2, <2>1, Frame DEF Grown, Has, ViewIndex
    <2>2. CASE t.email # None
      <3> DEFINE f == [views[v] EXCEPT !.email = t.email, !.photo = photo]
      <3>1. views[v] \in View /\ (views[v].user # None => Has(views[v].user))
        BY <1>2, <1>4, ViewFields DEF Views
      <3>2. f \in View /\ f.user = views[v].user /\ f.password = views[v].password
        BY <1>5, <2>2, <3>1 DEF View
      <3>3. f \in Views
        BY <3>1, <3>2 DEF Views
      <3>4. views' = [views EXCEPT ![v] = f]
        BY <1>1, <2>2
      <3> HIDE DEF f, v
      <3>5. /\ Grown /\ views' \in Seq(Views') /\ Len(views') = Len(views)
            /\ ViewIndex' = ViewIndex /\ views'[v] = f
            /\ \A w \in ViewIndex : w # v => views'[w] = views[w]
        BY <1>1, <1>2, <1>4, <3>2, <3>3, <3>4, ViewChanges
      <3> QED BY <3>2, <3>5
    <2> QED BY <2>1, <2>2
  <1>7. Typed'
    <2>1. main' \in Seq(Tasks')
      BY <1>1, <1>2, <1>6, Frame, PopSeq
    <2>2. open' => views' # <<>>
      BY <1>1, <1>2, <1>6 DEF Typed
    <2>3. attempt' \in Attempt
      BY <1>1, <1>2 DEF Typed, Attempt
    <2> QED BY <1>1, <1>2, <1>6, <2>1, <2>2, <2>3, Frame DEF Typed
  <1>8. InOrder' /\ Known'
    BY <1>1, <1>2, SameAccounts
  <1>9. ASSUME ~late' PROVE Submitted'
    <2>1. Submitted
      BY <1>1, <1>9 DEF IInv
    <2>2. /\ \A u \in Uids : changes[u] \in Seq(FittingChanges(u)')
          /\ main \in Seq(FittingTasks')
      BY <1>1, <1>2, <1>6, <2>1, FittingFrame
    <2>3. main' \in Seq(FittingTasks')
      BY <1>1, <2>2, PopSeq
    <2>4. ScreenOfUser'
      BY <1>1, <1>2, <1>6, <2>1, TopIsView DEF ScreenOfUser, Top, Submitted
    <2>5. \A u \in Uids : Has(u)' => accounts'[u].password \in confirmed'[u]
      BY <1>1, <2>1 DEF Submitted, Has
    <2> QED BY <1>1, <2>2, <2>3, <2>4, <2>5 DEF Submitted
  <1> QED BY <1>7, <1>8, <1>9 DEF IInv

-----------------------------------------------------------------------------
(***************************************************************************)
(* Every step keeps the invariant: signing up                              *)
(***************************************************************************)
LEMMA HandleSignUpKeeps == IInv /\ HandleSignUp => IInv'
  <1> SUFFICES ASSUME IInv, HandleSignUp PROVE IInv'
    OBVIOUS
  <1> DEFINE form == views[Top]
             c == [view |-> Top, tap |-> acts, email |-> form.email,
                   password |-> form.password]
  <1>1. /\ open /\ Empty \notin {form.email, form.password}
        /\ creating' = creating \cup {c} /\ acts' = acts + 1
        /\ attempt' = [clean |-> Quiet, uid |-> None, photo |-> form.photo]
        /\ UNCHANGED <<accounts, current, changes, confirmed, views, open, loads, main,
                       uploads, blobs, docs, queue, late>>
    BY DEF HandleSignUp, Act, screen, profile
  <1>2. Typed /\ InOrder /\ Known /\ Top \in ViewIndex
    BY <1>1, TopIsView DEF IInv
  <1>3. Grown /\ Calls' = Calls
    BY <1>1 DEF Grown, Has, ViewIndex, Calls
  <1>4. c \in Calls
    BY <1>1, <1>2, ViewFields DEF Calls, CallType, ViewIndex, Typed
  <1>5. attempt' \in Attempt
    BY <1>1, <1>2, ViewFields DEF Attempt, Quiet
  <1> HIDE DEF c
  <1>6. Typed'
    BY <1>1, <1>2, <1>3, <1>4, <1>5, Frame DEF Typed
  <1>7. InOrder' /\ Known'
    BY <1>1, <1>2, SameAccounts
  <1>8. ~late' => Submitted'
    BY <1>1, <1>2, SubmittedFrame DEF IInv
  <1> QED BY <1>6, <1>7, <1>8 DEF IInv

LEMMA CreateSucceedsKeeps ==
    ASSUME IInv, NEW c \in creating, CreateSucceeds(c) PROVE IInv'
  <1> DEFINE t == [kind |-> "created", view |-> c.view, email |-> c.email]
             a == [email |-> c.email, password |-> c.password]
  <1> USE DEF IInv
  <1>0. Typed /\ InOrder /\ Known
    OBVIOUS
  <1>1. PICK uid \in Uids : uid = NextUid
    BY DEF CreateSucceeds
  <1>2. /\ creating' = creating \ {c} /\ accounts' = [accounts EXCEPT ![uid] = a]
        /\ confirmed' = [confirmed EXCEPT ![uid] = {c.password}]
        /\ UNCHANGED <<changes, views, open, loads, uploads, blobs, docs, queue>>
    BY <1>1 DEF CreateSucceeds, screen, profile
  <1>3. \/ /\ current' = uid /\ main' = Append(main, t) /\ acts' = acts
           /\ attempt' = [attempt EXCEPT !.uid = uid]
           /\ late' = (late \/ SaveUnderWay \/ (open /\ views[Top].user # None))
        \/ /\ UNCHANGED <<current, main, late>> /\ acts' = acts + 1
           /\ attempt' = [attempt EXCEPT !.clean = @ /\ ~TRUE]
    BY <1>1 DEF CreateSucceeds, Act, SpoilIf
  <1>4. ~Has(uid) /\ \A u \in Uids : u < uid => Has(u)
    BY <1>0, <1>1, NextIsNew DEF Typed
  <1>5. c \in Calls /\ a \in Account /\ a # NoAccount /\ a.password = c.password
        /\ c.password \in Passwords
    BY <1>0, Constants DEF Typed, Calls, CallType
  <1> HIDE DEF a
  <1>6. \A u \in Uids : Has(u)' <=> (u = uid \/ Has(u))
    BY <1>0, <1>2, <1>5 DEF Has, Typed
  <1>7. Grown
    BY <1>2, <1>6 DEF Grown, ViewIndex
  <1>8. t \in Tasks' /\ t.kind = "created"
    BY <1>2, <1>5 DEF Tasks, TaskType, Calls, CallType, ViewIndex
  <1> HIDE DEF t
  <1>9. Typed'
    <2>0. main \in Seq(Tasks') /\ Append(main, t) \in Seq(Tasks')
      BY <1>0, <1>7, <1>8, Frame, PushSeq
    <2>1. main' \in Seq(Tasks')
      BY <1>3, <2>0
    <2>2. /\ attempt' \in Attempt /\ acts' \in Nat
          /\ current' \in Uids \cup {None} /\ late' \in BOOLEAN
      <3>1. acts \in Nat /\ current \in Uids \cup {None} /\ late \in BOOLEAN
            /\ attempt \in Attempt
        BY <1>0 DEF Typed
      <3>2. /\ [attempt EXCEPT !.uid = uid] \in Attempt
            /\ [attempt EXCEPT !.clean = @ /\ ~TRUE] \in Attempt
        BY <3>1 DEF Attempt
      <3>3. late' \in BOOLEAN
        BY <1>3, <3>1
      <3>4. attempt' \in Attempt
        BY <1>3, <3>2
      <3>5. acts' \in Nat /\ current' \in Uids \cup {None}
        BY <1>3, <3>1
      <3> QED BY <3>3, <3>4, <3>5
    <2>3. accounts' \in [Uids -> Account] /\ confirmed' \in [Uids -> SUBSET Passwords]
      BY <1>0, <1>2, <1>5 DEF Typed
    <2>4. creating' \in SUBSET Calls'
      BY <1>0, <1>2, <1>7, Frame
    <2> QED BY <1>0, <1>2, <1>7, <2>1, <2>2, <2>3, <2>4, Frame DEF Typed
  <1>10. InOrder'
    BY <1>0, <1>4, <1>6 DEF InOrder, Uids
  <1>11. Known'
    BY <1>0, <1>2, <1>3, <1>6 DEF Known, Typed
  <1>12. \A u \in Uids : confirmed[u] \subseteq confirmed'[u]
    BY <1>0, <1>2, <1>4 DEF Known, Typed
  <1>13. ASSUME ~late' PROVE Submitted'
    <2>1. Submitted /\ (SaveUnderWay => current' = current)
          /\ (current' # current => ~(open /\ views[Top].user # None))
      BY <1>3, <1>13
    <2>2. /\ \A u \in Uids : changes[u] \in Seq(FittingChanges(u)')
          /\ main \in Seq(FittingTasks')
      BY <1>0, <1>2, <1>7, <1>12, <2>1, FittingFrame
    <2>3. t \in FittingTasks'
      BY <1>8 DEF FittingTasks
    <2>4. main' \in Seq(FittingTasks')
      <3>1. Append(main, t) \in Seq(FittingTasks')
        BY <2>2, <2>3, PushSeq
      <3> QED BY <1>3, <2>2, <3>1
    <2>5. ScreenOfUser'
      BY <1>2, <2>1 DEF ScreenOfUser, Top, Submitted
    <2>6. \A u \in Uids : Has(u)' => accounts'[u].password \in confirmed'[u]
      BY <1>0, <1>2, <1>5, <1>6, <2>1 DEF Submitted, Typed
    <2> QED BY <1>2, <2>2, <2>4, <2>5, <2>6 DEF Submitted
  <1> QED BY <1>9, <1>10, <1>11, <1>13

LEMMA CreateFailsKeeps ==
    ASSUME IInv, NEW c \in creating, CreateFails(c) PROVE IInv'
  <1>1. /\ creating' = creating \ {c} /\ acts' \in {acts, acts + 1}
        /\ UNCHANGED <<accounts, current, changes, confirmed, views, open, loads, main,
                       uploads, blobs, docs, queue, attempt, late>>
    BY DEF CreateFails, Act, screen, profile
  <1>2. Typed /\ InOrder /\ Known
    BY DEF IInv
  <1>3. Grown
    BY <1>1 DEF Grown, Has, ViewIndex
  <1>4. acts' \in Nat
    BY <1>1, <1>2 DEF Typed
  <1>5. Typed'
    BY <1>1, <1>2, <1>3, <1>4, Frame DEF Typed
  <1>6. InOrder' /\ Known'
    BY <1>1, <1>2, SameAccounts
  <1>7. ~late' => Submitted'
    BY <1>1, <1>2, SubmittedFrame DEF IInv
  <1> QED BY <1>5, <1>6, <1>7 DEF IInv

LEMMA RunCreatedKeeps == IInv /\ main # <<>> /\ RunCreated => IInv'
  <1> SUFFICES ASSUME IInv, main # <<>>, RunCreated PROVE IInv'
    OBVIOUS
  <1> DEFINE call == Head(main)
             x == [view |-> call.view, uid |-> current, email |-> call.email,
                   photo |-> views[call.view].photo, stored |-> FALSE]
  <1>1. /\ call.kind = "created" /\ main' = Tail(main)
        /\ uploads' = IF current = None THEN uploads ELSE uploads \cup {x}
        /\ open' = IF current = None THEN open ELSE open /\ call.view # Top
        /\ UNCHANGED <<accounts, current, creating, changes, confirmed, views, loads,
                       blobs, docs, queue, acts, attempt, late>>
    BY DEF RunCreated, Upload, auth, profile
  <1>2. Typed /\ InOrder /\ Known
    BY DEF IInv
  <1>3. call \in Tasks
    BY <1>2, PopSeq DEF Typed
  <1>4. Grown
    BY <1>1 DEF Grown, Has, ViewIndex
  <1>5. current # None => x \in Uploads'
    <2>1. call.view \in ViewIndex /\ call.view \in Nat /\ call.email \in Emails
      BY <1>1, <1>3 DEF Tasks, TaskType
    <2> HIDE DEF call
    <2>2. views[call.view].photo \in Photos \cup {Placeholder}
      BY <1>2, <2>1, ViewFields
    <2>3. current # None => current \in Uids /\ accounts'[current] # NoAccount
      BY <1>1, <1>2 DEF Typed, Known, Has
    <2> QED BY <2>1, <2>2, <2>3 DEF Uploads, UploadType, Has
  <1> HIDE DEF call, x
  <1>6. Typed'
    <2>1. main' \in Seq(Tasks') /\ uploads' \in SUBSET Uploads'
      BY <1>1, <1>2, <1>4, <1>5, Frame, PopSeq
    <2>2. open' \in BOOLEAN /\ (open' => views' # <<>>)
      BY <1>1, <1>2 DEF Typed
    <2> QED BY <1>1, <1>2, <1>4, <2>1, <2>2, Frame DEF Typed
  <1>7. InOrder' /\ Known'
    BY <1>1, <1>2, SameAccounts
  <1>8. ASSUME ~late' PROVE Submitted'
    <2>1. Submitted
      BY <1>1, <1>8 DEF IInv
    <2>2. /\ \A u \in Uids : changes[u] \in Seq(FittingChanges(u)')
          /\ main \in Seq(FittingTasks')
      BY <1>1, <1>2, <1>4, <2>1, FittingFrame
    <2>3. main' \in Seq(FittingTasks')
      BY <1>1, <2>2, PopSeq
    <2>4. ScreenOfUser'
      BY <1>1, <2>1 DEF ScreenOfUser, Top, Submitted
    <2>5. \A u \in Uids : Has(u)' => accounts'[u].password \in confirmed'[u]
      BY <1>1, <2>1 DEF Submitted, Has
    <2> QED BY <1>1, <2>2, <2>3, <2>4, <2>5 DEF Submitted
  <1> QED BY <1>6, <1>7, <1>8 DEF IInv

-----------------------------------------------------------------------------
(***************************************************************************)
(* Every step keeps the invariant: changing the account                    *)
(***************************************************************************)
LEMMA JoinSeq ==
    ASSUME NEW S, NEW q \in Seq(S), NEW r \in Seq(S)
    PROVE  q \o r \in Seq(S)
  OBVIOUS

LEMMA SaveButtonKeeps == IInv /\ SaveButton => IInv'
  <1> SUFFICES ASSUME IInv, SaveButton PROVE IInv'
    OBVIOUS
  <1> DEFINE form == views[Top]
             p == Change("password", form.password, Top)
             e == Change("email", form.email, Top)
             ps == IF form.password = Empty THEN <<>> ELSE <<p>>
             es == IF form.email = Empty THEN <<>> ELSE <<e>>
  <1>0. Top \in ViewIndex /\ form.user \in Uids
    BY TopIsView, ViewFields DEF IInv, SaveButton
  <1>a. PICK who \in Uids, top \in ViewIndex : who = form.user /\ top = Top
    BY <1>0
  <1>1. /\ open /\ who # None
        /\ changes' = [changes EXCEPT ![who] = @ \o ps \o es] /\ acts' = acts + 1
        /\ confirmed' = [confirmed EXCEPT ![who] = @ \cup ({form.password} \ {Empty})]
        /\ attempt' = [clean |-> Quiet, uid |-> None, photo |-> form.photo]
        /\ UNCHANGED <<accounts, current, creating, views, open, loads, main,
                       uploads, blobs, docs, queue, late>>
    BY <1>a DEF SaveButton, Act, screen, profile
  <1>2. Typed /\ InOrder /\ Known /\ Top \in ViewIndex
    BY <1>1, TopIsView DEF IInv
  <1>3. /\ who \in Uids /\ Has(who) /\ form.photo \in Photos \cup {Placeholder}
        /\ form.password \in Passwords \cup {Empty}
        /\ form.email \in Emails \cup {Empty} /\ Top \in Nat
    BY <1>1, <1>2, <1>a, ViewFields, TopIsView DEF Top
  <1>4. Grown
    BY <1>1 DEF Grown, Has, ViewIndex
  <1>5. /\ form.password # Empty => p \in ChangesOf(who)
        /\ form.email # Empty => e \in ChangesOf(who)
    BY <1>2, <1>3, <1>a DEF ChangesOf, ChangeType, Change
  <1>6. \A u \in Uids : ChangesOf(u)' = ChangesOf(u)
    BY <1>1 DEF ChangesOf, ViewIndex, Has
  <1>7. attempt' \in Attempt
    BY <1>1, <1>3 DEF Attempt, Quiet
  <1>8. confirmed' \in [Uids -> SUBSET Passwords]
        /\ \A u \in Uids : confirmed[u] \subseteq confirmed'[u]
    BY <1>1, <1>2, <1>3 DEF Typed
  <1>9. form.password \in confirmed'[who] \cup {Empty}
    BY <1>1, <1>2, <1>3 DEF Typed
  <1>10. p.op = "password" /\ p.value = form.password /\ e.op = "email" /\ e.view = top
    BY <1>a DEF Change
  <1> HIDE DEF form, p, e
  <1>11. ps \in Seq(ChangesOf(who)) /\ es \in Seq(ChangesOf(who))
    BY <1>5
  <1>12. changes[who] \o ps \o es \in Seq(ChangesOf(who))
    <2>1. changes[who] \in Seq(ChangesOf(who))
      BY <1>2, <1>3 DEF Typed
    <2> HIDE DEF ps, es
    <2> QED BY <1>11, <2>1, JoinSeq
  <1> HIDE DEF ps, es
  <1>13. /\ changes'[who] = changes[who] \o ps \o es
         /\ DOMAIN changes' = Uids
         /\ \A u \in Uids \ {who} : changes'[u] = changes[u]
    BY <1>1, <1>2, <1>3 DEF Typed
  <1>14. Typed'
    <2>1. \A u \in Uids : changes'[u] \in Seq(ChangesOf(u)')
      BY <1>2, <1>6, <1>12, <1>13 DEF Typed
    <2>2. changes' \in [Uids -> Seq(ChangeType)]
      <3>1. \A u \in Uids : ChangesOf(u) \subseteq ChangeType
        BY DEF ChangesOf
      <3>2. changes[who] \o ps \o es \in Seq(ChangeType)
        BY <1>3, <1>12, <3>1, LargerSeq
      <3> QED BY <1>1, <1>2, <1>3, <3>2 DEF Typed
    <2> QED BY <1>1, <1>2, <1>4, <1>7, <1>8, <2>1, <2>2, Frame DEF Typed
  <1>15. InOrder' /\ Known'
    BY <1>1, <1>2, <1>3 DEF InOrder, Known, Has, Typed
  <1>16. ASSUME ~late' PROVE Submitted'
    <2>1. Submitted
      BY <1>1, <1>16 DEF IInv
    <2>2. /\ \A u \in Uids : changes[u] \in Seq(FittingChanges(u)')
          /\ main \in Seq(FittingTasks')
      BY <1>1, <1>2, <1>4, <1>8, <2>1, FittingFrame
    <2>3. Fits(top)'
      <3>1. current = who
        BY <1>1, <1>a, <2>1 DEF Submitted, ScreenOfUser, form
      <3> QED BY <1>1, <1>9, <1>a, <3>1 DEF Fits, form
    <2>4. /\ form.password # Empty => p \in FittingChanges(who)'
          /\ form.email # Empty => e \in FittingChanges(who)'
      <3>1. form.password # Empty => p \in ChangesOf(who)' /\ p.value \in confirmed'[who]
        BY <1>1, <1>3, <1>5, <1>9, <1>10 DEF ChangesOf, ViewIndex, Has
      <3>2. form.email # Empty => e \in ChangesOf(who)'
        BY <1>1, <1>3, <1>5 DEF ChangesOf, ViewIndex, Has
      <3> QED BY <1>10, <2>3, <3>1, <3>2 DEF FittingChanges
    <2>5. changes[who] \o ps \o es \in Seq(FittingChanges(who)')
      <3>1. ps \in Seq(FittingChanges(who)') /\ es \in Seq(FittingChanges(who)')
        BY <2>4 DEF ps, es
      <3> QED BY <1>3, <2>2, <3>1, JoinSeq
    <2>6. \A u \in Uids : changes'[u] \in Seq(FittingChanges(u)')
      BY <1>13, <2>2, <2>5
    <2>7. ScreenOfUser'
      BY <1>1, <2>1 DEF ScreenOfUser, Top, Submitted
    <2>8. \A u \in Uids : Has(u)' => accounts'[u].password \in confirmed'[u]
      BY <1>1, <1>8, <2>1 DEF Submitted, Has
    <2> QED BY <1>1, <2>2, <2>6, <2>7, <2>8 DEF Submitted
  <1> QED BY <1>14, <1>15, <1>16 DEF IInv

\* The change at the head of a queue is taken off it.
LEMMA ChangeTaken ==
    ASSUME Typed, NEW u \in Uids, changes[u] # <<>>, Grown,
           changes' = [changes EXCEPT ![u] = Tail(@)]
    PROVE  /\ Head(changes[u]) \in ChangesOf(u)
           /\ changes' \in [Uids -> Seq(ChangeType)]
           /\ \A w \in Uids : changes'[w] \in Seq(ChangesOf(w)')
  <1>1. changes[u] \in Seq(ChangeType) /\ changes[u] \in Seq(ChangesOf(u))
    BY DEF Typed
  <1>2. Head(changes[u]) \in ChangesOf(u) /\ Tail(changes[u]) \in Seq(ChangeType)
    BY <1>1, PopSeq
  <1>3. changes' \in [Uids -> Seq(ChangeType)]
    BY <1>2 DEF Typed
  <1>4. \A w \in Uids : changes[w] \in Seq(ChangesOf(w)')
    BY Frame
  <1>5. Tail(changes[u]) \in Seq(ChangesOf(u)')
    BY <1>4, PopSeq
  <1>6. \A w \in Uids : changes'[w] \in Seq(ChangesOf(w)')
    BY <1>4, <1>5 DEF Typed
  <1> QED BY <1>2, <1>3, <1>6

\* And so from a queue of submitted passwords.
LEMMA FittingChangeTaken ==
    ASSUME Typed, NEW u \in Uids, changes[u] # <<>>,
           changes' = [changes EXCEPT ![u] = Tail(@)],
           \A w \in Uids : changes[w] \in Seq(FittingChanges(w)')
    PROVE  \A w \in Uids : changes'[w] \in Seq(FittingChanges(w)')
  <1>1. Tail(changes[u]) \in Seq(FittingChanges(u)')
    BY PopSeq
  <1> QED BY <1>1 DEF Typed

LEMMA ChangeSucceedsKeeps ==
    ASSUME IInv, NEW u \in Uids, ChangeSucceeds(u) PROVE IInv'
  <1> DEFINE change == Head(changes[u])
             t == [kind |-> "saved", view |-> change.view]
  <1>1. /\ changes[u] # <<>> /\ changes' = [changes EXCEPT ![u] = Tail(@)]
        /\ UNCHANGED <<current, creating, confirmed, views, open, loads, uploads,
                       blobs, docs, queue, late>>
    BY DEF ChangeSucceeds, screen, profile
  <1>2. \/ /\ change.op = "email" /\ main' = Append(main, t) /\ acts' = acts
           /\ accounts' = [accounts EXCEPT ![u].email = change.value]
           /\ attempt' = [attempt EXCEPT !.uid = u]
        \/ /\ change.op = "email" /\ main' = main /\ acts' = acts + 1
           /\ accounts' = [accounts EXCEPT ![u].email = change.value]
           /\ attempt' = [attempt EXCEPT !.clean = @ /\ ~TRUE]
        \/ /\ change.op # "email" /\ UNCHANGED <<main, acts, attempt>>
           /\ accounts' = [accounts EXCEPT ![u].password = change.value]
    BY DEF ChangeSucceeds, Act, SpoilIf
  <1>3. Typed /\ InOrder /\ Known
    BY DEF IInv
  <1>4. change \in ChangesOf(u)
    BY <1>1, <1>3, PopSeq DEF Typed
  <1>5. /\ Has(u) /\ change.view \in ViewIndex /\ change.view \in Nat
        /\ change.op = "email" => change.value \in Emails /\ views[change.view].user = u
        /\ change.op # "email" => change.op = "password" /\ change.value \in Passwords
    BY <1>4 DEF ChangesOf, ChangeType
  <1> HIDE DEF change
  <1>6. accounts[u] \in [email : Emails, password : Passwords]
    BY <1>3, <1>5 DEF Has, Typed, Account
  <1>7. /\ accounts' \in [Uids -> Account]
        /\ \A w \in Uids : Has(w)' <=> Has(w)
        /\ \A w \in Uids \ {u} : accounts'[w] = accounts[w]
        /\ change.op = "email" => accounts'[u].password = accounts[u].password
        /\ change.op # "email" => accounts'[u].password = change.value
    <2> DEFINE Full == [email : Emails, password : Passwords]
    <2>0. Full \subseteq Account \ {NoAccount}
      BY Constants DEF Account
    <2>1. ASSUME NEW e \in Emails
          PROVE  /\ [accounts[u] EXCEPT !.email = e] \in Account \ {NoAccount}
                 /\ [accounts[u] EXCEPT !.email = e].password = accounts[u].password
      <3>1. [accounts[u] EXCEPT !.email = e] \in Full
        BY <1>6
      <3>2. [accounts[u] EXCEPT !.email = e].password = accounts[u].password
        BY <1>6
      <3> QED BY <2>0, <3>1, <3>2
    <2>2. ASSUME NEW p \in Passwords
          PROVE  /\ [accounts[u] EXCEPT !.password = p] \in Account \ {NoAccount}
                 /\ [accounts[u] EXCEPT !.password = p].password = p
      <3>1. [accounts[u] EXCEPT !.password = p] \in Full
        BY <1>6
      <3>2. [accounts[u] EXCEPT !.password = p].password = p
        BY <1>6
      <3> QED BY <2>0, <3>1, <3>2
    <2>3. CASE change.op = "email"
      BY <1>2, <1>3, <1>5, <2>1, <2>3 DEF Has, Typed
    <2>4. CASE change.op # "email"
      BY <1>2, <1>3, <1>5, <2>2, <2>4 DEF Has, Typed
    <2> QED BY <2>3, <2>4
  <1>8. Grown
    BY <1>1, <1>7 DEF Grown, ViewIndex
  <1>9. change.op = "email" => t \in Tasks' /\ t.view = change.view
    <2>1. u # None
      BY Constants
    <2> QED BY <1>1, <1>5, <2>1 DEF Tasks, TaskType, ViewIndex
  <1> HIDE DEF t
  <1>10. Typed'
    <2>1. main' \in Seq(Tasks')
      <3>1. main \in Seq(Tasks') /\ (change.op = "email" => Append(main, t) \in Seq(Tasks'))
        BY <1>3, <1>8, <1>9, Frame, PushSeq
      <3> QED BY <1>2, <3>1
    <2>2. acts' \in Nat
      BY <1>2, <1>3 DEF Typed
    <2>3. attempt' \in Attempt
      <3>1. /\ [attempt EXCEPT !.uid = u] \in Attempt
            /\ [attempt EXCEPT !.clean = @ /\ ~TRUE] \in Attempt
            /\ attempt \in Attempt
        BY <1>3 DEF Typed, Attempt
      <3> QED BY <1>2, <3>1
    <2>4. /\ changes' \in [Uids -> Seq(ChangeType)]
          /\ \A w \in Uids : changes'[w] \in Seq(ChangesOf(w)')
      BY <1>1, <1>3, <1>8, ChangeTaken
    <2> QED BY <1>1, <1>3, <1>7, <1>8, <2>1, <2>2, <2>3, <2>4, Frame DEF Typed
  <1>11. InOrder'
    BY <1>3, <1>7 DEF InOrder
  <1>12. Known'
    BY <1>1, <1>3, <1>7 DEF Known, Typed
  <1>13. ASSUME ~late' PROVE Submitted'
    <2>1. Submitted
      BY <1>1, <1>13 DEF IInv
    <2>2. /\ \A w \in Uids : changes[w] \in Seq(FittingChanges(w)')
          /\ main \in Seq(FittingTasks')
      BY <1>1, <1>3, <1>8, <2>1, FittingFrame
    <2>3. \A w \in Uids : changes'[w] \in Seq(FittingChanges(w)')
      BY <1>1, <1>3, <2>2, FittingChangeTaken
    <2>4. change \in FittingChanges(u)
      BY <1>1, <2>1, PopSeq DEF Submitted, change
    <2>5. change.op = "email" => t \in FittingTasks'
      <3>1. change.op = "email" => Fits(change.view)
        BY <2>4 DEF FittingChanges
      <3>2. change.op = "email" =>
              /\ views'[t.view].password \in confirmed'[views'[t.view].user] \cup {Empty}
              /\ current' \in {None, views'[t.view].user}
        BY <1>1, <1>9, <3>1 DEF Fits
      <3> QED BY <1>9, <3>2 DEF FittingTasks, Fits
    <2>6. main' \in Seq(FittingTasks')
      BY <1>2, <2>2, <2>5, PushSeq
    <2>7. ScreenOfUser'
      BY <1>1, <2>1 DEF ScreenOfUser, Top, Submitted
    <2>8. \A w \in Uids : Has(w)' => accounts'[w].password \in confirmed'[w]
      <3>1. change.op # "email" => change.value \in confirmed[u]
        BY <2>4 DEF FittingChanges
      <3> QED BY <1>1, <1>5, <1>7, <2>1, <3>1 DEF Submitted
    <2> QED BY <1>1, <2>3, <2>6, <2>7, <2>8 DEF Submitted
  <1> QED BY <1>10, <1>11, <1>12, <1>13 DEF IInv

LEMMA ChangeFailsKeeps ==
    ASSUME IInv, NEW u \in Uids, ChangeFails(u) PROVE IInv'
  <1>1. /\ changes[u] # <<>> /\ changes' = [changes EXCEPT ![u] = Tail(@)]
        /\ acts' \in {acts, acts + 1}
        /\ UNCHANGED <<accounts, current, creating, confirmed, views, open, loads, main,
                       uploads, blobs, docs, queue, attempt, late>>
    BY DEF ChangeFails, Act, screen, profile
  <1>2. Typed /\ InOrder /\ Known
    BY DEF IInv
  <1>3. Grown
    BY <1>1 DEF Grown, Has, ViewIndex
  <1>4. Typed'
    <2>1. acts' \in Nat
      BY <1>1, <1>2 DEF Typed
    <2>2. /\ changes' \in [Uids -> Seq(ChangeType)]
          /\ \A w \in Uids : changes'[w] \in Seq(ChangesOf(w)')
      BY <1>1, <1>2, <1>3, ChangeTaken
    <2> QED BY <1>1, <1>2, <1>3, <2>1, <2>2, Frame DEF Typed
  <1>5. InOrder' /\ Known'
    BY <1>1, <1>2, SameAccounts
  <1>6. ASSUME ~late' PROVE Submitted'
    <2>1. Submitted
      BY <1>1, <1>6 DEF IInv
    <2>2. /\ \A w \in Uids : changes[w] \in Seq(FittingChanges(w)')
          /\ main \in Seq(FittingTasks')
      BY <1>1, <1>2, <1>3, <2>1, FittingFrame
    <2>3. \A w \in Uids : changes'[w] \in Seq(FittingChanges(w)')
      BY <1>1, <1>2, <2>2, FittingChangeTaken
    <2>4. ScreenOfUser'
      BY <1>1, <2>1 DEF ScreenOfUser, Top, Submitted
    <2>5. \A w \in Uids : Has(w)' => accounts'[w].password \in confirmed'[w]
      BY <1>1, <2>1 DEF Submitted, Has
    <2> QED BY <1>1, <2>2, <2>3, <2>4, <2>5 DEF Submitted
  <1> QED BY <1>4, <1>5, <1>6 DEF IInv

LEMMA RunSavedKeeps == IInv /\ main # <<>> /\ RunSaved => IInv'
  <1> SUFFICES ASSUME IInv, main # <<>>, RunSaved PROVE IInv'
    OBVIOUS
  <1> DEFINE t == Head(main)
             v == t.view
             x == [view |-> v, uid |-> views[v].user, email |-> views[v].email,
                   photo |-> views[v].photo, stored |-> FALSE]
             p == Change("password", views[v].password, v)
  <1>1. /\ t.kind = "saved" /\ main' = Tail(main) /\ uploads' = uploads \cup {x}
        /\ changes' = IF current = None \/ views[v].password = Empty THEN changes
                      ELSE [changes EXCEPT ![current] = Append(@, p)]
        /\ UNCHANGED <<accounts, current, creating, confirmed, views, open, loads,
                       blobs, docs, queue, acts, attempt, late>>
    BY DEF RunSaved, Upload, screen, profile
  <1>2. Typed /\ InOrder /\ Known
    BY DEF IInv
  <1>3. t \in Tasks
    BY <1>2, PopSeq DEF Typed
  <1>4. v \in ViewIndex /\ v \in Nat /\ views[v].user \in Uids
    BY <1>1, <1>2, <1>3, ViewFields DEF Tasks, TaskType
  <1>a. PICK who \in Uids : who = views[v].user
    BY <1>4
  <1>5. /\ who \in Uids /\ Has(who) /\ views[v].password \in Passwords \cup {Empty}
        /\ views[v].email \in Emails \cup {Empty}
        /\ views[v].photo \in Photos \cup {Placeholder}
    BY <1>2, <1>4, <1>a, Constants, ViewFields
  <1>6. Grown /\ \A u \in Uids : ChangesOf(u)' = ChangesOf(u)
    BY <1>1 DEF Grown, Has, ViewIndex, ChangesOf
  <1> HIDE DEF t, v
  <1>7. x \in Uploads'
    <2>1. accounts'[who] # NoAccount
      BY <1>1, <1>5 DEF Has
    <2> QED BY <1>4, <1>5, <1>a, <2>1 DEF Uploads, UploadType, Has
  <1>8. current # None /\ views[v].password # Empty =>
          current \in Uids /\ p \in ChangesOf(current) /\ p \in ChangeType
    <2>1. current # None => current \in Uids /\ Has(current)
      BY <1>2 DEF Typed, Known
    <2> QED BY <1>4, <1>5, <2>1 DEF ChangesOf, ChangeType, Change
  <1>9. p.op = "password" /\ p.value = views[v].password
    BY DEF Change
  <1> HIDE DEF x, p
  <1>10. Typed'
    <2>1. main' \in Seq(Tasks') /\ uploads' \in SUBSET Uploads'
      BY <1>1, <1>2, <1>6, <1>7, Frame, PopSeq
    <2>2. /\ changes' \in [Uids -> Seq(ChangeType)]
          /\ \A u \in Uids : changes'[u] \in Seq(ChangesOf(u)')
      <3>1. CASE current = None \/ views[v].password = Empty
        BY <1>1, <1>2, <1>6, <3>1 DEF Typed
      <3>2. CASE ~(current = None \/ views[v].password = Empty)
        <4>1. /\ current \in Uids /\ Append(changes[current], p) \in Seq(ChangeType)
              /\ Append(changes[current], p) \in Seq(ChangesOf(current))
          BY <1>2, <1>8, <3>2, PushSeq DEF Typed
        <4>2. changes' = [changes EXCEPT ![current] = Append(changes[current], p)]
          BY <1>1, <3>2
        <4> QED BY <1>2, <1>6, <4>1, <4>2 DEF Typed
      <3> QED BY <3>1, <3>2
    <2> QED BY <1>1, <1>2, <1>6, <2>1, <2>2, Frame DEF Typed
  <1>11. InOrder' /\ Known'
    BY <1>1, <1>2, SameAccounts
  <1>12. ASSUME ~late' PROVE Submitted'
    <2>1. Submitted
      BY <1>1, <1>12 DEF IInv
    <2>2. /\ \A u \in Uids : changes[u] \in Seq(FittingChanges(u)')
          /\ main \in Seq(FittingTasks')
      BY <1>1, <1>2, <1>6, <2>1, FittingFrame
    <2>3. main' \in Seq(FittingTasks')
      BY <1>1, <2>2, PopSeq
    <2>4. \A u \in Uids : changes'[u] \in Seq(FittingChanges(u)')
      <3>1. CASE current = None \/ views[v].password = Empty
        BY <1>1, <2>2, <3>1
      <3>2. CASE ~(current = None \/ views[v].password = Empty)
        <4>1. t \in FittingTasks
          BY <2>1, PopSeq DEF Submitted, t
        <4>2. Fits(v)
          BY <1>1, <4>1 DEF FittingTasks, v
        <4>3. current = who /\ views[v].password \in confirmed'[who]
          BY <1>1, <1>a, <3>2, <4>2 DEF Fits
        <4>4. p \in FittingChanges(who)'
          BY <1>1, <1>5, <1>6, <1>8, <1>9, <3>2, <4>3 DEF FittingChanges
        <4>5. Append(changes[who], p) \in Seq(FittingChanges(who)')
          BY <1>5, <2>2, <4>4, PushSeq
        <4>6. changes' = [changes EXCEPT ![who] = Append(changes[who], p)]
          BY <1>1, <3>2, <4>3
        <4> QED BY <1>2, <1>5, <2>2, <4>5, <4>6 DEF Typed
      <3> QED BY <3>1, <3>2
    <2>5. ScreenOfUser'
      BY <1>1, <2>1 DEF ScreenOfUser, Top, Submitted
    <2>6. \A u \in Uids : Has(u)' => accounts'[u].password \in confirmed'[u]
      BY <1>1, <2>1 DEF Submitted, Has
    <2> QED BY <1>1, <2>3, <2>4, <2>5, <2>6 DEF Submitted
  <1> QED BY <1>10, <1>11, <1>12 DEF IInv

-----------------------------------------------------------------------------
(***************************************************************************)
(* Every step keeps the invariant: photos, documents, sessions             *)
(***************************************************************************)

\* The submitted passwords, with no view, account or change touched.
LEMMA SubmittedKept ==
    ASSUME Typed, Submitted, Grown, UNCHANGED <<accounts, views, changes, main, confirmed>>,
           SaveUnderWay => current' \in {None, current}, ScreenOfUser'
    PROVE  Submitted'
  <1>1. \A v \in ViewIndex : views'[v].password = views[v].password
    OBVIOUS
  <1>2. /\ \A u \in Uids : changes[u] \in Seq(FittingChanges(u)')
        /\ main \in Seq(FittingTasks')
    BY <1>1, FittingFrame
  <1>3. \A u \in Uids : Has(u)' => accounts'[u].password \in confirmed'[u]
    BY DEF Submitted, Has
  <1> QED BY <1>2, <1>3 DEF Submitted

LEMMA PutCompletesKeeps ==
    ASSUME IInv, NEW x \in uploads, PutCompletes(x) PROVE IInv'
  <1> DEFINE y == [x EXCEPT !.stored = TRUE]
  <1>1. /\ uploads' = (uploads \ {x}) \cup {y}
        /\ blobs' = [blobs EXCEPT ![x.uid] = x.photo]
        /\ UNCHANGED <<accounts, current, creating, changes, confirmed, views, open,
                       loads, main, docs, queue, acts, attempt, late>>
    BY DEF PutCompletes, auth, screen
  <1>2. Typed /\ InOrder /\ Known
    BY DEF IInv
  <1>3. x \in UploadType /\ Has(x.uid) /\ x.uid \in Uids
        /\ x.photo \in Photos \cup {Placeholder} /\ x.photo # None
    BY <1>2, Constants DEF Typed, Uploads, UploadType
  <1>4. blobs' \in [Uids -> Photos \cup {Placeholder, None}] /\ blobs'[x.uid] = x.photo
        /\ \A u \in Uids \ {x.uid} : blobs'[u] = blobs[u]
    BY <1>1, <1>2, <1>3 DEF Typed
  <1>5. Grown
    BY <1>1, <1>3, <1>4 DEF Grown, Has, ViewIndex
  <1>6. y \in UploadType /\ y.uid = x.uid
    BY <1>3 DEF UploadType
  <1> HIDE DEF y
  <1>7. y \in Uploads'
    BY <1>1, <1>3, <1>4, <1>6 DEF Uploads, Has
  <1>8. Typed'
    <2>1. uploads' \in SUBSET Uploads'
      BY <1>1, <1>2, <1>5, <1>7, Frame
    <2> QED BY <1>1, <1>2, <1>4, <1>5, <2>1, Frame DEF Typed
  <1>9. InOrder' /\ Known'
    BY <1>1, <1>2, <1>5 DEF InOrder, Known, Has, Grown
  <1>10. ~late' => Submitted'
    <2>1. Submitted => ScreenOfUser'
      BY <1>1 DEF Submitted, ScreenOfUser, Top
    <2> QED BY <1>1, <1>2, <1>5, <2>1, SubmittedKept DEF IInv
  <1> QED BY <1>8, <1>9, <1>10 DEF IInv

LEMMA URLArrivesKeeps ==
    ASSUME IInv, NEW x \in uploads, URLArrives(x) PROVE IInv'
  <1> DEFINE w == [uid |-> x.uid, email |-> x.email]
  <1>1. /\ x.stored /\ uploads' = uploads \ {x}
        /\ queue' = [queue EXCEPT ![current] = Append(@, w)]
        /\ UNCHANGED <<accounts, current, creating, changes, confirmed, views, open,
                       loads, main, blobs, docs, acts, attempt, late>>
    BY DEF URLArrives, Save, auth, screen
  <1>2. Typed /\ InOrder /\ Known
    BY DEF IInv
  <1>3. w \in Writes
    BY <1>1, <1>2 DEF Typed, Uploads, UploadType, Writes, WriteType
  <1> HIDE DEF w
  <1>4. Grown /\ Writes' = Writes
    BY <1>1 DEF Grown, Has, ViewIndex, Writes
  <1>5. Typed'
    <2>1. Append(queue[current], w) \in Seq(Writes)
      BY <1>2, <1>3, PushSeq DEF Typed
    <2>2. queue' = [queue EXCEPT ![current] = Append(queue[current], w)]
      BY <1>1
    <2>3. queue' \in [Uids \cup {None} -> Seq(Writes')]
      BY <1>2, <1>4, <2>1, <2>2 DEF Typed
    <2>4. uploads' \in SUBSET Uploads'
      BY <1>1, <1>2, <1>4, Frame
    <2> QED BY <1>1, <1>2, <1>4, <2>3, <2>4, Frame DEF Typed
  <1>6. InOrder' /\ Known'
    BY <1>1, <1>2, SameAccounts
  <1>7. ~late' => Submitted'
    BY <1>1, <1>2, SubmittedFrame DEF IInv
  <1> QED BY <1>5, <1>6, <1>7 DEF IInv

LEMMA UploadFailsKeeps ==
    ASSUME IInv, NEW x \in uploads, UploadFails(x) PROVE IInv'
  <1>1. /\ uploads' = uploads \ {x} /\ acts' = acts + 1
        /\ attempt' = [attempt EXCEPT !.clean = @ /\ ~TRUE]
        /\ UNCHANGED <<accounts, current, creating, changes, confirmed, views, open,
                       loads, main, blobs, docs, queue, late>>
    BY DEF UploadFails, Act, SpoilIf, auth, screen, profile
  <1>2. Typed /\ InOrder /\ Known
    BY DEF IInv
  <1>3. Grown
    BY <1>1 DEF Grown, Has, ViewIndex
  <1>4. Typed'
    <2>0. acts' \in Nat
      BY <1>1, <1>2 DEF Typed
    <2>1. attempt' \in Attempt
      BY <1>1, <1>2 DEF Typed, Attempt
    <2>2. uploads' \in SUBSET Uploads'
      BY <1>1, <1>2, <1>3, Frame
    <2> QED BY <1>1, <1>2, <1>3, <2>0, <2>1, <2>2, Frame DEF Typed
  <1>5. InOrder' /\ Known'
    BY <1>1, <1>2, SameAccounts
  <1>6. ~late' => Submitted'
    BY <1>1, <1>2, SubmittedFrame DEF IInv
  <1> QED BY <1>4, <1>5, <1>6 DEF IInv

LEMMA CommitKeeps == IInv /\ Commit => IInv'
  <1> SUFFICES ASSUME IInv, Commit PROVE IInv'
    OBVIOUS
  <1> DEFINE w == Head(queue[current])
  <1>1. /\ queue[current] # <<>> /\ docs' = [docs EXCEPT ![w.uid] = w.email]
        /\ queue' = [queue EXCEPT ![current] = Tail(@)]
        /\ UNCHANGED <<accounts, current, creating, changes, confirmed, views, open,
                       loads, main, uploads, blobs, acts, attempt, late>>
    BY DEF Commit, auth, screen
  <1>2. Typed /\ InOrder /\ Known
    BY DEF IInv
  <1>3. w \in Writes /\ Tail(queue[current]) \in Seq(Writes)
    BY <1>1, <1>2, PopSeq DEF Typed
  <1>4. /\ w.uid \in Uids /\ w.email \in Emails \cup {Empty} /\ Has(w.uid)
        /\ blobs[w.uid] # None
    BY <1>3 DEF Writes, WriteType
  <1> HIDE DEF w
  <1>5. Grown /\ Writes' = Writes
    BY <1>1 DEF Grown, Has, ViewIndex, Writes
  <1>6. Typed'
    <2>1. docs' \in [Uids -> Emails \cup {Empty, None}]
      BY <1>1, <1>2, <1>4 DEF Typed
    <2>2. queue' \in [Uids \cup {None} -> Seq(Writes')]
      BY <1>1, <1>2, <1>3, <1>5 DEF Typed
    <2> QED BY <1>1, <1>2, <1>5, <2>1, <2>2, Frame DEF Typed
  <1>7. InOrder'
    BY <1>1, <1>2 DEF InOrder, Has
  <1>8. Known'
    BY <1>1, <1>2, <1>4 DEF Known, Has, Typed
  <1>9. ~late' => Submitted'
    BY <1>1, <1>2, SubmittedFrame DEF IInv
  <1> QED BY <1>6, <1>7, <1>8, <1>9 DEF IInv

LEMMA SignOutButtonKeeps == IInv /\ SignOutButton => IInv'
  <1> SUFFICES ASSUME IInv, SignOutButton PROVE IInv'
    OBVIOUS
  <1>1. /\ current' = None /\ open' = FALSE
        /\ attempt' = [attempt EXCEPT !.clean = @ /\ ~(creating # {} \/ main # <<>>)]
        /\ UNCHANGED <<accounts, creating, changes, confirmed, views, loads, main,
                       uploads, blobs, docs, queue, acts, late>>
    BY DEF SignOutButton, SpoilIf, profile
  <1>2. Typed /\ InOrder /\ Known
    BY DEF IInv
  <1>3. Grown
    BY <1>1 DEF Grown, Has, ViewIndex
  <1>4. Typed'
    <2>1. attempt' \in Attempt
      BY <1>1, <1>2 DEF Typed, Attempt
    <2> QED BY <1>1, <1>2, <1>3, <2>1, Frame DEF Typed
  <1>5. InOrder' /\ Known'
    BY <1>1, <1>2 DEF InOrder, Known, Has
  <1>6. ~late' => Submitted'
    <2>1. ScreenOfUser'
      BY <1>1 DEF ScreenOfUser
    <2> QED BY <1>1, <1>2, <1>3, <2>1, SubmittedKept DEF IInv
  <1> QED BY <1>4, <1>5, <1>6 DEF IInv

LEMMA LogInHandlerKeeps ==
    ASSUME IInv, NEW u \in Uids, LogInHandler(u) PROVE IInv'
  <1>1. /\ ~open /\ accounts[u] # NoAccount /\ current' = u /\ acts' = acts + 1
        /\ attempt' = [attempt EXCEPT !.clean = @ /\ ~(creating # {} \/ main # <<>>)]
        /\ late' = (late \/ SaveUnderWay)
        /\ UNCHANGED <<accounts, creating, changes, confirmed, views, open, loads, main,
                       uploads, blobs, docs, queue>>
    BY DEF LogInHandler, Act, SpoilIf, screen, profile
  <1>2. Typed /\ InOrder /\ Known
    BY DEF IInv
  <1>3. Grown
    BY <1>1 DEF Grown, Has, ViewIndex
  <1>4. Typed'
    <2>1. attempt' \in Attempt
      BY <1>1, <1>2 DEF Typed, Attempt
    <2>2. late' \in BOOLEAN /\ acts' \in Nat
      BY <1>1, <1>2 DEF Typed
    <2> QED BY <1>1, <1>2, <1>3, <2>1, <2>2, Frame DEF Typed
  <1>5. InOrder' /\ Known'
    BY <1>1, <1>2 DEF InOrder, Known, Has
  <1>6. ~late' => Submitted'
    <2>1. ScreenOfUser'
      BY <1>1 DEF ScreenOfUser
    <2> QED BY <1>1, <1>2, <1>3, <2>1, SubmittedKept DEF IInv
  <1> QED BY <1>4, <1>5, <1>6 DEF IInv

LEMMA RestartKeeps == IInv /\ Restart => IInv'
  <1> SUFFICES ASSUME IInv, Restart PROVE IInv'
    OBVIOUS
  <1>1. /\ views' = <<>> /\ open' = FALSE /\ creating' = {} /\ loads' = {}
        /\ changes' = [u \in Uids |-> <<>>] /\ main' = <<>> /\ uploads' = {}
        /\ acts' = acts + 1
        /\ attempt' = [attempt EXCEPT !.clean = @ /\ ~(HandlerPending \/ uploads # {})]
        /\ UNCHANGED <<accounts, current, confirmed, blobs, docs, queue, late>>
    BY DEF Restart, Act, SpoilIf, profile
  <1>2. Typed /\ InOrder /\ Known
    BY DEF IInv
  <1>3. Typed'
    <2>1. Writes' = Writes
      BY <1>1 DEF Writes, Has
    <2>0. acts' \in Nat
      BY <1>1, <1>2 DEF Typed
    <2>2. attempt' \in Attempt
      BY <1>1, <1>2 DEF Typed, Attempt
    <2>3. /\ changes' \in [Uids -> Seq(ChangeType)]
          /\ \A u \in Uids : changes'[u] \in Seq(ChangesOf(u)')
          /\ views' \in Seq(Views') /\ main' \in Seq(Tasks')
      BY <1>1
    <2> QED BY <1>1, <1>2, <2>0, <2>1, <2>2, <2>3 DEF Typed
  <1>4. InOrder' /\ Known'
    BY <1>1, <1>2, SameAccounts
  <1>5. ASSUME ~late' PROVE Submitted'
    <2>1. Submitted
      BY <1>1, <1>5 DEF IInv
    <2>2. /\ \A u \in Uids : changes'[u] \in Seq(FittingChanges(u)')
          /\ main' \in Seq(FittingTasks')
      BY <1>1
    <2>3. ScreenOfUser'
      BY <1>1 DEF ScreenOfUser
    <2>4. \A u \in Uids : Has(u)' => accounts'[u].password \in confirmed'[u]
      BY <1>1, <2>1 DEF Submitted, Has
    <2> QED BY <2>2, <2>3, <2>4 DEF Submitted
  <1> QED BY <1>3, <1>4, <1>5 DEF IInv

-----------------------------------------------------------------------------
(***************************************************************************)
(* The invariant holds                                                     *)
(***************************************************************************)
LEMMA InitIInv == Init => IInv
  <1> SUFFICES ASSUME Init PROVE IInv
    OBVIOUS
  <1>1. /\ accounts = [u \in Uids |-> NoAccount] /\ current = None
        /\ views = <<>> /\ open = FALSE /\ creating = {} /\ loads = {}
        /\ changes = [u \in Uids |-> <<>>] /\ main = <<>> /\ uploads = {}
        /\ blobs = [u \in Uids |-> None] /\ docs = [u \in Uids |-> None]
        /\ queue = [w \in Uids \cup {None} |-> <<>>] /\ acts = 0
        /\ confirmed = [u \in Uids |-> {}] /\ late = FALSE
        /\ attempt = [clean |-> FALSE, uid |-> None, photo |-> Placeholder]
    BY DEF Init
  <1>2. Typed
    <2>1. /\ accounts \in [Uids -> Account] /\ current \in Uids \cup {None}
          /\ views \in Seq(Views) /\ open \in BOOLEAN /\ (open => views # <<>>)
          /\ creating \in SUBSET Calls /\ \A v \in loads : IsMembers(v)
      <3>1. accounts \in [Uids -> Account]
        BY <1>1 DEF Account
      <3>2. current \in Uids \cup {None} /\ views \in Seq(Views)
        BY <1>1
      <3>3. open \in BOOLEAN /\ ~open /\ creating \in SUBSET Calls
        BY <1>1
      <3>4. \A v \in loads : IsMembers(v)
        BY <1>1
      <3> QED BY <3>1, <3>2, <3>3, <3>4
    <2>2. /\ changes \in [Uids -> Seq(ChangeType)]
          /\ \A u \in Uids : changes[u] \in Seq(ChangesOf(u))
          /\ main \in Seq(Tasks) /\ uploads \in SUBSET Uploads
      BY <1>1
    <2>3. /\ blobs \in [Uids -> Photos \cup {Placeholder, None}]
          /\ docs \in [Uids -> Emails \cup {Empty, None}]
          /\ queue \in [Uids \cup {None} -> Seq(Writes)]
      BY <1>1
    <2>4. /\ acts \in Nat /\ confirmed \in [Uids -> SUBSET Passwords]
          /\ attempt \in Attempt /\ late \in BOOLEAN
      BY <1>1 DEF Attempt
    <2> QED BY <2>1, <2>2, <2>3, <2>4 DEF Typed
  <1>3. InOrder /\ Known
    BY <1>1 DEF InOrder, Known, Has
  <1>4. Submitted
    BY <1>1 DEF Submitted, Has, ScreenOfUser
  <1> QED BY <1>2, <1>3, <1>4 DEF IInv

LEMMA NextIInv == IInv /\ [Next]_vars => IInv'
  <1> SUFFICES ASSUME IInv, [Next]_vars PROVE IInv'
    OBVIOUS
  <1>1. CASE UNCHANGED vars
    <2>1. UNCHANGED <<accounts, current, creating, changes, confirmed, views, open,
                      loads, main, uploads, blobs, docs, queue, acts, attempt, late>>
      BY <1>1 DEF vars, auth, screen, profile
    <2>2. Typed /\ InOrder /\ Known
      BY DEF IInv
    <2>3. Grown
      BY <2>1 DEF Grown, Has, ViewIndex
    <2>4. Typed'
      BY <2>1, <2>2, <2>3, Frame DEF Typed
    <2>5. InOrder' /\ Known'
      BY <2>1, <2>2, SameAccounts
    <2>6. ~late' => Submitted'
      BY <2>1, <2>2, SubmittedFrame DEF IInv
    <2> QED BY <2>4, <2>5, <2>6 DEF IInv
  <1>2. CASE OpenAccount
    BY <1>2, OpenAccountKeeps
  <1>3. CASE CancelButton
    BY <1>3, CancelButtonKeeps
  <1>4. CASE HandleSignUp
    BY <1>4, HandleSignUpKeeps
  <1>5. CASE SaveButton
    BY <1>5, SaveButtonKeeps
  <1>6. CASE SignOutButton
    BY <1>6, SignOutButtonKeeps
  <1>7. CASE open /\ \E view \in Edited \ {views[Top]} : Edit(view)
    BY <1>7, EditKeeps
  <1>8. CASE \E v \in loads : LoadAnswered(v)
    BY <1>8, LoadAnsweredKeeps
  <1>9. CASE \E c \in creating : CreateSucceeds(c) \/ CreateFails(c)
    BY <1>9, CreateSucceedsKeeps, CreateFailsKeeps
  <1>10. CASE \E u \in Uids : ChangeSucceeds(u) \/ ChangeFails(u) \/ LogInHandler(u)
    BY <1>10, ChangeSucceedsKeeps, ChangeFailsKeeps, LogInHandlerKeeps
  <1>11. CASE \E x \in uploads : PutCompletes(x) \/ URLArrives(x) \/ UploadFails(x)
    BY <1>11, PutCompletesKeeps, URLArrivesKeeps, UploadFailsKeeps
  <1>12. CASE RunMain
    BY <1>12, RunLoadedKeeps, RunCreatedKeeps, RunSavedKeeps DEF RunMain
  <1>13. CASE Commit
    BY <1>13, CommitKeeps
  <1>14. CASE Restart
    BY <1>14, RestartKeeps
  <1> QED BY <1>1, <1>2, <1>3, <1>4, <1>5, <1>6, <1>7, <1>8, <1>9, <1>10, <1>11, <1>12,
             <1>13, <1>14 DEF Next

LEMMA IInvHolds == Spec => []IInv
  BY InitIInv, NextIInv, PTL DEF Spec

LEMMA TypesInIInv == IInv => TypeOK
  <1> SUFFICES ASSUME Typed PROVE TypeOK
    BY DEF IInv
  <1>1. \A v \in ViewIndex : views[v] \in View
    BY ViewFields DEF Views
  <1>2. views \in Seq(View)
    BY <1>1, ElementsSeq DEF Typed, ViewIndex
  <1>3. \A c \in creating : c.email \in Emails /\ c.password \in Passwords
    BY DEF Typed, Calls, CallType
  <1>4. \A v \in loads : views[v].user # None
    BY DEF Typed, IsMembers
  <1>5. ASSUME NEW u \in Uids, NEW c \in Range(changes[u])
        PROVE  IF c.op = "email" THEN c.value \in Emails ELSE c.value \in Passwords
    <2>1. c \in ChangeType
      BY DEF Typed, Range
    <2> QED BY <2>1 DEF ChangeType
  <1>6. ASSUME NEW t \in Range(main) PROVE t.view \in 1 .. Len(views)
    <2>1. t \in Tasks
      BY DEF Typed, Range
    <2> QED BY <2>1 DEF Tasks, ViewIndex
  <1>7. \A x \in uploads : x.uid \in Uids /\ x.email \in Emails \cup {Empty}
    BY DEF Typed, Uploads, UploadType
  <1>8. ASSUME NEW w \in DOMAIN queue, NEW x \in Range(queue[w])
        PROVE  x.uid \in Uids /\ x.email \in Emails \cup {Empty}
    <2>1. x \in Writes
      BY DEF Typed, Range
    <2> QED BY <2>1 DEF Writes, WriteType
  <1> QED BY <1>2, <1>3, <1>4, <1>5, <1>6, <1>7, <1>8 DEF TypeOK, Typed

\* Every state holds values of the program's types, whatever the number of
\* accounts and of fields' values.
THEOREM TypeCorrect == Spec => []TypeOK
  BY IInvHolds, TypesInIInv, PTL

\* saveProfile comes after downloadURL, so a Users document always leads to a
\* photo in Storage and to an account, whatever fails, overlaps or restarts.
THEOREM ProfilesHavePhotos == Spec => []ProfileHasPhoto
  <1>1. IInv => ProfileHasPhoto
    BY DEF IInv, Known, ProfileHasPhoto, Has
  <1> QED BY <1>1, IInvHolds, PTL

\* The password that the handler of updateEmail reads from the screen again is
\* one submitted for the account it is set for, as long as neither the field
\* nor the user signed in changes under a save, nor the latter under a
\* member's screen.
THEOREM PasswordsAreSubmitted == Spec => []PasswordAsSubmitted
  <1>1. IInv => PasswordAsSubmitted
    BY DEF IInv, Submitted, PasswordAsSubmitted, Has
  <1> QED BY <1>1, IInvHolds, PTL

-----------------------------------------------------------------------------
(***************************************************************************)
(* The way of an attempt that nothing interfered with, from Auth over the  *)
(* handler and the upload to the document. It is at one place only.        *)
(***************************************************************************)
NoEmail(q) == \A i \in 1 .. Len(q) : q[i].op # "email"

OnlyLoaded == \A i \in 1 .. Len(main) : main[i].kind = "loaded"

NothingQueued == \A w \in Uids \cup {None} : queue[w] = <<>>

\* The email that Auth gave the account.
Email == accounts[attempt.uid].email

\* View v shows the email and the photo that account u is to have.
Shown(v, u, email) ==
    views[v].user = u /\ views[v].email = email /\ views[v].photo = attempt.photo

\* At most one change of an email is asked for, after all other changes.
EmailsLast ==
    \A u \in Uids : \A i \in 1 .. Len(changes[u]) : changes[u][i].op = "email" =>
        /\ i = Len(changes[u])
        /\ Shown(changes[u][i].view, u, changes[u][i].value)
        /\ \A w \in Uids \ {u} : NoEmail(changes[w])

\* Auth is asked, for an account or for a change; or it has refused.
Asked ==
    /\ attempt.uid = None /\ OnlyLoaded /\ uploads = {} /\ NothingQueued /\ EmailsLast
    /\ \/ creating = {}
       \/ /\ \A u \in Uids : NoEmail(changes[u])
          /\ \E c \in creating : creating = {c} /\ views[c.view].photo = attempt.photo

Answered ==
    attempt.uid \in Uids /\ creating = {} /\ \A u \in Uids : NoEmail(changes[u])

\* The handler that is to upload the photo.
IsHandler(t) ==
    \/ /\ t.kind = "created" /\ t.email = Email
       /\ current = attempt.uid /\ views[t.view].photo = attempt.photo
    \/ t.kind = "saved" /\ Shown(t.view, attempt.uid, Email)

Handled ==
    /\ Answered /\ uploads = {} /\ NothingQueued
    /\ \E i \in 1 .. Len(main) :
          /\ IsHandler(main[i])
          /\ \A j \in 1 .. Len(main) : j # i => main[j].kind = "loaded"

Uploading ==
    /\ Answered /\ OnlyLoaded /\ NothingQueued
    /\ \E x \in uploads :
          /\ uploads = {x}
          /\ x.uid = attempt.uid /\ x.email = Email /\ x.photo = attempt.photo
          /\ x.stored => blobs[x.uid] = x.photo

Stored ==
    Answered /\ OnlyLoaded /\ uploads = {} /\ blobs[attempt.uid] = attempt.photo

Saved ==
    /\ Stored
    /\ \E w \in Uids \cup {None} :
          /\ Len(queue[w]) = 1
          /\ queue[w][1].uid = attempt.uid /\ queue[w][1].email = Email
          /\ \A v \in Uids \cup {None} : v # w => queue[v] = <<>>

Done == Stored /\ NothingQueued /\ docs[attempt.uid] = Email

OnItsWay == Asked \/ Handled \/ Uploading \/ Saved \/ Done

Followed == attempt.clean => OnItsWay

LEMMA Popped ==
    ASSUME NEW S, NEW q \in Seq(S), q # <<>>
    PROVE  /\ Head(q) = q[1] /\ Len(q) \in Nat \ {0} /\ Len(Tail(q)) = Len(q) - 1
           /\ \A i \in 1 .. Len(q) - 1 : Tail(q)[i] = q[i + 1]
  OBVIOUS

LEMMA Single ==
    ASSUME NEW S, NEW q \in Seq(S), Len(q) = 1
    PROVE  Tail(q) = <<>>
  <1>1. q = <<q[1]>>
    OBVIOUS
  <1>2. Tail(<<q[1]>>) = <<>>
    OBVIOUS
  <1> QED BY <1>1, <1>2

LEMMA WayTypes ==
    ASSUME Typed
    PROVE  /\ main \in Seq(TaskType) /\ Len(main) \in Nat
           /\ \A i \in 1 .. Len(main) : main[i].view \in ViewIndex
           /\ \A u \in Uids : changes[u] \in Seq(ChangeType) /\ Len(changes[u]) \in Nat
           /\ \A u \in Uids : \A i \in 1 .. Len(changes[u]) :
                 changes[u][i].view \in ViewIndex
           /\ attempt.uid \in Uids \cup {None} /\ None \notin Uids
           /\ attempt.clean \in BOOLEAN
           /\ \A c \in creating : c.view \in ViewIndex
           /\ queue \in [Uids \cup {None} -> Seq(Writes)]
           /\ current \in Uids \cup {None}
  <1>1. main \in Seq(Tasks) /\ \A t \in Tasks : t \in TaskType /\ t.view \in ViewIndex
    BY DEF Typed, Tasks
  <1>2. main \in Seq(TaskType)
    BY <1>1, LargerSeq
  <1>3. Len(main) \in Nat /\ \A i \in 1 .. Len(main) : main[i].view \in ViewIndex
    <2>1. \A i \in 1 .. Len(main) : main[i] \in Tasks
      BY <1>1
    <2> QED BY <1>1, <2>1
  <1>4. ASSUME NEW u \in Uids
        PROVE  /\ changes[u] \in Seq(ChangeType) /\ Len(changes[u]) \in Nat
               /\ \A i \in 1 .. Len(changes[u]) : changes[u][i].view \in ViewIndex
    <2>1. changes[u] \in Seq(ChangesOf(u)) /\ changes[u] \in Seq(ChangeType)
      BY DEF Typed
    <2>2. \A i \in 1 .. Len(changes[u]) : changes[u][i] \in ChangesOf(u)
      BY <2>1
    <2> QED BY <2>1, <2>2 DEF ChangesOf
  <1>5. attempt.uid \in Uids \cup {None} /\ attempt.clean \in BOOLEAN
    BY DEF Typed, Attempt
  <1> QED BY <1>2, <1>3, <1>4, <1>5, Constants DEF Typed, Calls

\* With nothing under way an attempt can begin.
LEMMA QuietIs ==
    ASSUME Typed, Quiet
    PROVE  /\ creating = {} /\ main = <<>> /\ uploads = {} /\ NothingQueued
           /\ \A u \in Uids : changes[u] = <<>>
           /\ OnlyLoaded /\ \A u \in Uids : NoEmail(changes[u])
  <1>1. /\ creating = {} /\ main = <<>> /\ uploads = {}
        /\ \A u \in Uids : changes[u] = <<>>
        /\ \A w \in Uids \cup {None} : queue[w] = <<>>
    BY DEF Quiet, HandlerPending, Typed
  <1> QED BY <1>1 DEF NothingQueued, OnlyLoaded, NoEmail

\* A step beside the way: views may change once no handler is pending, and the
\* user signed in once none is queued.
LEMMA BesideTheWay ==
    ASSUME Typed, OnItsWay, attempt'.uid = attempt.uid, attempt'.photo = attempt.photo,
           UNCHANGED <<accounts, creating, changes, main, uploads, blobs, docs, queue>>,
           ~HandlerPending \/ \A v \in ViewIndex : views'[v] = views[v],
           main = <<>> \/ current' = current
    PROVE  OnItsWay'
  <1>1. Answered => Answered'
    BY DEF Answered
  <1>2. CASE Asked
    <2>1. EmailsLast'
      <3>1. ASSUME NEW u \in Uids, NEW i \in 1 .. Len(changes[u]),
                   changes[u][i].op = "email"
            PROVE  /\ i = Len(changes[u])
                   /\ Shown(changes[u][i].view, u, changes[u][i].value)'
                   /\ \A w \in Uids \ {u} : NoEmail(changes[w])
        <4>1. /\ i = Len(changes[u])
              /\ Shown(changes[u][i].view, u, changes[u][i].value)
              /\ \A w \in Uids \ {u} : NoEmail(changes[w])
          BY <1>2, <3>1 DEF Asked, EmailsLast
        <4>2. changes[u] # <<>>
          OBVIOUS
        <4>3. views'[changes[u][i].view] = views[changes[u][i].view]
          BY <4>2, WayTypes DEF HandlerPending
        <4> QED BY <4>1, <4>3 DEF Shown
      <3> QED BY <3>1 DEF EmailsLast
    <2>2. ASSUME NEW c \in creating, views[c.view].photo = attempt.photo
          PROVE  views'[c.view].photo = attempt'.photo
      BY <2>2, WayTypes DEF HandlerPending
    <2>3. OnlyLoaded' /\ NothingQueued'
      BY <1>2 DEF Asked, OnlyLoaded, NothingQueued
    <2>4. Asked'
      BY <1>2, <2>1, <2>2, <2>3 DEF Asked
    <2> QED BY <2>4 DEF OnItsWay
  <1>3. CASE Handled
    <2>1. PICK i \in 1 .. Len(main) :
             /\ IsHandler(main[i])
             /\ \A j \in 1 .. Len(main) : j # i => main[j].kind = "loaded"
      BY <1>3 DEF Handled
    <2>2. /\ current' = current
          /\ views'[main[i].view] = views[main[i].view]
      <3>1. main # <<>>
        BY <2>1
      <3> QED BY <3>1, WayTypes DEF HandlerPending
    <2>3. IsHandler(main[i])'
      BY <2>1, <2>2 DEF IsHandler, Shown, Email
    <2>4. Handled'
      BY <1>1, <1>3, <2>1, <2>3 DEF Handled, NothingQueued
    <2> QED BY <2>4 DEF OnItsWay
  <1>4. CASE Uploading
    BY <1>1, <1>4 DEF OnItsWay, Uploading, OnlyLoaded, NothingQueued, Email
  <1>5. CASE Saved
    BY <1>1, <1>5 DEF OnItsWay, Saved, Stored, OnlyLoaded, Email
  <1>6. CASE Done
    BY <1>1, <1>6 DEF OnItsWay, Done, Stored, OnlyLoaded, NothingQueued, Email
  <1> QED BY <1>2, <1>3, <1>4, <1>5, <1>6 DEF OnItsWay

\* SpoilIf.
LEMMA Spoiled ==
    ASSUME Typed, NEW condition, SpoilIf(condition)
    PROVE  /\ attempt'.uid = attempt.uid /\ attempt'.photo = attempt.photo
           /\ attempt'.clean => attempt.clean /\ ~condition
  BY DEF SpoilIf, Typed, Attempt

LEMMA ScreensFollow ==
    ASSUME IInv, Followed,
           \/ OpenAccount \/ CancelButton \/ SignOutButton
           \/ \E view \in Edited : Edit(view)
           \/ \E u \in Uids : LogInHandler(u)
           \/ UNCHANGED vars
    PROVE  Followed'
  <1>1. Typed
    BY DEF IInv
  <1> SUFFICES ASSUME attempt'.clean PROVE OnItsWay'
    BY DEF Followed
  <1>2. CASE OpenAccount
    <2>1. UNCHANGED <<accounts, current, creating, changes, main, uploads, blobs, docs,
                      queue, attempt>>
      BY <1>2 DEF OpenAccount, auth, profile
    <2>2. \A v \in ViewIndex : views'[v] = views[v]
      <3>1. PICK new : views' = Append(views, new)
        BY <1>2 DEF OpenAccount
      <3>2. views \in Seq(Views)
        BY <1>1 DEF Typed
      <3>3. \A v \in 1 .. Len(views) : Append(views, new)[v] = views[v]
        BY <3>2
      <3> QED BY <3>1, <3>3 DEF ViewIndex
    <2> QED BY <1>1, <2>1, <2>2, BesideTheWay DEF Followed
  <1>3. CASE CancelButton \/ UNCHANGED vars
    <2>1. UNCHANGED <<accounts, current, creating, changes, main, uploads, blobs, docs,
                      queue, attempt, views>>
      BY <1>3 DEF CancelButton, auth, profile, vars, screen
    <2> QED BY <1>1, <2>1, BesideTheWay DEF Followed
  <1>4. CASE SignOutButton
    <2>1. /\ SpoilIf(creating # {} \/ main # <<>>)
          /\ UNCHANGED <<accounts, creating, changes, main, uploads, blobs, docs, queue, views>>
      BY <1>4 DEF SignOutButton, profile
    <2>2. /\ attempt'.uid = attempt.uid /\ attempt'.photo = attempt.photo
          /\ attempt.clean /\ creating = {} /\ main = <<>>
      BY <1>1, <2>1, Spoiled
    <2> QED BY <1>1, <2>1, <2>2, BesideTheWay DEF Followed
  <1>5. CASE \E view \in Edited : Edit(view)
    <2>1. /\ SpoilIf(HandlerPending)
          /\ UNCHANGED <<accounts, current, creating, changes, main, uploads, blobs, docs,
                         queue>>
      BY <1>5 DEF Edit, auth, profile
    <2>2. /\ attempt'.uid = attempt.uid /\ attempt'.photo = attempt.photo
          /\ attempt.clean /\ ~HandlerPending
      BY <1>1, <2>1, Spoiled
    <2> QED BY <1>1, <2>1, <2>2, BesideTheWay DEF Followed
  <1>6. CASE \E u \in Uids : LogInHandler(u)
    <2>1. /\ SpoilIf(creating # {} \/ main # <<>>)
          /\ UNCHANGED <<accounts, creating, changes, main, uploads, blobs, docs, queue, views>>
      BY <1>6 DEF LogInHandler, profile, screen
    <2>2. /\ attempt'.uid = attempt.uid /\ attempt'.photo = attempt.photo
          /\ attempt.clean /\ creating = {} /\ main = <<>>
      BY <1>1, <2>1, Spoiled
    <2> QED BY <1>1, <2>1, <2>2, BesideTheWay DEF Followed
  <1> QED BY <1>2, <1>3, <1>4, <1>5, <1>6

\* Loads answered come and go behind the handler.
LEMMA LoadsFollow ==
    ASSUME IInv, Followed,
           (\E v \in loads : LoadAnswered(v)) \/ (main # <<>> /\ RunLoaded)
    PROVE  Followed'
  <1>1. Typed
    BY DEF IInv
  <1> SUFFICES ASSUME attempt'.clean PROVE OnItsWay'
    BY DEF Followed
  <1>2. /\ attempt'.uid = attempt.uid /\ attempt'.photo = attempt.photo
        /\ attempt.clean /\ views' = views
        /\ UNCHANGED <<accounts, current, creating, changes, uploads, blobs, docs, queue>>
    <2>1. CASE \E v \in loads : LoadAnswered(v)
      BY <2>1 DEF LoadAnswered, auth, screen, profile
    <2>2. CASE RunLoaded
      <3>1. /\ SpoilIf(views' # views)
            /\ UNCHANGED <<accounts, current, creating, changes, uploads, blobs, docs, queue>>
        BY <2>2 DEF RunLoaded, auth, profile
      <3>2. /\ attempt'.uid = attempt.uid /\ attempt'.photo = attempt.photo
            /\ attempt.clean /\ ~(views' # views)
        BY <1>1, <3>1, Spoiled
      <3> QED BY <3>1, <3>2
    <2> QED BY <2>1, <2>2
  <1>3. /\ Len(main) \in Nat /\ Len(main') \in Nat
        /\ \/ /\ Len(main') = Len(main) + 1
              /\ \A i \in 1 .. Len(main) : main'[i] = main[i]
              /\ main'[Len(main) + 1].kind = "loaded"
           \/ /\ Len(main') = Len(main) - 1 /\ main[1].kind = "loaded"
              /\ \A i \in 1 .. Len(main) - 1 : main'[i] = main[i + 1]
    <2>1. main \in Seq(TaskType) /\ main \in Seq(Tasks)
      BY <1>1, WayTypes DEF Typed
    <2>2. ASSUME NEW v \in loads, LoadAnswered(v)
          PROVE  /\ Len(main) \in Nat /\ Len(main') = Len(main) + 1
                 /\ \A i \in 1 .. Len(main) : main'[i] = main[i]
                 /\ main'[Len(main) + 1].kind = "loaded"
      <3> DEFINE t == [kind |-> "loaded", view |-> v, email |-> Seen(views[v].user)]
      <3>1. main' = Append(main, t) /\ t.kind = "loaded"
        BY <2>2 DEF LoadAnswered
      <3> HIDE DEF t
      <3>2. /\ Len(Append(main, t)) = Len(main) + 1 /\ Len(main) \in Nat
            /\ Append(main, t)[Len(main) + 1] = t
            /\ \A i \in 1 .. Len(main) : Append(main, t)[i] = main[i]
        BY <2>1
      <3> QED BY <3>1, <3>2
    <2>3. ASSUME main # <<>>, RunLoaded
          PROVE  /\ Len(main) \in Nat \ {0} /\ Len(main') = Len(main) - 1
                 /\ main[1].kind = "loaded"
                 /\ \A i \in 1 .. Len(main) - 1 : main'[i] = main[i + 1]
      <3>1. main' = Tail(main) /\ Head(main).kind = "loaded"
        BY <2>3 DEF RunLoaded
      <3>2. /\ Head(main) = main[1] /\ Len(main) \in Nat \ {0}
            /\ Len(Tail(main)) = Len(main) - 1
            /\ \A i \in 1 .. Len(main) - 1 : Tail(main)[i] = main[i + 1]
        BY <2>1, <2>3, Popped
      <3> QED BY <3>1, <3>2
    <2> QED BY <2>2, <2>3
  <1>4. OnlyLoaded => OnlyLoaded'
    <2> SUFFICES ASSUME OnlyLoaded, NEW i \in 1 .. Len(main')
                 PROVE  main'[i].kind = "loaded"
      BY DEF OnlyLoaded
    <2>1. CASE Len(main') = Len(main) + 1
      BY <1>3, <2>1 DEF OnlyLoaded
    <2>2. CASE Len(main') = Len(main) - 1
      <3>1. i + 1 \in 1 .. Len(main) /\ main'[i] = main[i + 1]
        BY <1>3, <2>2
      <3> QED BY <3>1 DEF OnlyLoaded
    <2> QED BY <1>3, <2>1, <2>2
  <1>5. (Answered => Answered') /\ (NothingQueued => NothingQueued')
    BY <1>2 DEF Answered, NothingQueued
  <1>6. CASE Asked
    <2>1. EmailsLast'
      BY <1>2, <1>6 DEF Asked, EmailsLast, Shown
    <2>2. Asked'
      BY <1>2, <1>4, <1>5, <1>6, <2>1 DEF Asked
    <2> QED BY <2>2 DEF OnItsWay
  <1>7. CASE Handled
    <2>1. PICK i \in 1 .. Len(main) :
             /\ IsHandler(main[i])
             /\ \A j \in 1 .. Len(main) : j # i => main[j].kind = "loaded"
      BY <1>7 DEF Handled
    <2>2. \E k \in 1 .. Len(main') :
             /\ main'[k] = main[i]
             /\ \A j \in 1 .. Len(main') : j # k => main'[j].kind = "loaded"
      <3>1. CASE Len(main') = Len(main) + 1
        <4>1. i \in 1 .. Len(main') /\ main'[i] = main[i]
          BY <1>3, <3>1
        <4>2. \A j \in 1 .. Len(main') : j # i => main'[j].kind = "loaded"
          <5>1. \A j \in 1 .. Len(main') : j \in 1 .. Len(main) \/ j = Len(main) + 1
            BY <1>3, <3>1
          <5> QED BY <1>3, <2>1, <3>1, <5>1
        <4> QED BY <4>1, <4>2
      <3>2. CASE Len(main') = Len(main) - 1
        <4>1. main[1].kind = "loaded" /\ \A j \in 1 .. Len(main) - 1 : main'[j] = main[j + 1]
          BY <1>3, <3>2
        <4>2. i # 1
          BY <2>1, <4>1 DEF IsHandler
        <4>3. i - 1 \in 1 .. Len(main') /\ (i - 1) + 1 = i
          BY <1>3, <3>2, <4>2
        <4>4. main'[i - 1] = main[i]
          BY <3>2, <4>1, <4>3
        <4>5. ASSUME NEW j \in 1 .. Len(main'), j # i - 1
              PROVE  main'[j].kind = "loaded"
          <5>1. j + 1 \in 1 .. Len(main) /\ j + 1 # i /\ j \in 1 .. Len(main) - 1
            BY <1>3, <3>2, <4>5
          <5> QED BY <2>1, <4>1, <5>1
        <4> QED BY <4>3, <4>4, <4>5
      <3> QED BY <1>3, <3>1, <3>2
    <2>3. \A k \in 1 .. Len(main') : main'[k] = main[i] => IsHandler(main[k])'
      BY <1>2, <2>1 DEF IsHandler, Shown, Email
    <2>4. Handled'
      BY <1>2, <1>5, <1>7, <2>2, <2>3 DEF Handled
    <2> QED BY <2>4 DEF OnItsWay
  <1>8. CASE Uploading
    BY <1>2, <1>4, <1>5, <1>8 DEF OnItsWay, Uploading, Email
  <1>9. CASE Saved
    BY <1>2, <1>4, <1>5, <1>9 DEF OnItsWay, Saved, Stored, Email
  <1>10. CASE Done
    BY <1>2, <1>4, <1>5, <1>10 DEF OnItsWay, Done, Stored, Email
  <1> QED BY <1>2, <1>6, <1>7, <1>8, <1>9, <1>10 DEF OnItsWay, Followed

\* An attempt begins with nothing else under way, or interferes.
LEMMA HandleSignUpFollows == ASSUME IInv, HandleSignUp PROVE Followed'
  <1> DEFINE c == [view |-> Top, tap |-> acts, email |-> views[Top].email,
                   password |-> views[Top].password]
  <1>1. /\ creating' = creating \cup {c}
        /\ attempt' = [clean |-> Quiet, uid |-> None, photo |-> views[Top].photo]
        /\ UNCHANGED <<changes, views, main, uploads, queue>>
    BY DEF HandleSignUp, screen, profile
  <1> SUFFICES ASSUME Quiet PROVE Asked'
    BY <1>1 DEF Followed, OnItsWay
  <1>2. /\ creating = {} /\ main = <<>> /\ uploads = {} /\ NothingQueued
        /\ \A u \in Uids : NoEmail(changes[u])
        /\ OnlyLoaded
    BY QuietIs DEF IInv
  <1>3. creating' = {c} /\ c.view = Top
    BY <1>1, <1>2
  <1>4. EmailsLast'
    BY <1>1, <1>2 DEF EmailsLast, NoEmail
  <1> HIDE DEF c
  <1>5. OnlyLoaded' /\ NothingQueued'
    BY <1>1, <1>2 DEF OnlyLoaded, NothingQueued
  <1>6. \E d \in creating' : creating' = {d} /\ views'[d.view].photo = attempt'.photo
    BY <1>1, <1>3
  <1> QED BY <1>1, <1>2, <1>4, <1>5, <1>6 DEF Asked

LEMMA Pair ==
    ASSUME NEW a, NEW b
    PROVE  LET q == <<>> \o <<a>> \o <<b>> IN Len(q) = 2 /\ q[1] = a /\ q[2] = b
  <1>1. <<>> \o <<a>> = <<a>>
    OBVIOUS
  <1>2. <<a>> \in Seq({a, b}) /\ <<b>> \in Seq({a, b})
    OBVIOUS
  <1>3. /\ Len(<<a>> \o <<b>>) = 2 /\ (<<a>> \o <<b>>)[1] = a
        /\ (<<a>> \o <<b>>)[2] = b
    BY <1>2
  <1> QED BY <1>1, <1>3

LEMMA SaveButtonFollows == ASSUME IInv, SaveButton PROVE Followed'
  <1> DEFINE form == views[Top]
             p == Change("password", form.password, Top)
             e == Change("email", form.email, Top)
             ps == IF form.password = Empty THEN <<>> ELSE <<p>>
             es == IF form.email = Empty THEN <<>> ELSE <<e>>
  <1>1. /\ changes' = [changes EXCEPT ![form.user] = @ \o ps \o es]
        /\ attempt' = [clean |-> Quiet, uid |-> None, photo |-> form.photo]
        /\ UNCHANGED <<creating, views, main, uploads, queue>>
    BY DEF SaveButton, screen, profile
  <1> SUFFICES ASSUME Quiet PROVE Asked'
    BY <1>1 DEF Followed, OnItsWay
  <1>2. /\ creating = {} /\ main = <<>> /\ uploads = {} /\ NothingQueued
        /\ \A u \in Uids : changes[u] = <<>>
        /\ OnlyLoaded
    BY QuietIs DEF IInv
  <1>3. form.user \in Uids /\ changes \in [Uids -> Seq(ChangeType)]
    BY TopIsView, ViewFields DEF IInv, SaveButton, Typed
  <1>4. /\ changes'[form.user] = <<>> \o ps \o es
        /\ \A u \in Uids \ {form.user} : changes'[u] = <<>>
    BY <1>1, <1>2, <1>3
  <1>5. /\ p.op = "password" /\ e.op = "email" /\ e.view = Top /\ e.value = form.email
    BY DEF Change
  <1> DEFINE q == <<>> \o ps \o es
  <1>6. \A i \in 1 .. Len(q) : q[i].op = "email" => i = Len(q) /\ q[i] = e
    <2> HIDE DEF form, p, e
    <2>1. CASE ps = <<>> /\ es = <<>>
      BY <2>1
    <2>2. CASE ps = <<>> /\ es = <<e>>
      BY <2>2
    <2>3. CASE ps = <<p>> /\ es = <<>>
      BY <1>5, <2>3
    <2>4. CASE ps = <<p>> /\ es = <<e>>
      <3>1. q = <<>> \o <<p>> \o <<e>>
        BY <2>4
      <3> HIDE DEF ps, es, q
      <3>2. Len(q) = 2 /\ q[1] = p /\ q[2] = e
        BY <3>1, Pair
      <3> QED BY <1>5, <3>2
    <2> QED BY <2>1, <2>2, <2>3, <2>4
  <1> HIDE DEF q
  <1>7. EmailsLast'
    <2> SUFFICES ASSUME NEW u \in Uids, NEW i \in 1 .. Len(changes'[u]),
                        changes'[u][i].op = "email"
                 PROVE  /\ i = Len(changes'[u])
                        /\ Shown(changes[u][i].view, u, changes[u][i].value)'
                        /\ \A w \in Uids \ {u} : NoEmail(changes'[w])
      BY DEF EmailsLast
    <2>1. u = form.user /\ changes'[u] = q
      BY <1>4 DEF q
    <2>2. i = Len(changes'[u]) /\ changes'[u][i] = e
      BY <1>6, <2>1
    <2>3. \A w \in Uids \ {u} : NoEmail(changes'[w])
      BY <1>4, <2>1 DEF NoEmail
    <2>4. Shown(changes[u][i].view, u, changes[u][i].value)'
      <3>1. changes'[u][i].view = Top /\ changes'[u][i].value = form.email
        BY <1>5, <2>2
      <3>2. /\ views'[Top].user = u /\ views'[Top].email = form.email
            /\ views'[Top].photo = attempt'.photo
        BY <1>1, <2>1
      <3> QED BY <3>1, <3>2 DEF Shown
    <2> QED BY <2>2, <2>3, <2>4
  <1>8. OnlyLoaded' /\ NothingQueued'
    BY <1>1, <1>2 DEF OnlyLoaded, NothingQueued
  <1> QED BY <1>1, <1>2, <1>7, <1>8 DEF Asked


\* Auth takes up a sign-up, and its handler is the one of the attempt.
LEMMA CreateFollows ==
    ASSUME IInv, Followed, NEW c \in creating, CreateSucceeds(c) \/ CreateFails(c)
    PROVE  Followed'
  <1>1. Typed
    BY DEF IInv
  <1> SUFFICES ASSUME attempt'.clean PROVE OnItsWay'
    BY DEF Followed
  <1>2. attempt.clean
    BY <1>1, Spoiled DEF CreateSucceeds, CreateFails, Typed, Attempt
  <1>3. Asked
    BY <1>2 DEF Followed, OnItsWay, Answered, Handled, Uploading, Stored, Saved, Done
  <1>4. /\ attempt.uid = None /\ OnlyLoaded /\ uploads = {} /\ NothingQueued
        /\ \A u \in Uids : NoEmail(changes[u])
        /\ creating = {c} /\ views[c.view].photo = attempt.photo
    BY <1>3 DEF Asked
  <1>5. /\ UNCHANGED <<changes, views, uploads, queue>>
        /\ creating' = {}
    BY <1>4 DEF CreateSucceeds, CreateFails, screen, profile
  <1>6. CASE CreateFails(c)
    <2>1. main' = main /\ attempt' = attempt
      BY <1>6 DEF CreateFails
    <2>2. OnlyLoaded' /\ NothingQueued' /\ EmailsLast'
      BY <1>4, <1>5, <2>1 DEF OnlyLoaded, NothingQueued, EmailsLast, NoEmail
    <2> QED BY <1>4, <1>5, <2>1, <2>2 DEF OnItsWay, Asked
  <1>7. CASE CreateSucceeds(c)
    <2> DEFINE uid == NextUid
               t == [kind |-> "created", view |-> c.view, email |-> c.email]
    <2>1. /\ uid \in Uids
          /\ accounts' = [accounts EXCEPT ![uid] =
                              [email |-> c.email, password |-> c.password]]
      BY <1>7 DEF CreateSucceeds
    <2>2. ~SpoilIf(TRUE)
      BY <1>1, Spoiled
    <2>3. current' = uid /\ main' = Append(main, t)
          /\ attempt' = [attempt EXCEPT !.uid = uid]
      BY <1>7, <2>2 DEF CreateSucceeds
    <2>4. t.kind = "created" /\ t.view = c.view /\ t.email = c.email
      OBVIOUS
    <2>5. attempt'.uid = uid /\ attempt'.photo = attempt.photo
      BY <1>1, <2>3 DEF Typed, Attempt
    <2>6. accounts'[uid].email = c.email
      BY <1>1, <2>1 DEF Typed
    <2> HIDE DEF uid, t
    <2>7. /\ Len(main) \in Nat /\ Len(main') = Len(main) + 1
          /\ main'[Len(main) + 1] = t
          /\ \A i \in 1 .. Len(main) : main'[i] = main[i]
      <3>1. main \in Seq(Tasks)
        BY <1>1 DEF Typed
      <3>2. /\ Len(Append(main, t)) = Len(main) + 1 /\ Len(main) \in Nat
            /\ Append(main, t)[Len(main) + 1] = t
            /\ \A i \in 1 .. Len(main) : Append(main, t)[i] = main[i]
        BY <3>1
      <3> QED BY <2>3, <3>2
    <2>8. Answered'
      BY <1>4, <1>5, <2>1, <2>5 DEF Answered
    <2>9. NothingQueued'
      BY <1>4, <1>5 DEF NothingQueued
    <2>10. IsHandler(t)'
      BY <1>4, <1>5, <2>3, <2>4, <2>5, <2>6 DEF IsHandler, Email
    <2>11. PICK k \in Nat : k = Len(main) + 1
      BY <2>7
    <2>12. /\ k \in 1 .. Len(main') /\ IsHandler(main[k])'
           /\ \A j \in 1 .. Len(main') : j # k => main'[j].kind = "loaded"
      <3>1. k \in 1 .. Len(main') /\ main'[k] = t
        BY <2>7, <2>11
      <3>2. IsHandler(main[k])'
        BY <2>10, <3>1
      <3>3. ASSUME NEW j \in 1 .. Len(main'), j # k PROVE main'[j].kind = "loaded"
        <4>1. j \in 1 .. Len(main)
          BY <2>7, <2>11, <3>3
        <4> QED BY <1>4, <2>7, <4>1 DEF OnlyLoaded
      <3> QED BY <3>1, <3>2, <3>3
    <2>13. Handled'
      BY <1>4, <1>5, <2>8, <2>9, <2>12 DEF Handled
    <2> QED BY <2>13 DEF OnItsWay
  <1> QED BY <1>6, <1>7

\* What a queue says of emails is said of its tail, unless the head is one.
LEMMA TailFollows ==
    ASSUME Typed, OnItsWay, NEW u \in Uids, changes[u] # <<>>,
           changes' = [changes EXCEPT ![u] = Tail(@)],
           UNCHANGED <<current, creating, views, main, uploads, blobs, docs, queue, attempt>>,
           attempt.uid \in Uids => Email' = Email
    PROVE  OnItsWay'
  <1>1. \A w \in Uids : changes'[w] = IF w = u THEN Tail(changes[u]) ELSE changes[w]
    BY DEF Typed
  <1>2. /\ Len(changes[u]) \in Nat \ {0} /\ Len(Tail(changes[u])) = Len(changes[u]) - 1
        /\ \A i \in 1 .. Len(changes[u]) - 1 : Tail(changes[u])[i] = changes[u][i + 1]
    <2>1. changes[u] \in Seq(ChangeType)
      BY WayTypes
    <2> QED BY <2>1, Popped
  <1>3. ASSUME NEW w \in Uids, NEW i \in 1 .. Len(changes'[w])
        PROVE  \E k \in 1 .. Len(changes[w]) :
                  /\ changes'[w][i] = changes[w][k]
                  /\ k = Len(changes[w]) <=> i = Len(changes'[w])
    <2>1. CASE w = u
      <3>1. PICK n \in Nat : n = Len(changes[u])
        BY <1>2
      <3>2. changes'[w] = Tail(changes[u]) /\ Len(changes'[w]) = n - 1
        BY <1>1, <1>2, <2>1, <3>1
      <3>3. i \in 1 .. n - 1
        BY <3>2
      <3>4. i + 1 \in 1 .. n /\ (i + 1 = n <=> i = n - 1)
        BY <3>3
      <3>5. changes'[w][i] = changes[w][i + 1]
        BY <1>2, <2>1, <3>1, <3>2, <3>3
      <3> QED BY <2>1, <3>1, <3>2, <3>4, <3>5
    <2>2. CASE w # u
      BY <1>1, <2>2
    <2> QED BY <2>1, <2>2
  <1>4. ASSUME NEW w \in Uids, NoEmail(changes[w]) PROVE NoEmail(changes'[w])
    BY <1>3, <1>4 DEF NoEmail
  <1>5. Answered => Answered'
    BY <1>4 DEF Answered
  <1>6. CASE Asked
    <2>1. ASSUME NEW w \in Uids, NEW i \in 1 .. Len(changes'[w]),
                 changes'[w][i].op = "email"
          PROVE  /\ i = Len(changes'[w])
                 /\ Shown(changes[w][i].view, w, changes[w][i].value)'
                 /\ \A v \in Uids \ {w} : NoEmail(changes'[v])
      <3>1. PICK k \in 1 .. Len(changes[w]) :
               /\ changes'[w][i] = changes[w][k]
               /\ k = Len(changes[w]) <=> i = Len(changes'[w])
        BY <1>3
      <3>2. /\ k = Len(changes[w])
            /\ Shown(changes[w][k].view, w, changes[w][k].value)
            /\ \A v \in Uids \ {w} : NoEmail(changes[v])
        BY <1>6, <2>1, <3>1 DEF Asked, EmailsLast
      <3>3. Shown(changes[w][i].view, w, changes[w][i].value)'
        BY <3>1, <3>2 DEF Shown
      <3> QED BY <1>4, <3>1, <3>2, <3>3
    <2>2. EmailsLast'
      BY <2>1 DEF EmailsLast
    <2> QED BY <1>4, <1>6, <2>2 DEF OnItsWay, Asked, OnlyLoaded, NothingQueued
  <1>7. CASE Handled
    <2>1. Email' = Email
      BY <1>7 DEF Handled, Answered
    <2>2. Handled'
      BY <1>5, <1>7, <2>1 DEF Handled, IsHandler, Shown, NothingQueued
    <2> QED BY <2>2 DEF OnItsWay
  <1>8. CASE Uploading
    BY <1>5, <1>8 DEF OnItsWay, Uploading, Answered, OnlyLoaded, NothingQueued
  <1>9. CASE Saved
    BY <1>5, <1>9 DEF OnItsWay, Saved, Stored, Answered, OnlyLoaded
  <1>10. CASE Done
    BY <1>5, <1>10 DEF OnItsWay, Done, Stored, Answered, OnlyLoaded, NothingQueued
  <1> QED BY <1>6, <1>7, <1>8, <1>9, <1>10 DEF OnItsWay

\* The change of an email is taken up last, and its handler is the one of the
\* attempt; one refused is no attempt any more.
LEMMA ChangeFollows ==
    ASSUME IInv, Followed, NEW u \in Uids, ChangeSucceeds(u) \/ ChangeFails(u)
    PROVE  Followed'
  <1>1. Typed
    BY DEF IInv
  <1> SUFFICES ASSUME attempt'.clean PROVE OnItsWay'
    BY DEF Followed
  <1> DEFINE change == Head(changes[u])
  <1>2. /\ changes[u] # <<>> /\ changes' = [changes EXCEPT ![u] = Tail(@)]
        /\ UNCHANGED <<current, creating, views, uploads, blobs, docs, queue>>
    BY DEF ChangeSucceeds, ChangeFails, screen, profile
  <1>3. attempt.clean
    BY <1>1, Spoiled DEF ChangeSucceeds, ChangeFails, Typed, Attempt
  <1>4. OnItsWay
    BY <1>3 DEF Followed
  <1>5. /\ changes[u] \in Seq(ChangeType) /\ Len(changes[u]) \in Nat \ {0}
        /\ change = changes[u][1]
        /\ Len(Tail(changes[u])) = Len(changes[u]) - 1
    <2>1. changes[u] \in Seq(ChangeType)
      BY <1>1, WayTypes
    <2> QED BY <1>2, <2>1, Popped
  <1> HIDE DEF change
  <1>6. CASE ChangeFails(u)
    <2>1. UNCHANGED <<main, attempt, accounts>>
      BY <1>6 DEF ChangeFails
    <2> QED BY <1>1, <1>2, <1>4, <2>1, TailFollows DEF Email
  <1>7. CASE ChangeSucceeds(u) /\ change.op # "email"
    <2>1. /\ UNCHANGED <<main, attempt>>
          /\ accounts' = [accounts EXCEPT ![u].password = change.value]
      BY <1>7 DEF ChangeSucceeds, change
    <2>2. \A w \in Uids : accounts'[w].email = accounts[w].email
      BY <1>1, <2>1 DEF Typed, Account, NoAccount
    <2> QED BY <1>1, <1>2, <1>4, <2>1, <2>2, TailFollows DEF Email
  <1>8. CASE ChangeSucceeds(u) /\ change.op = "email"
    <2> DEFINE t == [kind |-> "saved", view |-> change.view]
    <2>1. ~SpoilIf(TRUE)
      BY <1>1, Spoiled
    <2>2. /\ accounts' = [accounts EXCEPT ![u].email = change.value]
          /\ main' = Append(main, t) /\ attempt' = [attempt EXCEPT !.uid = u]
      BY <1>8, <2>1 DEF ChangeSucceeds, change
    <2>3. /\ 1 \in 1 .. Len(changes[u]) /\ changes[u][1].op = "email"
      BY <1>5, <1>8
    <2>4. ~NoEmail(changes[u])
      BY <2>3 DEF NoEmail
    <2>5. Asked
      BY <1>4, <2>4 DEF OnItsWay, Handled, Uploading, Saved, Done, Stored, Answered
    <2>6. /\ Len(changes[u]) = 1 /\ Shown(change.view, u, change.value)
          /\ \A w \in Uids \ {u} : NoEmail(changes[w])
          /\ OnlyLoaded /\ uploads = {} /\ NothingQueued /\ creating = {}
      BY <1>5, <2>3, <2>4, <2>5 DEF Asked, EmailsLast
    <2>7. \A w \in Uids : NoEmail(changes'[w])
      <3>1. \A w \in Uids : changes'[w] = IF w = u THEN Tail(changes[u]) ELSE changes[w]
        BY <1>1, <1>2 DEF Typed
      <3>2. Len(changes'[u]) = 0
        <4>1. Len(Tail(changes[u])) = 0
          BY <1>5, <2>6
        <4>2. changes'[u] = Tail(changes[u])
          BY <3>1
        <4> QED BY <4>1, <4>2
      <3>3. 1 .. Len(changes'[u]) = {}
        BY <3>2
      <3>4. NoEmail(changes'[u])
        BY <3>3 DEF NoEmail
      <3> QED BY <2>6, <3>1, <3>4
    <2>8. attempt'.uid = u /\ attempt'.photo = attempt.photo
      BY <1>1, <2>2 DEF Typed, Attempt
    <2>9. accounts'[u].email = change.value
      BY <1>1, <2>2 DEF Typed, Account, NoAccount
    <2>10. t.kind = "saved" /\ t.view = change.view
      OBVIOUS
    <2> HIDE DEF t
    <2>11. /\ Len(main) \in Nat /\ Len(main') = Len(main) + 1
           /\ main'[Len(main) + 1] = t
           /\ \A i \in 1 .. Len(main) : main'[i] = main[i]
      <3>1. main \in Seq(Tasks)
        BY <1>1 DEF Typed
      <3>2. /\ Len(Append(main, t)) = Len(main) + 1 /\ Len(main) \in Nat
            /\ Append(main, t)[Len(main) + 1] = t
            /\ \A i \in 1 .. Len(main) : Append(main, t)[i] = main[i]
        BY <3>1
      <3> QED BY <2>2, <3>2
    <2>12. PICK k \in Nat : k = Len(main) + 1
      BY <2>11
    <2>13. /\ k \in 1 .. Len(main') /\ IsHandler(main[k])'
           /\ \A j \in 1 .. Len(main') : j # k => main'[j].kind = "loaded"
      <3>1. k \in 1 .. Len(main') /\ main'[k] = t
        BY <2>11, <2>12
      <3>2. main'[k].kind = "saved" /\ main'[k].view = change.view
        BY <2>10, <3>1
      <3>3. Shown(change.view, u, change.value)
            => /\ views[change.view].user = u /\ views[change.view].email = change.value
               /\ views[change.view].photo = attempt.photo
        BY DEF Shown
      <3>4. /\ views'[main'[k].view].user = attempt'.uid
            /\ views'[main'[k].view].email = accounts'[attempt'.uid].email
            /\ views'[main'[k].view].photo = attempt'.photo
        BY <1>2, <2>6, <2>8, <2>9, <3>2, <3>3
      <3>5. IsHandler(main[k])'
        BY <3>2, <3>4 DEF IsHandler, Shown, Email
      <3>6. ASSUME NEW j \in 1 .. Len(main'), j # k PROVE main'[j].kind = "loaded"
        <4>1. j \in 1 .. Len(main)
          BY <2>11, <2>12, <3>6
        <4> QED BY <2>6, <2>11, <4>1 DEF OnlyLoaded
      <3> QED BY <3>1, <3>5, <3>6
    <2>14. Answered' /\ NothingQueued'
      BY <1>2, <2>6, <2>7, <2>8 DEF Answered, NothingQueued
    <2>15. Handled'
      BY <1>2, <2>6, <2>13, <2>14 DEF Handled
    <2> QED BY <2>15 DEF OnItsWay
  <1> QED BY <1>6, <1>7, <1>8

\* The handler of the attempt runs, and the photo of its screen is uploaded.
LEMMA HandlerFollows ==
    ASSUME IInv, Followed, main # <<>>, RunCreated \/ RunSaved
    PROVE  Followed'
  <1>1. Typed
    BY DEF IInv
  <1> SUFFICES ASSUME attempt'.clean PROVE OnItsWay'
    BY DEF Followed
  <1> DEFINE call == Head(main)
  <1>2. /\ main' = Tail(main) /\ call.kind # "loaded"
        /\ UNCHANGED <<accounts, current, creating, views, blobs, docs, queue, attempt>>
    BY DEF RunCreated, RunSaved, auth, screen, profile
  <1>3. /\ call = main[1] /\ Len(main) \in Nat \ {0} /\ Len(main') = Len(main) - 1
        /\ \A i \in 1 .. Len(main) - 1 : main'[i] = main[i + 1]
    <2>1. main \in Seq(TaskType)
      BY <1>1, WayTypes
    <2> QED BY <1>2, <2>1, Popped
  <1> HIDE DEF call
  <1>4. 1 \in 1 .. Len(main) /\ ~OnlyLoaded
    BY <1>2, <1>3 DEF OnlyLoaded
  <1>5. Handled
    BY <1>2, <1>4 DEF Followed, OnItsWay, Asked, Uploading, Saved, Done, Stored
  <1>6. /\ IsHandler(call)
        /\ \A j \in 1 .. Len(main) : j # 1 => main[j].kind = "loaded"
    <2>1. PICK i \in 1 .. Len(main) :
             /\ IsHandler(main[i])
             /\ \A j \in 1 .. Len(main) : j # i => main[j].kind = "loaded"
      BY <1>5 DEF Handled
    <2>2. i = 1
      BY <1>2, <1>3, <1>4, <2>1
    <2> QED BY <1>3, <2>1, <2>2
  <1>7. OnlyLoaded'
    <2>1. ASSUME NEW i \in 1 .. Len(main') PROVE main'[i].kind = "loaded"
      <3>1. /\ i \in 1 .. Len(main) - 1
            /\ i + 1 \in 1 .. Len(main) /\ i + 1 # 1
        BY <1>3
      <3> QED BY <1>3, <1>6, <3>1
    <2> QED BY <2>1 DEF OnlyLoaded
  <1>8. /\ uploads = {} /\ NothingQueued /\ Answered
        /\ attempt.uid \in Uids /\ attempt.uid # None
        /\ \A w \in Uids : NoEmail(changes[w])
    BY <1>1, <1>5, WayTypes DEF Handled, Answered
  <1>9. \E x \in uploads' :
           /\ uploads' = {x} /\ x.uid = attempt.uid /\ x.email = Email
           /\ x.photo = attempt.photo /\ ~x.stored
    <2> DEFINE x(uid, email) == [view |-> call.view, uid |-> uid, email |-> email,
                                 photo |-> views[call.view].photo, stored |-> FALSE]
    <2>1. CASE RunCreated
      <3>1. /\ call.email = Email /\ current = attempt.uid
            /\ views[call.view].photo = attempt.photo
        BY <1>6, <2>1 DEF IsHandler, RunCreated, call
      <3>2. uploads' = {x(current, call.email)}
        BY <1>8, <2>1, <3>1 DEF RunCreated, Upload, call
      <3> QED BY <3>1, <3>2
    <2>2. CASE RunSaved
      <3>1. Shown(call.view, attempt.uid, Email)
        BY <1>6, <2>2 DEF IsHandler, RunSaved, call
      <3>2. uploads' = {x(views[call.view].user, views[call.view].email)}
        BY <1>8, <2>2 DEF RunSaved, Upload, call
      <3> QED BY <3>1, <3>2 DEF Shown
    <2> QED BY <2>1, <2>2
  <1>10. \A w \in Uids : NoEmail(changes'[w])
    <2>1. CASE changes' = changes
      BY <1>8, <2>1
    <2>2. CASE changes' # changes
      <3> DEFINE p == Change("password", views[call.view].password, call.view)
      <3>1. /\ current \in Uids
            /\ changes' = [changes EXCEPT ![current] = Append(@, p)]
        BY <1>1, <2>2, WayTypes DEF RunCreated, RunSaved, auth, call
      <3>2. p.op # "email"
        BY DEF Change
      <3> HIDE DEF p
      <3>3. \A w \in Uids : changes'[w] = IF w = current THEN Append(changes[w], p)
                                          ELSE changes[w]
        BY <1>1, <3>1 DEF Typed
      <3>4. ASSUME NEW i \in 1 .. Len(Append(changes[current], p))
            PROVE  Append(changes[current], p)[i].op # "email"
        <4>1. changes[current] \in Seq(ChangeType)
          BY <1>1, <3>1, WayTypes
        <4>2. /\ Len(Append(changes[current], p)) = Len(changes[current]) + 1
              /\ Len(changes[current]) \in Nat
              /\ Append(changes[current], p)[Len(changes[current]) + 1] = p
              /\ \A k \in 1 .. Len(changes[current]) :
                    Append(changes[current], p)[k] = changes[current][k]
          BY <4>1
        <4>3. i \in 1 .. Len(changes[current]) \/ i = Len(changes[current]) + 1
          BY <4>2
        <4> QED BY <1>8, <3>1, <3>2, <4>2, <4>3 DEF NoEmail
      <3> QED BY <1>8, <3>3, <3>4 DEF NoEmail
    <2> QED BY <2>1, <2>2
  <1>11. Answered' /\ NothingQueued'
    BY <1>2, <1>8, <1>10 DEF Answered, NothingQueued
  <1>12. Email' = Email
    BY <1>2 DEF Email
  <1>13. Uploading'
    BY <1>2, <1>7, <1>9, <1>11, <1>12 DEF Uploading
  <1> QED BY <1>13 DEF OnItsWay

\* The photo is stored, and the document is written where it belongs.
LEMMA UploadFollows ==
    ASSUME IInv, Followed, NEW x \in uploads,
           PutCompletes(x) \/ URLArrives(x) \/ UploadFails(x)
    PROVE  Followed'
  <1>1. Typed
    BY DEF IInv
  <1> SUFFICES ASSUME attempt'.clean PROVE OnItsWay'
    BY DEF Followed
  <1>2. ~UploadFails(x)
    BY <1>1, Spoiled DEF UploadFails
  <1>3. UNCHANGED <<accounts, current, creating, changes, views, main, docs, attempt>>
    BY <1>2 DEF PutCompletes, URLArrives, auth, screen
  <1>4. Uploading
    BY <1>3 DEF Followed, OnItsWay, Asked, Handled, Saved, Done, Stored
  <1>5. /\ uploads = {x} /\ x.uid = attempt.uid /\ x.email = Email
        /\ x.photo = attempt.photo
        /\ x.stored => blobs[x.uid] = x.photo
        /\ Answered /\ OnlyLoaded /\ NothingQueued /\ attempt.uid \in Uids
    BY <1>4 DEF Uploading, Answered
  <1>6. Answered' /\ OnlyLoaded' /\ Email' = Email
    BY <1>3, <1>5 DEF Answered, OnlyLoaded, Email
  <1>7. CASE PutCompletes(x)
    <2> DEFINE y == [x EXCEPT !.stored = TRUE]
    <2>1. /\ uploads' = {y} /\ queue' = queue
          /\ blobs' = [blobs EXCEPT ![x.uid] = x.photo]
      BY <1>5, <1>7 DEF PutCompletes
    <2>2. y.uid = x.uid /\ y.email = x.email /\ y.photo = x.photo
      BY <1>1 DEF Typed, Uploads, UploadType
    <2> HIDE DEF y
    <2>3. blobs'[y.uid] = y.photo
      BY <1>1, <1>5, <2>1, <2>2 DEF Typed
    <2>4. NothingQueued'
      BY <1>5, <2>1 DEF NothingQueued
    <2>5. Uploading'
      BY <1>3, <1>5, <1>6, <2>1, <2>2, <2>3, <2>4 DEF Uploading
    <2> QED BY <2>5 DEF OnItsWay
  <1>8. CASE URLArrives(x)
    <2> DEFINE w == [uid |-> x.uid, email |-> x.email]
    <2>1. /\ x.stored /\ uploads' = {} /\ blobs' = blobs
          /\ queue' = [queue EXCEPT ![current] = Append(@, w)]
      BY <1>5, <1>8 DEF URLArrives, Save
    <2>2. w.uid = attempt.uid /\ w.email = Email
      BY <1>5
    <2> HIDE DEF w
    <2>3. current \in Uids \cup {None} /\ queue \in [Uids \cup {None} -> Seq(Writes)]
      BY <1>1, WayTypes
    <2>4. queue'[current] = Append(<<>>, w)
      BY <1>5, <2>1, <2>3 DEF NothingQueued
    <2>5. Len(queue'[current]) = 1 /\ queue'[current][1] = w
      BY <2>4
    <2>6. \A v \in Uids \cup {None} : v # current => queue'[v] = <<>>
      BY <1>5, <2>1, <2>3 DEF NothingQueued
    <2>7. Stored'
      BY <1>3, <1>5, <1>6, <2>1 DEF Stored
    <2>8. \E v \in Uids \cup {None} :
             /\ Len(queue'[v]) = 1
             /\ queue'[v][1].uid = attempt'.uid /\ queue'[v][1].email = Email'
             /\ \A z \in Uids \cup {None} : z # v => queue'[z] = <<>>
      BY <1>3, <1>6, <2>2, <2>3, <2>5, <2>6
    <2>9. Saved'
      BY <2>7, <2>8 DEF Saved
    <2> QED BY <2>9 DEF OnItsWay
  <1> QED BY <1>2, <1>7, <1>8

\* The write of the attempt is the only one.
LEMMA CommitFollows == ASSUME IInv, Followed, Commit PROVE Followed'
  <1>1. Typed
    BY DEF IInv
  <1> SUFFICES ASSUME attempt'.clean PROVE OnItsWay'
    BY DEF Followed
  <1> DEFINE write == Head(queue[current])
  <1>2. /\ queue[current] # <<>>
        /\ docs' = [docs EXCEPT ![write.uid] = write.email]
        /\ queue' = [queue EXCEPT ![current] = Tail(@)]
        /\ UNCHANGED <<accounts, current, creating, changes, views, main, uploads, blobs,
                       attempt>>
    BY DEF Commit, auth, screen
  <1>3. current \in Uids \cup {None} /\ queue \in [Uids \cup {None} -> Seq(Writes)]
    BY <1>1, WayTypes
  <1>4. /\ write = queue[current][1] /\ Len(queue[current]) \in Nat \ {0}
        /\ Len(Tail(queue[current])) = Len(queue[current]) - 1
    <2>1. queue[current] \in Seq(Writes)
      BY <1>3
    <2> QED BY <1>2, <2>1, Popped
  <1> HIDE DEF write
  <1>5. Saved
    BY <1>2, <1>3 DEF Followed, OnItsWay, Asked, Handled, Uploading, Done, NothingQueued
  <1>6. PICK w \in Uids \cup {None} :
           /\ Len(queue[w]) = 1
           /\ queue[w][1].uid = attempt.uid /\ queue[w][1].email = Email
           /\ \A v \in Uids \cup {None} : v # w => queue[v] = <<>>
    BY <1>5 DEF Saved
  <1>7. w = current
    BY <1>2, <1>3, <1>6
  <1>8. attempt.uid \in Uids /\ docs'[attempt.uid] = Email
    <2>1. attempt.uid \in Uids /\ write.uid = attempt.uid /\ write.email = Email
      BY <1>4, <1>5, <1>6, <1>7 DEF Saved, Stored, Answered
    <2> QED BY <1>1, <1>2, <2>1 DEF Typed
  <1>9. NothingQueued'
    <2>1. Tail(queue[current]) = <<>>
      <3>1. queue[current] \in Seq(Writes)
        BY <1>3
      <3>2. Len(queue[current]) = 1
        BY <1>6, <1>7
      <3> QED BY <3>1, <3>2, Single
    <2> QED BY <1>2, <1>3, <1>6, <1>7, <2>1 DEF NothingQueued
  <1>10. Stored' /\ Email' = Email
    BY <1>2, <1>5 DEF Saved, Stored, Answered, OnlyLoaded, Email
  <1>11. Done'
    BY <1>2, <1>8, <1>9, <1>10 DEF Done
  <1> QED BY <1>11 DEF OnItsWay

\* The application ends: what was handed to the client of Firestore is kept,
\* and an attempt that had got less far is interfered with.
LEMMA RestartFollows == ASSUME IInv, Followed, Restart PROVE Followed'
  <1>1. Typed
    BY DEF IInv
  <1> SUFFICES ASSUME attempt'.clean PROVE OnItsWay'
    BY DEF Followed
  <1>2. /\ attempt'.uid = attempt.uid /\ attempt'.photo = attempt.photo
        /\ attempt.clean /\ ~HandlerPending /\ uploads = {}
    BY <1>1, Spoiled DEF Restart
  <1>3. /\ creating' = {} /\ main' = <<>> /\ uploads' = {}
        /\ \A u \in Uids : changes'[u] = <<>>
        /\ UNCHANGED <<accounts, current, blobs, docs, queue>>
    BY DEF Restart, profile
  <1>4. OnlyLoaded' /\ EmailsLast' /\ \A u \in Uids : NoEmail(changes'[u])
    BY <1>3 DEF OnlyLoaded, EmailsLast, NoEmail
  <1>5. Email' = Email
    BY <1>2, <1>3 DEF Email
  <1>6. ASSUME Stored PROVE Stored'
    BY <1>2, <1>3, <1>4, <1>6 DEF Stored, Answered
  <1>7. CASE Asked
    BY <1>2, <1>3, <1>4, <1>7 DEF OnItsWay, Asked, NothingQueued
  <1>8. CASE Saved
    BY <1>2, <1>3, <1>5, <1>6, <1>8 DEF OnItsWay, Saved
  <1>9. CASE Done
    BY <1>2, <1>3, <1>5, <1>6, <1>9 DEF OnItsWay, Done, NothingQueued
  <1>10. ~Handled /\ ~Uploading
    BY <1>2 DEF Handled, Uploading, HandlerPending
  <1> QED BY <1>2, <1>7, <1>8, <1>9, <1>10 DEF Followed, OnItsWay

LEMMA FollowedNext == ASSUME IInv, Followed, [Next]_vars PROVE Followed'
  <1>1. CASE \/ OpenAccount \/ CancelButton \/ SignOutButton
             \/ open /\ \E view \in Edited \ {views[Top]} : Edit(view)
             \/ \E u \in Uids : LogInHandler(u)
             \/ UNCHANGED vars
    BY <1>1, ScreensFollow
  <1>2. CASE \/ \E v \in loads : LoadAnswered(v)
             \/ RunMain
    BY <1>2, LoadsFollow, HandlerFollows DEF RunMain
  <1>3. CASE HandleSignUp \/ SaveButton
    BY <1>3, HandleSignUpFollows, SaveButtonFollows
  <1>4. CASE \E c \in creating : CreateSucceeds(c) \/ CreateFails(c)
    BY <1>4, CreateFollows
  <1>5. CASE \E u \in Uids : ChangeSucceeds(u) \/ ChangeFails(u)
    BY <1>5, ChangeFollows
  <1>6. CASE \E x \in uploads : PutCompletes(x) \/ URLArrives(x) \/ UploadFails(x)
    BY <1>6, UploadFollows
  <1>7. CASE Commit \/ Restart
    BY <1>7, CommitFollows, RestartFollows
  <1> QED BY <1>1, <1>2, <1>3, <1>4, <1>5, <1>6, <1>7 DEF Next

LEMMA DoneIsCurrent == ASSUME IInv, Followed PROVE ProfileIsCurrent
  <1> SUFFICES ASSUME Quiet, attempt.clean, attempt.uid # None PROVE Done
    BY DEF ProfileIsCurrent, Done, Stored, Email
  <1>1. /\ main = <<>> /\ uploads = {} /\ NothingQueued
    BY QuietIs DEF IInv
  <1>2. ~Asked /\ ~Uploading
    BY <1>1 DEF Asked, Uploading
  <1>3. ~Handled
    BY <1>1 DEF Handled
  <1>4. ~Saved
    BY <1>1 DEF Saved, NothingQueued
  <1> QED BY <1>2, <1>3, <1>4 DEF Followed, OnItsWay

\* For every number of accounts, photos and attempts, failures and restarts:
\* an attempt nothing interfered with ends in a profile with the email of the
\* account and the photo of the screen.
THEOREM ProfilesAreCurrent == Spec => []ProfileIsCurrent
  <1>1. Init => Followed
    BY DEF Init, Followed
  <1>2. IInv /\ Followed /\ [Next]_vars => Followed'
    BY FollowedNext
  <1>3. IInv /\ Followed => ProfileIsCurrent
    BY DoneIsCurrent
  <1> QED BY <1>1, <1>2, <1>3, IInvHolds, PTL DEF Spec

=============================================================================
