----------------------------- MODULE UserAccount -----------------------------
(***************************************************************************)
(* Accounts and profiles on one phone: VC_SignUp and VC_Account. A sign-up *)
(* creates an account at Firebase Auth, then uploads the photo, then saves *)
(* the Users document; a change of the account goes to Auth first, and its *)
(* completion handler uploads and saves again, reading the screen anew.    *)
(* VC_SignUp is VC_Account as a guest sees it.                             *)
(*                                                                         *)
(* accounts   per uid, the account at Auth: its email and password         *)
(* current    Auth.auth().currentUser on the phone                         *)
(* views      the view controllers so far, handlers keep the closed ones:  *)
(*            user, and the fields; email stands for the names too         *)
(* open       the last of them is on the screen                            *)
(* creating   createUser calls, and loads the documents fetched by         *)
(*            loadUser, not yet answered                                   *)
(* changes    per uid, FIRUser's queue of account changes                  *)
(* main       completion handlers on the main queue                        *)
(* uploads    profile photos on their way                                  *)
(* blobs      UserProfileImages, by uid                                    *)
(* docs       Users, by uid, at the server: the text fields                *)
(* queue      per user signed in when they were made, or None, the         *)
(*            client's document writes not yet executed: the client keeps   *)
(*            a queue for each and sends that of the user signed in         *)
(* acts       what the user did so far, failures and restarts, for the     *)
(*            bound                                                        *)
(* confirmed, attempt, late                                                *)
(*            per uid, the passwords its user submitted; the last sign-up  *)
(*            or save, whether anything interfered, and the account it     *)
(*            changed; whether the password field or the user signed in    *)
(*            changed under a save, or the latter under a member's screen: *)
(*            only the properties read them                                *)
(***************************************************************************)
EXTENDS Integers, Sequences, SequencesExt, FiniteSets

CONSTANTS
    Emails, Passwords, Photos,
    Empty,        \* an empty field
    Placeholder,  \* the picture "uploadImage"
    None,         \* no user, no document, no file
    MaxAccounts,
    MaxActs

ASSUME AccountAssumption ==
    /\ Empty \notin Emails \cup Passwords
    /\ Placeholder \notin Photos /\ None \notin Photos \cup Emails \cup {Placeholder}
    /\ None \notin Nat
    /\ MaxAccounts \in Nat /\ MaxActs \in Nat

VARIABLES accounts, current, views, open, creating, loads, changes, main, uploads,
          blobs, docs, queue, acts, confirmed, attempt, late

auth == <<accounts, current, creating, changes, confirmed>>
screen == <<views, open>>
profile == <<blobs, docs, queue>>

vars == <<auth, screen, loads, main, uploads, profile, acts, attempt, late>>

-----------------------------------------------------------------------------

Uids == 1 .. MaxAccounts

View == [user : Uids \cup {None}, email : Emails \cup {Empty},
         password : Passwords \cup {Empty}, photo : Photos \cup {Placeholder}]

NoAccount == [email |-> None, password |-> None]

Account == [email : Emails, password : Passwords] \cup {NoAccount}

Attempt == [clean : BOOLEAN, uid : Uids \cup {None},
            photo : Photos \cup {Placeholder}]

TypeOK ==
    /\ accounts \in [Uids -> Account]
    /\ current \in Uids \cup {None}
    /\ views \in Seq(View) /\ open \in BOOLEAN
    /\ \A c \in creating : c.email \in Emails /\ c.password \in Passwords
    /\ \A v \in loads : views[v].user # None
    /\ \A u \in Uids : \A c \in Range(changes[u]) :
            IF c.op = "email" THEN c.value \in Emails ELSE c.value \in Passwords
    /\ \A t \in Range(main) : t.view \in 1 .. Len(views)
    /\ \A x \in uploads : x.uid \in Uids /\ x.email \in Emails \cup {Empty}
    /\ blobs \in [Uids -> Photos \cup {Placeholder, None}]
    /\ docs \in [Uids -> Emails \cup {Empty, None}]
    /\ DOMAIN queue = Uids \cup {None}
    /\ \A w \in DOMAIN queue : \A x \in Range(queue[w]) :
            x.uid \in Uids /\ x.email \in Emails \cup {Empty}
    /\ confirmed \in [Uids -> SUBSET Passwords]
    /\ attempt \in Attempt /\ late \in BOOLEAN

Init ==
    /\ accounts = [u \in Uids |-> NoAccount] /\ current = None
    /\ views = <<>> /\ open = FALSE
    /\ creating = {} /\ loads = {} /\ changes = [u \in Uids |-> <<>>]
    /\ main = <<>> /\ uploads = {}
    /\ blobs = [u \in Uids |-> None] /\ docs = [u \in Uids |-> None]
    /\ queue = [w \in Uids \cup {None} |-> <<>>] /\ acts = 0
    /\ confirmed = [u \in Uids |-> {}] /\ late = FALSE
    /\ attempt = [clean |-> FALSE, uid |-> None, photo |-> Placeholder]

Act == acts < MaxActs /\ acts' = acts + 1

Top == Len(views)

\* A handler that reads the screen is still to run.
HandlerPending ==
    creating # {} \/ main # <<>> \/ \E u \in Uids : changes[u] # <<>>

Quiet ==
    ~HandlerPending /\ uploads = {} /\ \A w \in DOMAIN queue : queue[w] = <<>>

\* A save's change of the email, or its handler, is still to run.
SaveUnderWay ==
    \/ \E u \in Uids : \E c \in Range(changes[u]) : c.op = "email"
    \/ \E t \in Range(main) : t.kind = "saved"

SpoilIf(condition) == attempt' = [attempt EXCEPT !.clean = @ /\ ~condition]

\* The profile document as getDocument reports it, with the writes of the
\* user signed in laid over it.
Seen(u) ==
    LET writes == queue[current]
        own == {i \in 1 .. Len(writes) : writes[i].uid = u}
    IN IF own = {} THEN docs[u] ELSE writes[Max(own)].email

-----------------------------------------------------------------------------

\* A view controller comes up. It keeps the user signed in by then, and for a
\* member viewDidLoad calls loadUser.
OpenAccount ==
    /\ ~open
    /\ Act
    /\ open' = TRUE
    /\ views' = Append(views, [user |-> current, email |-> Empty,
                               password |-> Empty, photo |-> Placeholder])
    /\ loads' = IF current = None THEN loads ELSE loads \cup {Len(views')}
    /\ UNCHANGED <<auth, main, uploads, profile, attempt, late>>

CancelButton ==
    /\ open
    /\ open' = FALSE
    /\ UNCHANGED <<auth, views, loads, main, uploads, profile, acts, attempt, late>>

\* The user types into the fields and may pick a photo.
Edit(view) ==
    /\ open
    /\ Act
    /\ views' = [views EXCEPT ![Top] = view]
    /\ SpoilIf(HandlerPending)
    /\ late' = (late \/ (SaveUnderWay /\ view.password # views[Top].password))
    /\ UNCHANGED <<auth, open, loads, main, uploads, profile>>

\* loadUser is answered; the answer fills the fields when the main queue gets
\* to it, and the photo is fetched on the spot. (A failed fetch is a try!: the
\* application ends, see Restart.)
LoadAnswered(v) ==
    /\ v \in loads
    /\ loads' = loads \ {v}
    /\ main' = Append(main, [kind |-> "loaded", view |-> v,
                             email |-> Seen(views[v].user)])
    /\ UNCHANGED <<auth, screen, uploads, profile, acts, attempt, late>>

RunLoaded ==
    /\ Head(main).kind = "loaded"
    /\ main' = Tail(main)
    /\ LET v == Head(main).view
           photo == blobs[views[v].user]
       IN views' = IF Head(main).email = None THEN views
                   ELSE [views EXCEPT ![v].email = Head(main).email,
                                      ![v].photo = photo]
    /\ SpoilIf(views' # views)
    /\ UNCHANGED <<auth, open, loads, uploads, profile, acts, late>>

-----------------------------------------------------------------------------

\* HandleSignUp: every field is filled and a photo was picked.
HandleSignUp ==
    LET form == views[Top] IN
    /\ open /\ form.user = None
    /\ Empty \notin {form.email, form.password} /\ form.photo # Placeholder
    /\ Act
    /\ creating' = creating \cup
         {[view |-> Top, tap |-> acts, email |-> form.email, password |-> form.password]}
    /\ attempt' = [clean |-> Quiet, uid |-> None, photo |-> form.photo]
    /\ UNCHANGED <<accounts, current, changes, confirmed, screen, loads, main,
                   uploads, profile, late>>

Taken(email) == \E u \in Uids : accounts[u].email = email

NextUid == Cardinality({u \in Uids : accounts[u] # NoAccount}) + 1

\* Auth creates the account and the client signs it in before the handler
\* runs; or the answer is lost on the way.
CreateSucceeds(c) ==
    LET uid == NextUid IN
    /\ c \in creating /\ ~Taken(c.email) /\ uid \in Uids
    /\ creating' = creating \ {c}
    /\ accounts' = [accounts EXCEPT ![uid] =
                        [email |-> c.email, password |-> c.password]]
    /\ confirmed' = [confirmed EXCEPT ![uid] = {c.password}]
    /\ \/ /\ current' = uid
          /\ main' = Append(main, [kind |-> "created", view |-> c.view,
                                   email |-> c.email])
          /\ attempt' = [attempt EXCEPT !.uid = uid]
          /\ late' = (late \/ SaveUnderWay \/ (open /\ views[Top].user # None))
          /\ UNCHANGED acts
       \/ /\ Act
          /\ SpoilIf(TRUE)
          /\ UNCHANGED <<current, main, late>>
    /\ UNCHANGED <<changes, screen, loads, uploads, profile>>

\* An email in use, or no connection: an alert.
CreateFails(c) ==
    /\ c \in creating
    /\ IF Taken(c.email) THEN UNCHANGED acts ELSE Act
    /\ creating' = creating \ {c}
    /\ UNCHANGED <<accounts, current, changes, confirmed, screen, loads, main,
                   uploads, profile, attempt, late>>

Upload(v, uid, email) ==
    uploads \cup {[view |-> v, uid |-> uid, email |-> email,
                   photo |-> views[v].photo, stored |-> FALSE]}

\* Variant of RunCreated: nobody may be signed in.
RunCreatedUnguarded ==
    LET call == Head(main) IN
    /\ call.kind = "created"
    /\ main' = Tail(main)
    /\ uploads' = Upload(call.view, current, call.email)
    /\ open' = (open /\ call.view # Top)
    /\ UNCHANGED <<auth, views, loads, profile, acts, attempt, late>>

\* The handler of createUser: the account is the one signed in by now, the
\* photo the one on the screen by now, the rest is as submitted.
RunCreated ==
    LET call == Head(main) IN
    /\ call.kind = "created"
    /\ main' = Tail(main)
    /\ uploads' = IF current = None THEN uploads
                  ELSE Upload(call.view, current, call.email)
    /\ open' = IF current = None THEN open ELSE open /\ call.view # Top
    /\ UNCHANGED <<auth, views, loads, profile, acts, attempt, late>>

-----------------------------------------------------------------------------

Change(op, value, v) == [op |-> op, value |-> value, view |-> v]

\* The alert of saveButton is answered with Update: Auth is asked for the new
\* password and for the new email, one after the other.
SaveButton ==
    LET form == views[Top]
        password == IF form.password = Empty THEN <<>>
                    ELSE <<Change("password", form.password, Top)>>
        email == IF form.email = Empty THEN <<>>
                 ELSE <<Change("email", form.email, Top)>>
    IN
    /\ open /\ form.user # None
    /\ Act
    /\ changes' = [changes EXCEPT ![form.user] = @ \o password \o email]
    /\ confirmed' = [confirmed EXCEPT ![form.user] = @ \cup ({form.password} \ {Empty})]
    /\ attempt' = [clean |-> Quiet, uid |-> None, photo |-> form.photo]
    /\ UNCHANGED <<accounts, current, creating, screen, loads, main, uploads,
                   profile, late>>

\* Auth makes the change at the head of an account's queue. The handler of an
\* email matters; that of a password prints or alerts. Or the answer is lost.
ChangeSucceeds(u) ==
    LET change == Head(changes[u]) IN
    /\ changes[u] # <<>>
    /\ changes' = [changes EXCEPT ![u] = Tail(@)]
    /\ IF change.op = "email"
       THEN /\ ~Taken(change.value) \/ accounts[u].email = change.value
            /\ accounts' = [accounts EXCEPT ![u].email = change.value]
            /\ \/ /\ main' = Append(main, [kind |-> "saved", view |-> change.view])
                  /\ attempt' = [attempt EXCEPT !.uid = u]
                  /\ UNCHANGED acts
               \/ Act /\ SpoilIf(TRUE) /\ UNCHANGED main
       ELSE /\ accounts' = [accounts EXCEPT ![u].password = change.value]
            /\ UNCHANGED <<main, acts, attempt>>
    /\ UNCHANGED <<current, creating, confirmed, screen, loads, uploads, profile, late>>

\* Refused, as an email in use is, or not sent: an alert.
ChangeFails(u) ==
    /\ changes[u] # <<>>
    /\ IF Head(changes[u]).op = "email" /\ Taken(Head(changes[u]).value)
       THEN UNCHANGED acts ELSE Act
    /\ changes' = [changes EXCEPT ![u] = Tail(@)]
    /\ UNCHANGED <<accounts, current, creating, confirmed, screen, loads, main,
                   uploads, profile, attempt, late>>

\* Variant of RunSaved: the profile keeps the email it has.
RunSavedOldEmail ==
    LET v == Head(main).view IN
    /\ Head(main).kind = "saved"
    /\ main' = Tail(main)
    /\ uploads' = Upload(v, views[v].user, IF docs[views[v].user] = None
                                           THEN Empty ELSE docs[views[v].user])
    /\ UNCHANGED <<auth, screen, loads, profile, acts, attempt, late>>

\* Variant of RunSaved: an empty password is not turned down.
RunSavedEmptyToo ==
    LET v == Head(main).view IN
    /\ Head(main).kind = "saved"
    /\ main' = Tail(main)
    /\ uploads' = Upload(v, views[v].user, views[v].email)
    /\ changes' = IF current = None THEN changes
                  ELSE [changes EXCEPT ![current] =
                            Append(@, Change("password", views[v].password, v))]
    /\ UNCHANGED <<accounts, current, creating, confirmed, screen, loads, profile,
                   acts, attempt, late>>

\* The handler of updateEmail: the profile is saved from the fields as they
\* are by now, and the user signed in by now gets the password in the field.
\* (FIRUser turns an empty password down.)
RunSaved ==
    LET v == Head(main).view IN
    /\ Head(main).kind = "saved"
    /\ main' = Tail(main)
    /\ uploads' = Upload(v, views[v].user, views[v].email)
    /\ changes' = IF current = None \/ views[v].password = Empty THEN changes
                  ELSE [changes EXCEPT ![current] =
                            Append(@, Change("password", views[v].password, v))]
    /\ UNCHANGED <<accounts, current, creating, confirmed, screen, loads, profile,
                   acts, attempt, late>>

RunMain == main # <<>> /\ (RunLoaded \/ RunCreated \/ RunSaved)

-----------------------------------------------------------------------------

PutCompletes(x) ==
    /\ x \in uploads /\ ~x.stored
    /\ uploads' = (uploads \ {x}) \cup {[x EXCEPT !.stored = TRUE]}
    /\ blobs' = [blobs EXCEPT ![x.uid] = x.photo]
    /\ UNCHANGED <<auth, screen, loads, main, docs, queue, acts, attempt, late>>

\* saveProfile: the write goes to the queue of whoever is signed in by now.
Save(x) == queue' = [queue EXCEPT ![current] =
                        Append(@, [uid |-> x.uid, email |-> x.email])]

\* Variant of URLArrives: the document is saved beside the upload.
SaveWithoutURL(x) ==
    /\ x \in uploads
    /\ uploads' = uploads \ {x}
    /\ Save(x)
    /\ UNCHANGED <<auth, screen, loads, main, blobs, docs, acts, attempt, late>>

\* downloadURL answers, and saveProfile writes the whole document.
URLArrives(x) ==
    /\ x \in uploads /\ x.stored
    /\ uploads' = uploads \ {x}
    /\ Save(x)
    /\ UNCHANGED <<auth, screen, loads, main, blobs, docs, acts, attempt, late>>

\* putData or downloadURL fails: the handler returns, and nobody is told.
UploadFails(x) ==
    /\ x \in uploads
    /\ Act
    /\ uploads' = uploads \ {x}
    /\ SpoilIf(TRUE)
    /\ UNCHANGED <<auth, screen, loads, main, profile, late>>

\* Only the queue of the user signed in is sent; the others wait until their
\* user signs in again.
Commit ==
    /\ queue[current] # <<>>
    /\ LET write == Head(queue[current]) IN
       docs' = [docs EXCEPT ![write.uid] = write.email]
    /\ queue' = [queue EXCEPT ![current] = Tail(@)]
    /\ UNCHANGED <<auth, screen, loads, main, uploads, blobs, acts, attempt, late>>

-----------------------------------------------------------------------------

\* The button signs out the user the screen was opened with, or rather
\* whoever is signed in, and leaves for the login screen.
SignOutButton ==
    /\ open /\ views[Top].user # None
    /\ current' = None /\ open' = FALSE
    /\ SpoilIf(creating # {} \/ main # <<>>)
    /\ UNCHANGED <<accounts, creating, changes, confirmed, views, loads, main,
                   uploads, profile, acts, late>>

LogInHandler(u) ==
    /\ ~open /\ current = None /\ accounts[u] # NoAccount
    /\ Act
    /\ current' = u
    /\ SpoilIf(creating # {} \/ main # <<>>)
    /\ late' = (late \/ SaveUnderWay)
    /\ UNCHANGED <<accounts, creating, changes, confirmed, screen, loads, main,
                   uploads, profile>>

\* The application ends and starts again: the user stays signed in and the
\* document writes are on disk, everything else is gone.
Restart ==
    /\ Act
    /\ views' = <<>> /\ open' = FALSE
    /\ creating' = {} /\ loads' = {} /\ changes' = [u \in Uids |-> <<>>]
    /\ main' = <<>> /\ uploads' = {}
    /\ SpoilIf(HandlerPending \/ uploads # {})
    /\ UNCHANGED <<accounts, current, confirmed, profile, late>>

\* What the open view may show after an edit.
Edited ==
    {view \in View : /\ view.user = views[Top].user
                     /\ view.photo \in Photos \cup {views[Top].photo}}

Next ==
    \/ OpenAccount \/ CancelButton \/ HandleSignUp \/ SaveButton \/ SignOutButton
    \/ open /\ \E view \in Edited \ {views[Top]} : Edit(view)
    \/ \E v \in loads : LoadAnswered(v)
    \/ \E c \in creating : CreateSucceeds(c) \/ CreateFails(c)
    \/ \E u \in Uids : ChangeSucceeds(u) \/ ChangeFails(u) \/ LogInHandler(u)
    \/ \E x \in uploads : PutCompletes(x) \/ URLArrives(x) \/ UploadFails(x)
    \/ RunMain \/ Commit \/ Restart

Spec == Init /\ [][Next]_vars

-----------------------------------------------------------------------------

\* A profile document always leads to a photo in Storage and belongs to an
\* account, whatever fails, overlaps or restarts.
ProfileHasPhoto ==
    \A u \in Uids : docs[u] # None => blobs[u] # None /\ accounts[u] # NoAccount

\* When a sign-up or a save has gone all its way from Auth over Storage to the
\* Users document, and nothing interfered with it, the profile has the
\* account's email and the photo of the screen, whatever earlier attempts
\* left behind, and over a restart before the document was written.
ProfileIsCurrent ==
    Quiet /\ attempt.clean /\ attempt.uid # None =>
        /\ docs[attempt.uid] = accounts[attempt.uid].email
        /\ blobs[attempt.uid] = attempt.photo

\* The passwords of all accounts are ones their users submitted, although the
\* handler of updateEmail sets the password a second time, as long as the
\* password field and the user signed in stay the same under a save and no
\* sign-up answered late changes that user under a member's screen.
PasswordAsSubmitted ==
    \A u \in Uids : accounts[u] # NoAccount /\ ~late =>
        accounts[u].password \in confirmed[u]

=============================================================================
