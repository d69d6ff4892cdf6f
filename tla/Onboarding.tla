------------------------------ MODULE Onboarding ------------------------------
(***************************************************************************)
(* Signing in: the home screen (ViewController), the pages that HomepageVM *)
(* strings together in a bulletin (BLTNItemManager), the authentication    *)
(* calls of FirebaseController and the state listeners that the home       *)
(* screen leaves with Firebase.  The session and the "launchedBefore" flag *)
(* are kept on the phone; everything else dies with the process.           *)
(***************************************************************************)
EXTENDS Naturals, FiniteSets, SequencesExt

CONSTANTS
  Emails,          \* addresses that isInputValid accepts
  Nobody,          \* the nil user
  Never,           \* what a listener has seen before its first call
  MaxListeners     \* bound on the times the home screen appears in a process

ASSUME NobodyAssumption == Nobody \notin Emails /\ Never \notin Emails /\ Never # Nobody
ASSUME ListenersAssumption == MaxListeners \in Nat \ {0}

VARIABLES
  accounts,         \* the addresses registered with Firebase
  user,             \* Auth.currentUser
  launchedBefore,   \* the flag in UserDefaults
  home,             \* the home screen: "visible", "away" or "off"
  listeners,        \* listeners added by this process
  fresh,            \* those whose first call is still queued
  seen,             \* the user that each listener last saw
  posted,           \* the change of state is still to be announced to them
  greeting,         \* the user greeted in the top bar
  bulletin,         \* the visible bulletin: its pages, and whether the manager
                    \* that they belong to is still there
  request           \* the authentication call without an answer

phone == <<user, launchedBefore>>
auth == <<listeners, fresh, seen, posted, greeting>>
vars == <<accounts, phone, home, auth, bulletin, request>>

Ids == 1 .. MaxListeners

Page(kind) == [kind |-> kind, email |-> Nobody, signup |-> FALSE]
\* Mistaken form of PasswordPage, for a mutation run: without the address.
PasswordPageUnnamed(signup, e) == [kind |-> "password", email |-> Never, signup |-> signup]

PasswordPage(signup, e) == [kind |-> "password", email |-> e, signup |-> signup]

NoBulletin == [live |-> FALSE, pages |-> <<>>]
NoRequest  == [op |-> "none", email |-> Nobody]

Visible == bulletin.pages # <<>>
Top == Last(bulletin.pages)

Init ==
  /\ accounts \in SUBSET Emails
  /\ user = Nobody
  /\ launchedBefore = FALSE
  /\ home = "off"
  /\ listeners = 0 /\ fresh = {} /\ seen = [l \in Ids |-> Never]
  /\ posted = FALSE
  /\ greeting = Nobody
  /\ bulletin = NoBulletin
  /\ request = NoRequest
-----------------------------------------------------------------------------
(* Presenting a bulletin n times in a row from the home screen.  UIKit      *)
(* presents only one, and none while the screen is away; but every new      *)
(* manager replaces the one in bulletinManager, and a manager that goes     *)
(* tears its pages down.                                                    *)

Shown(kind, n) ==
  CASE n = 0 -> bulletin
    [] n > 0 /\ Visible -> [bulletin EXCEPT !.live = FALSE]
    [] n > 0 /\ ~Visible /\ home = "away" -> NoBulletin
    [] OTHER -> [live |-> n = 1, pages |-> <<Page(kind)>>]

\* Mistaken form of Hear, for a mutation run: the first call is not a change.
HearChanges(L) ==
  LET called == {l \in L : seen[l] \notin {user, Never}}
      asks == user = Nobody /\ launchedBefore
  IN  /\ seen' = [l \in Ids |-> IF l \in L THEN user ELSE seen[l]]
      /\ bulletin' = IF asks THEN Shown("email", Cardinality(called)) ELSE bulletin
      /\ greeting' = IF ~asks /\ called # {} THEN user ELSE greeting

\* The listeners L hear the current user, one after the other; one that saw
\* the same user before is not called.
Hear(L) ==
  LET called == {l \in L : seen[l] # user}
      asks == user = Nobody /\ launchedBefore
  IN  /\ seen' = [l \in Ids |-> IF l \in L THEN user ELSE seen[l]]
      /\ bulletin' = IF asks THEN Shown("email", Cardinality(called)) ELSE bulletin
      /\ greeting' = IF ~asks /\ called # {} THEN user ELSE greeting

FirstCall(l) ==
  /\ l \in fresh
  /\ fresh' = fresh \ {l}
  /\ Hear({l})
  /\ UNCHANGED <<accounts, phone, home, listeners, posted, request>>

Announce ==
  /\ posted
  /\ posted' = FALSE
  /\ Hear(1 .. listeners)
  /\ UNCHANGED <<accounts, phone, home, listeners, fresh, request>>
-----------------------------------------------------------------------------
(* The home screen.                                                         *)

\* Mistaken form of Appear, for a mutation run: the flag is not looked at.
AppearOnboarding ==
  /\ listeners < MaxListeners
  /\ home' = "visible"
  /\ listeners' = listeners + 1
  /\ fresh' = fresh \cup {listeners + 1}
  /\ bulletin' = [live |-> TRUE, pages |-> <<Page("root")>>]

\* viewWillAppear adds a listener, and none is ever removed; viewDidAppear
\* starts the onboarding until it has been completed once.
Appear ==
  /\ listeners < MaxListeners
  /\ home' = "visible"
  /\ listeners' = listeners + 1
  /\ fresh' = fresh \cup {listeners + 1}
  /\ bulletin' = IF launchedBefore THEN NoBulletin
                 ELSE [live |-> TRUE, pages |-> <<Page("root")>>]

Launch ==
  /\ home = "off"
  /\ Appear
  /\ UNCHANGED <<accounts, phone, seen, posted, greeting, request>>

\* Projects or classrooms, and back.
Leave ==
  /\ home = "visible" /\ ~Visible
  /\ home' = "away"
  /\ UNCHANGED <<accounts, phone, auth, bulletin, request>>

Return ==
  /\ home = "away"
  /\ Appear
  /\ UNCHANGED <<accounts, phone, seen, posted, greeting, request>>

\* "Cerrar sesion" in the top bar.
LogOut ==
  /\ home = "visible" /\ ~Visible /\ user # Nobody
  /\ user' = Nobody
  /\ posted' = TRUE
  /\ UNCHANGED <<accounts, launchedBefore, home, listeners, fresh, seen, greeting,
                 bulletin, request>>

\* The process ends; a sign-up on its way may still reach the server.
Quit ==
  /\ home # "off"
  /\ home' = "off"
  /\ accounts' \in {accounts} \cup (IF request.op = "signUp"
                                    THEN {accounts \cup {request.email}} ELSE {})
  /\ listeners' = 0 /\ fresh' = {} /\ seen' = [l \in Ids |-> Never]
  /\ posted' = FALSE /\ greeting' = Nobody
  /\ bulletin' = NoBulletin /\ request' = NoRequest
  /\ UNCHANGED phone

\* The same person registers on another phone.
RegisterElsewhere(e) ==
  /\ e \notin accounts
  /\ accounts' = accounts \cup {e}
  /\ UNCHANGED <<phone, home, auth, bulletin, request>>
-----------------------------------------------------------------------------
(* The pages.  Only a bulletin that is live answers to touches, and while a *)
(* call is on its way an activity indicator covers its page.                *)

Touchable(kind) == Visible /\ bulletin.live /\ request = NoRequest /\ Top.kind = kind

\* item.manager?.displayNextItem()
Pushed(page) == IF bulletin.live THEN [bulletin EXCEPT !.pages = Append(@, page)]
                                 ELSE bulletin

Start ==
  /\ Touchable("root")
  /\ bulletin' = Pushed(Page("email"))
  /\ UNCHANGED <<accounts, phone, home, auth, request>>

EnterEmail(e) ==
  /\ Touchable("email")
  /\ request' = [op |-> "lookup", email |-> e]
  /\ UNCHANGED <<accounts, phone, home, auth, bulletin>>

EnterPassword ==
  /\ Touchable("password")
  /\ request' = [op |-> IF Top.signup THEN "signUp" ELSE "signIn", email |-> Top.email]
  /\ UNCHANGED <<accounts, phone, home, auth, bulletin>>

\* The error page's "Vamos" is popItem.
Retry ==
  /\ Touchable("error")
  /\ bulletin' = [bulletin EXCEPT !.pages = Front(@)]
  /\ UNCHANGED <<accounts, phone, home, auth, request>>

ChooseLocation ==
  /\ Touchable("location")
  /\ bulletin' = Pushed(Page("success"))
  /\ UNCHANGED <<accounts, phone, home, auth, request>>

\* "Empecemos", or the swipe that dismisses the last page.
Finish ==
  /\ Touchable("success")
  /\ launchedBefore' = TRUE
  /\ bulletin' = NoBulletin
  /\ UNCHANGED <<accounts, user, home, auth, request>>
-----------------------------------------------------------------------------
(* Firebase's answers.                                                      *)

Answers(op) == request.op = op /\ request' = NoRequest

LookupAnswered ==
  /\ Answers("lookup")
  /\ bulletin' = Pushed(PasswordPage(request.email \notin accounts, request.email))
  /\ UNCHANGED <<accounts, phone, home, auth>>

\* Mistaken form of LookupFails, for a mutation run: an error counts as
\* registered.
LookupFailsRegistered ==
  /\ Answers("lookup")
  /\ bulletin' = Pushed(PasswordPage(FALSE, request.email))
  /\ UNCHANGED <<accounts, phone, home, auth>>

\* userIsRegistered answers false to an error, as to an unknown address.
LookupFails ==
  /\ Answers("lookup")
  /\ bulletin' = Pushed(PasswordPage(TRUE, request.email))
  /\ UNCHANGED <<accounts, phone, home, auth>>

\* A session begins: the listeners hear of it before the call's own callback,
\* which is queued behind them.
SessionBegins(page) ==
  /\ user' = request.email
  /\ seen' = [l \in Ids |-> IF l <= listeners THEN request.email ELSE seen[l]]
  /\ greeting' = IF \E l \in 1 .. listeners : seen[l] # request.email
                 THEN request.email ELSE greeting
  /\ bulletin' = Pushed(page)
  /\ UNCHANGED <<launchedBefore, home, listeners, fresh, posted>>

SignedUp ==
  /\ Answers("signUp")
  /\ request.email \notin accounts
  /\ accounts' = accounts \cup {request.email}
  /\ SessionBegins(Page("location"))

SignedIn ==
  /\ Answers("signIn")
  /\ request.email \in accounts
  /\ SessionBegins(Page("success"))
  /\ UNCHANGED accounts

\* A wrong or weak password, an address already in use, or no connection.
Refused ==
  /\ Answers("signUp") \/ Answers("signIn")
  /\ bulletin' = Pushed(Page("error"))
  /\ UNCHANGED <<accounts, phone, home, auth>>

\* The account is made, but the answer does not come back.
SignUpAnswerLost ==
  /\ Answers("signUp")
  /\ request.email \notin accounts
  /\ accounts' = accounts \cup {request.email}
  /\ bulletin' = Pushed(Page("error"))
  /\ UNCHANGED <<phone, home, auth>>
-----------------------------------------------------------------------------
Listening == Announce \/ \E l \in Ids : FirstCall(l)

Home == \/ Launch \/ Leave \/ Return \/ LogOut \/ Quit
        \/ \E e \in Emails : RegisterElsewhere(e)

Pages == \/ Start \/ EnterPassword \/ Retry \/ ChooseLocation \/ Finish
         \/ \E e \in Emails : EnterEmail(e)

Firebase == LookupAnswered \/ LookupFails \/ SignedUp \/ SignedIn \/ Refused
            \/ SignUpAnswerLost

Next == Listening \/ Home \/ Pages \/ Firebase

Spec == Init /\ [][Next]_vars

\* The main queue is served, so whoever listens is called.
Fairness == WF_vars(Announce) /\ \A l \in Ids : WF_vars(FirstCall(l))

FairSpec == Spec /\ Fairness
-----------------------------------------------------------------------------
Users == Emails \cup {Nobody}
Kinds == {"root", "email", "password", "error", "location", "success"}

\* The shape of the state.
TypeOK ==
  /\ accounts \in SUBSET Emails
  /\ user \in Users /\ greeting \in Users
  /\ launchedBefore \in BOOLEAN /\ posted \in BOOLEAN
  /\ home \in {"visible", "away", "off"}
  /\ listeners \in 0 .. MaxListeners
  /\ fresh \in SUBSET Ids
  /\ seen \in [Ids -> Users \cup {Never}]
  /\ bulletin \in [live : BOOLEAN,
                   pages : Seq([kind : Kinds, email : Users, signup : BOOLEAN])]
  /\ request \in [op : {"none", "lookup", "signUp", "signIn"}, email : Users]

\* The password page under a page: the latest one pushed before it.
Asked == SelectLastInSeq(bulletin.pages, LAMBDA page : page.kind = "password")

\* The page that says "Iniciar sesion" asks only for the password of an
\* account that exists: nobody is sent there by an error.
SignInPageHasAccount ==
  \A k \in DOMAIN bulletin.pages :
    LET page == bulletin.pages[k]
    IN  page.kind = "password" /\ ~page.signup => page.email \in accounts

\* A home screen that has appeared only once never loses the bulletin it shows.
OneListenerOneBulletin ==
  (Visible /\ listeners = 1) => bulletin.live

\* The flag is set only while somebody is signed in, and never reset: the
\* onboarding is not skipped, nor seen again by those who completed it.
OnboardedOnce ==
  [][/\ launchedBefore' # launchedBefore => launchedBefore' /\ user # Nobody
     /\ (Visible' /\ ~Visible /\ launchedBefore') => bulletin'.pages[1].kind = "email"]_vars

\* Whoever sees the home screen without a session is asked for an address.
AsksForAddress ==
  (home = "visible" /\ user = Nobody) ~> (Visible \/ user # Nobody \/ home # "visible")

\* "Hubo un problema con la autenticación, vuelvelo a intentar"
\* (HomepageVM.swift:140): the page that popItem goes back to can succeed, so
\* it does not offer to create an account that exists.
RetryCanSucceed ==
  (Visible /\ Top.kind = "error")
    => LET page == bulletin.pages[Asked] IN page.signup => page.email \notin accounts
=============================================================================
