--------------------------- MODULE OnboardingProofs ---------------------------
(***************************************************************************)
(* Proofs about Onboarding: its type invariant, what its pages promise of  *)
(* accounts and sessions, and that one listener leaves the bulletin alone, *)
(* for every set of addresses and every number of listeners.               *)
(***************************************************************************)
EXTENDS Onboarding, FiniteSetTheorems, SequenceTheorems, TLAPS

PageSet == [kind : Kinds, email : Users, signup : BOOLEAN]

\* What a single page rests on: a sign-in page on an account, a password page on
\* an address, a page after the session began on the session.
PageInv(page) ==
  /\ page.kind = "password" => page.email \in Emails
  /\ page.kind = "password" /\ ~page.signup => page.email \in accounts
  /\ page.kind \in {"location", "success"} => user # Nobody

\* The error page lies on the page that was refused, and a bulletin that answers
\* has a page.
StackInv ==
  /\ bulletin.live => Visible
  /\ Visible => bulletin.pages[1].kind \in {"root", "email"}
  /\ \A k \in DOMAIN bulletin.pages : PageInv(bulletin.pages[k])

\* The first listener has seen the session under which it asked for an address.
ListenerInv ==
  /\ fresh \subseteq 1 .. listeners
  /\ (Visible /\ listeners = 1) => bulletin.live /\ (launchedBefore => seen[1] = user)

\* Inductive strengthening of the invariants below.
OnboardingInv ==
  /\ TypeOK
  /\ request.op # "none" => request.email \in Emails
  /\ StackInv
  /\ ListenerInv

Bulletins == [live : BOOLEAN, pages : Seq(PageSet)]

\* What a page rests on is not taken away.
PagesRest == \A page \in PageSet : PageInv(page) => PageInv(page)'

\* No bulletin, and a bulletin of one first page.
LEMMA SinglePage ==
  ASSUME NEW kind \in {"root", "email"}, NEW live \in BOOLEAN
  PROVE  /\ NoBulletin \in Bulletins
         /\ [live |-> live, pages |-> <<Page(kind)>>] \in Bulletins
         /\ bulletin' \in {NoBulletin, [live |-> live, pages |-> <<Page(kind)>>]}
              => StackInv' /\ bulletin' \in Bulletins
  <1>1. NoBulletin \in Bulletins
    BY EmptySeq DEF NoBulletin, Bulletins
  <1>2. Page(kind) \in PageSet /\ Page(kind).kind = kind
    BY DEF Page, PageSet, Kinds, Users
  <1>3. <<Page(kind)>> \in Seq(PageSet)
    BY <1>2
  <1>4. [live |-> live, pages |-> <<Page(kind)>>] \in Bulletins
    BY <1>3 DEF Bulletins
  <1>5. ASSUME bulletin' = NoBulletin
        PROVE  StackInv'
    <2>1. bulletin'.live = FALSE /\ bulletin'.pages = <<>>
      BY <1>5 DEF NoBulletin
    <2> QED BY <2>1 DEF StackInv, Visible
  <1>6. ASSUME bulletin' = [live |-> live, pages |-> <<Page(kind)>>]
        PROVE  StackInv'
    <2>1. bulletin'.pages = <<Page(kind)>>
      BY <1>6
    <2>2. /\ bulletin'.pages # <<>>
          /\ bulletin'.pages[1] = Page(kind)
          /\ DOMAIN bulletin'.pages = {1}
      BY <2>1
    <2> QED BY <1>2, <2>2 DEF StackInv, Visible, PageInv
  <1> QED BY <1>1, <1>4, <1>5, <1>6

\* The same pages, or fewer listeners to them.
LEMMA SamePages ==
  ASSUME bulletin \in Bulletins, StackInv, PagesRest,
         bulletin' \in {bulletin, [bulletin EXCEPT !.live = FALSE]}
  PROVE  bulletin' \in Bulletins /\ StackInv' /\ Visible' = Visible
  <1>1. /\ bulletin'.pages = bulletin.pages
        /\ bulletin'.live \in {bulletin.live, FALSE}
        /\ bulletin' \in Bulletins
    BY DEF Bulletins
  <1>2. \A k \in DOMAIN bulletin.pages : bulletin.pages[k] \in PageSet
    BY ElementOfSeq DEF Bulletins
  <1> QED BY <1>1, <1>2 DEF StackInv, PagesRest, Visible

\* A page on top of the others.
LEMMA NextPage ==
  ASSUME bulletin \in Bulletins, StackInv, PagesRest, NEW page \in PageSet, PageInv(page)',
         bulletin' = Pushed(page)
  PROVE  /\ bulletin' \in Bulletins /\ StackInv'
         /\ Visible' = Visible /\ bulletin'.live = bulletin.live
  <1>1. CASE ~bulletin.live
    BY <1>1, SamePages DEF Pushed
  <1>2. CASE bulletin.live
    <2>1. Visible
      BY <1>2 DEF StackInv
    <2>2. bulletin.pages \in Seq(PageSet)
      BY DEF Bulletins
    <2>3. /\ bulletin'.pages = Append(bulletin.pages, page)
          /\ bulletin'.live = bulletin.live
          /\ bulletin' = [live |-> bulletin.live, pages |-> Append(bulletin.pages, page)]
      BY <1>2 DEF Pushed, Bulletins
    <2>4. /\ bulletin'.pages \in Seq(PageSet)
          /\ bulletin'.pages # <<>>
          /\ Len(bulletin'.pages) = Len(bulletin.pages) + 1
          /\ \A k \in 1 .. Len(bulletin.pages) : bulletin'.pages[k] = bulletin.pages[k]
          /\ bulletin'.pages[Len(bulletin.pages) + 1] = page
      BY <2>2, <2>3, AppendProperties
    <2>5. 1 \in 1 .. Len(bulletin.pages)
      BY <2>1, <2>2, EmptySeq DEF Visible
    <2>6. ASSUME NEW k \in DOMAIN bulletin'.pages
          PROVE  PageInv(bulletin.pages[k])'
      <3>1. k \in 1 .. Len(bulletin.pages) \/ k = Len(bulletin.pages) + 1
        <4>1. Len(bulletin.pages) \in Nat /\ k \in 1 .. Len(bulletin'.pages)
          BY <2>2, <2>4
        <4> QED BY <4>1, <2>4
      <3>2. CASE k \in 1 .. Len(bulletin.pages)
        <4>1. bulletin.pages[k] \in PageSet /\ PageInv(bulletin.pages[k])
          BY <2>2, <3>2, ElementOfSeq DEF StackInv
        <4> QED BY <2>4, <3>2, <4>1 DEF PagesRest
      <3>3. CASE k = Len(bulletin.pages) + 1
        BY <2>4, <3>3
      <3> QED BY <3>1, <3>2, <3>3
    <2>7. bulletin' \in Bulletins
      BY <2>3, <2>4 DEF Bulletins
    <2> QED BY <2>1, <2>3, <2>4, <2>5, <2>6, <2>7 DEF StackInv, Visible
  <1> QED BY <1>1, <1>2 DEF Bulletins

\* The error page is taken away; the first page is none.
LEMMA PageBack ==
  ASSUME bulletin \in Bulletins, StackInv, PagesRest, Visible, Top.kind = "error",
         bulletin' = [bulletin EXCEPT !.pages = Front(@)]
  PROVE  /\ bulletin' \in Bulletins /\ StackInv'
         /\ Visible' /\ bulletin'.live = bulletin.live
  <1> DEFINE n == Len(bulletin.pages)
  <1>1. bulletin.pages \in Seq(PageSet) /\ n \in Nat /\ n # 0
    BY EmptySeq DEF Bulletins, Visible
  <1>2. n # 1
    BY DEF StackInv, Top, Last
  <1>3. /\ bulletin'.pages = SubSeq(bulletin.pages, 1, n - 1)
        /\ bulletin'.live = bulletin.live
        /\ bulletin' = [live |-> bulletin.live, pages |-> SubSeq(bulletin.pages, 1, n - 1)]
    BY DEF Front, Bulletins
  <1>4. /\ bulletin'.pages \in Seq(PageSet)
        /\ Len(bulletin'.pages) = n - 1
        /\ \A k \in 1 .. n - 1 : bulletin'.pages[k] = bulletin.pages[k]
    BY <1>1, <1>3, SubSeqProperties
  <1> HIDE DEF n
  <1>5. n - 1 \in Nat \ {0} /\ 1 \in 1 .. n - 1 /\ 1 .. n - 1 \subseteq 1 .. n
    BY <1>1, <1>2
  <1>6. bulletin'.pages # <<>>
    BY <1>4, <1>5
  <1>7. ASSUME NEW k \in 1 .. n - 1
        PROVE  PageInv(bulletin.pages[k])'
    <2>1. bulletin.pages[k] \in PageSet /\ PageInv(bulletin.pages[k])
      BY <1>1, <1>5, ElementOfSeq DEF StackInv, n
    <2> QED BY <1>4, <2>1 DEF PagesRest
  <1>8. DOMAIN bulletin'.pages = 1 .. n - 1
    BY <1>4
  <1>9. bulletin' \in Bulletins
    BY <1>3, <1>4 DEF Bulletins
  <1> QED BY <1>3, <1>4, <1>5, <1>6, <1>7, <1>8, <1>9 DEF StackInv, Visible

\* The invariant holds when the application is installed.
LEMMA OnboardingInit == Init => OnboardingInv
  <1> SUFFICES ASSUME Init PROVE OnboardingInv
    OBVIOUS
  <1>1. NoBulletin \in Bulletins
    BY EmptySeq DEF NoBulletin, Bulletins
  <1>2. TypeOK
    <2>1. listeners \in 0 .. MaxListeners
      BY ListenersAssumption DEF Init
    <2>2. request \in [op : {"none", "lookup", "signUp", "signIn"}, email : Users]
      BY DEF Init, NoRequest, Users
    <2>3. bulletin \in Bulletins
      BY <1>1 DEF Init
    <2>4. seen \in [Ids -> Users \cup {Never}]
      BY DEF Init
    <2> QED BY <2>1, <2>2, <2>3, <2>4 DEF Init, TypeOK, Users, Bulletins, PageSet
  <1>3. StackInv /\ ~Visible
    BY DEF Init, NoBulletin, StackInv, Visible
  <1> QED BY <1>2, <1>3 DEF Init, OnboardingInv, ListenerInv, NoRequest

\* No account is deleted and the session stays: what pages rest on stays.
LEMMA RestStays ==
  ASSUME accounts \subseteq accounts', user' # Nobody \/ user' = user
  PROVE  PagesRest
  BY DEF PagesRest, PageInv

\* Presenting bulletins in a row.
LEMMA BulletinShown ==
  ASSUME TypeOK, StackInv, PagesRest, NEW n \in Nat, bulletin' = Shown("email", n)
  PROVE  /\ bulletin' \in Bulletins /\ StackInv'
         /\ n = 1 /\ Visible' => bulletin'.live \/ Visible
  <1>1. bulletin \in Bulletins
    BY DEF TypeOK, Bulletins, PageSet
  <1>2. CASE n = 0
    BY <1>1, <1>2, SamePages DEF Shown
  <1>3. CASE n # 0 /\ Visible
    <2>1. bulletin' = [bulletin EXCEPT !.live = FALSE]
      BY <1>3 DEF Shown
    <2> QED BY <1>1, <1>3, <2>1, SamePages
  <1>4. CASE n # 0 /\ ~Visible /\ home = "away"
    <2>1. bulletin' = NoBulletin
      BY <1>4 DEF Shown
    <2>2. ~Visible'
      BY <2>1 DEF NoBulletin, Visible
    <2> QED BY <1>4, <2>1, <2>2, SinglePage
  <1>5. CASE n # 0 /\ ~Visible /\ home # "away"
    <2>1. bulletin' = [live |-> n = 1, pages |-> <<Page("email")>>]
      BY <1>5 DEF Shown
    <2>2. CASE n = 1
      <3>1. bulletin' = [live |-> TRUE, pages |-> <<Page("email")>>]
        BY <2>1, <2>2
      <3>2. bulletin' \in Bulletins /\ StackInv'
        BY <3>1, SinglePage
      <3> QED BY <3>1, <3>2
    <2>3. CASE n # 1
      <3>1. bulletin' = [live |-> FALSE, pages |-> <<Page("email")>>]
        BY <2>1, <2>3
      <3>2. bulletin' \in Bulletins /\ StackInv'
        BY <3>1, SinglePage
      <3> QED BY <2>3, <3>2
    <2> QED BY <2>2, <2>3
  <1> QED BY <1>2, <1>3, <1>4, <1>5

\* Listeners are called: one listener alone that asks for an address, or that
\* was called under the same session before, leaves one bulletin that answers.
LEMMA ListenersHear ==
  ASSUME OnboardingInv, NEW L \in SUBSET (1 .. listeners), Hear(L),
         UNCHANGED <<accounts, phone, home, listeners, request>>,
         fresh' \in SUBSET fresh, posted' \in BOOLEAN
  PROVE  OnboardingInv'
  <1> DEFINE called == {l \in L : seen[l] # user}
             asks == user = Nobody /\ launchedBefore
  <1>1. /\ seen' = [l \in Ids |-> IF l \in L THEN user ELSE seen[l]]
        /\ bulletin' = IF asks THEN Shown("email", Cardinality(called)) ELSE bulletin
        /\ greeting' = IF ~asks /\ called # {} THEN user ELSE greeting
        /\ UNCHANGED <<accounts, user, launchedBefore, home, listeners, request>>
    BY DEF Hear, phone
  <1>2. /\ TypeOK /\ StackInv /\ ListenerInv /\ bulletin \in Bulletins
        /\ listeners \in 0 .. MaxListeners
    BY DEF OnboardingInv, TypeOK, Bulletins, PageSet
  <1>3. PagesRest
    BY <1>1, RestStays
  <1>4. IsFiniteSet(called) /\ Cardinality(called) \in Nat
    <2>1. IsFiniteSet(1 .. listeners)
      BY <1>2, FS_Interval
    <2>2. IsFiniteSet(called)
      BY <2>1, FS_Subset
    <2> QED BY <2>2, FS_CardinalityType
  <1> HIDE DEF called
  <1>5. bulletin' \in Bulletins /\ StackInv'
    BY <1>1, <1>2, <1>3, <1>4, BulletinShown, SamePages
  <1>6. TypeOK'
    BY <1>1, <1>2, <1>5 DEF TypeOK, Bulletins, PageSet, Users
  <1>7. ASSUME Visible', listeners = 1
        PROVE  bulletin'.live /\ (launchedBefore => seen'[1] = user)
    <2>1. L \subseteq {1} /\ 1 \in Ids
      BY <1>2, <1>7, ListenersAssumption DEF Ids
    <2>2. seen'[1] = IF 1 \in L THEN user ELSE seen[1]
      BY <1>1, <2>1
    <2>3. CASE Visible
      <3>1. bulletin.live /\ (launchedBefore => seen[1] = user)
        BY <1>2, <1>7, <2>3 DEF ListenerInv
      <3>2. asks => called = {}
        BY <2>1, <3>1 DEF called
      <3>3. asks => Cardinality(called) = 0
        BY <3>2, FS_EmptySet
      <3>4. bulletin' = bulletin
        BY <1>1, <3>3 DEF Shown
      <3> QED BY <2>2, <3>1, <3>4
    <2>4. CASE ~Visible
      <3>1. asks
        BY <1>1, <1>7, <2>4 DEF Visible
      <3>2. called # {}
        <4>1. called = {} => Cardinality(called) = 0
          BY FS_EmptySet
        <4>2. Cardinality(called) # 0
          BY <1>1, <1>7, <2>4, <3>1 DEF Shown, Visible
        <4> QED BY <4>1, <4>2
      <3>3. called = {1} /\ 1 \in L
        BY <2>1, <3>2 DEF called
      <3>4. Cardinality(called) = 1
        BY <3>3, FS_Singleton
      <3>5. bulletin'.live
        BY <1>1, <1>2, <1>3, <1>4, <1>7, <2>4, <3>1, <3>4, BulletinShown
      <3> QED BY <2>2, <3>3, <3>5
    <2> QED BY <2>3, <2>4
  <1>8. ListenerInv'
    BY <1>1, <1>2, <1>7 DEF ListenerInv
  <1> QED BY <1>1, <1>5, <1>6, <1>8 DEF OnboardingInv

\* What the invariant says of the bulletin and of the pages on it.
LEMMA OnboardingBulletin ==
  ASSUME OnboardingInv
  PROVE  /\ bulletin \in Bulletins /\ StackInv
         /\ bulletin.pages \in Seq(PageSet)
         /\ Visible => Top \in PageSet /\ PageInv(Top)
  <1>1. bulletin \in Bulletins /\ StackInv
    BY DEF OnboardingInv, TypeOK, Bulletins, PageSet
  <1>2. bulletin.pages \in Seq(PageSet)
    BY <1>1 DEF Bulletins
  <1>3. ASSUME Visible
        PROVE  Top \in PageSet /\ PageInv(Top)
    <2>1. Len(bulletin.pages) \in 1 .. Len(bulletin.pages)
      BY <1>2, <1>3, EmptySeq DEF Visible
    <2> QED BY <1>1, <1>2, <2>1, ElementOfSeq DEF StackInv, Top, Last
  <1> QED BY <1>1, <1>2, <1>3

\* The home screen appears with a new listener.
LEMMA HomeAppears ==
  ASSUME OnboardingInv, Launch \/ Return
  PROVE  OnboardingInv'
  <1>1. /\ listeners < MaxListeners /\ listeners' = listeners + 1
        /\ home' = "visible"
        /\ fresh' = fresh \cup {listeners + 1}
        /\ bulletin' = IF launchedBefore THEN NoBulletin
                       ELSE [live |-> TRUE, pages |-> <<Page("root")>>]
        /\ UNCHANGED <<accounts, user, launchedBefore, seen, posted, greeting, request>>
    BY DEF Launch, Return, Appear, phone
  <1>2. TypeOK /\ ListenerInv
    BY DEF OnboardingInv
  <1>3. /\ listeners' \in 0 .. MaxListeners /\ listeners' \in Ids
        /\ 1 .. listeners \subseteq 1 .. listeners'
        /\ listeners + 1 \in 1 .. listeners'
    BY <1>1, <1>2, ListenersAssumption DEF TypeOK, Ids
  <1>4. bulletin' \in Bulletins /\ StackInv'
    BY <1>1, SinglePage
  <1>5. TypeOK'
    BY <1>1, <1>2, <1>3, <1>4 DEF TypeOK, Bulletins, PageSet
  <1>6. ListenerInv'
    <2>1. fresh' \subseteq 1 .. listeners'
      BY <1>1, <1>2, <1>3 DEF ListenerInv
    <2>2. Visible' => ~launchedBefore /\ bulletin'.live
      BY <1>1 DEF Visible, NoBulletin
    <2> QED BY <1>1, <2>1, <2>2 DEF ListenerInv
  <1> QED BY <1>1, <1>4, <1>5, <1>6 DEF OnboardingInv

\* A step of the home screen that leaves its bulletin, if any, alone.
LEMMA HomeSteps ==
  ASSUME OnboardingInv, Leave \/ LogOut \/ \E e \in Emails : RegisterElsewhere(e)
  PROVE  OnboardingInv'
  <1>1. /\ UNCHANGED <<launchedBefore, listeners, fresh, seen, greeting, bulletin, request>>
        /\ accounts \subseteq accounts' /\ accounts' \in SUBSET Emails
        /\ user' = user \/ (user' = Nobody /\ ~Visible)
        /\ posted' \in BOOLEAN
        /\ home' \in {"visible", "away", "off"}
    BY DEF Leave, LogOut, RegisterElsewhere, OnboardingInv, TypeOK, phone, auth
  <1>2. CASE user' = user
    <2>1. bulletin' \in Bulletins /\ StackInv' /\ Visible' = Visible
      BY <1>1, <1>2, OnboardingBulletin, RestStays, SamePages
    <2>2. TypeOK' /\ ListenerInv'
      BY <1>1, <1>2, <2>1 DEF OnboardingInv, TypeOK, ListenerInv, Visible
    <2> QED BY <1>1, <2>1, <2>2 DEF OnboardingInv
  <1>3. CASE user' = Nobody /\ ~Visible
    <2>1. ~Visible' /\ bulletin'.pages = <<>>
      BY <1>1, <1>3 DEF Visible
    <2>2. StackInv' /\ ListenerInv'
      BY <1>1, <1>3, <2>1 DEF OnboardingInv, StackInv, ListenerInv, Visible
    <2>3. TypeOK'
      BY <1>1, <1>3 DEF OnboardingInv, TypeOK, Users
    <2> QED BY <1>1, <2>2, <2>3 DEF OnboardingInv
  <1> QED BY <1>1, <1>2, <1>3

\* The process ends, and with it listeners, bulletin and call.
LEMMA HomeQuits ==
  ASSUME OnboardingInv, Quit
  PROVE  OnboardingInv'
  <1>1. /\ bulletin' = NoBulletin /\ request' = NoRequest
        /\ listeners' = 0 /\ fresh' = {} /\ seen' = [l \in Ids |-> Never]
        /\ posted' = FALSE /\ greeting' = Nobody /\ home' = "off"
        /\ UNCHANGED <<user, launchedBefore>>
    BY DEF Quit, phone
  <1>2. accounts' \in SUBSET Emails
    BY DEF Quit, OnboardingInv, TypeOK
  <1>3. bulletin' \in Bulletins /\ StackInv'
    BY <1>1, SinglePage
  <1>4. ~Visible'
    BY <1>1 DEF Visible, NoBulletin
  <1>5. listeners' \in 0 .. MaxListeners
    BY <1>1, ListenersAssumption
  <1>6. seen' \in [Ids -> Users \cup {Never}]
    BY <1>1
  <1>7. request' \in [op : {"none", "lookup", "signUp", "signIn"}, email : Users]
    BY <1>1 DEF NoRequest, Users
  <1>8. TypeOK'
    BY <1>1, <1>2, <1>3, <1>5, <1>6, <1>7 DEF OnboardingInv, TypeOK, Bulletins, PageSet, Users
  <1> QED BY <1>1, <1>3, <1>4, <1>8 DEF OnboardingInv, ListenerInv, NoRequest

\* A page that follows, without a change of session, account or call.
LEMMA PageFollows ==
  ASSUME OnboardingInv, UNCHANGED <<phone, home, auth>>,
         accounts \subseteq accounts', accounts' \in SUBSET Emails,
         request' \in [op : {"none", "lookup", "signUp", "signIn"}, email : Users],
         request'.op # "none" => request'.email \in Emails,
         \/ bulletin' = bulletin
         \/ \E page \in PageSet : PageInv(page)' /\ bulletin' = Pushed(page)
         \/ Visible /\ Top.kind = "error" /\ bulletin' = [bulletin EXCEPT !.pages = Front(@)]
  PROVE  OnboardingInv'
  <1>1. UNCHANGED <<user, launchedBefore, home, listeners, fresh, seen, posted, greeting>>
    BY DEF phone, auth
  <1>2. PagesRest
    BY <1>1, RestStays
  <1>3. /\ bulletin' \in Bulletins /\ StackInv'
        /\ Visible' => Visible
        /\ bulletin'.live = bulletin.live
    <2>1. CASE bulletin' = bulletin
      BY <1>2, <2>1, OnboardingBulletin, SamePages
    <2>2. CASE \E page \in PageSet : PageInv(page)' /\ bulletin' = Pushed(page)
      BY <1>2, <2>2, OnboardingBulletin, NextPage
    <2>3. CASE Visible /\ Top.kind = "error" /\ bulletin' = [bulletin EXCEPT !.pages = Front(@)]
      BY <1>2, <2>3, OnboardingBulletin, PageBack
    <2> QED BY <2>1, <2>2, <2>3
  <1>4. TypeOK'
    BY <1>1, <1>3 DEF OnboardingInv, TypeOK, Bulletins, PageSet
  <1>5. ListenerInv'
    BY <1>1, <1>3 DEF OnboardingInv, ListenerInv
  <1> QED BY <1>3, <1>4, <1>5 DEF OnboardingInv

\* Pages that ask for nothing that has to be known.
LEMMA PlainPage ==
  ASSUME NEW kind \in {"root", "email", "error"}
  PROVE  Page(kind) \in PageSet /\ PageInv(Page(kind))'
  BY DEF Page, PageSet, PageInv, Kinds, Users

\* Pages that are reached with a session.
LEMMA SessionPage ==
  ASSUME NEW kind \in {"location", "success"}, user' # Nobody
  PROVE  Page(kind) \in PageSet /\ PageInv(Page(kind))'
  BY DEF Page, PageSet, PageInv, Kinds, Users

\* What the user does on the pages, but for the last one.
LEMMA PagesStep ==
  ASSUME OnboardingInv,
         \/ Start \/ EnterPassword \/ Retry \/ ChooseLocation
         \/ \E e \in Emails : EnterEmail(e)
  PROVE  OnboardingInv'
  <1>1. /\ UNCHANGED <<phone, home, auth, accounts>> /\ Visible
        /\ accounts \in SUBSET Emails
        /\ request \in [op : {"none", "lookup", "signUp", "signIn"}, email : Users]
        /\ request.op # "none" => request.email \in Emails
    BY DEF Start, EnterPassword, Retry, ChooseLocation, EnterEmail, Touchable, OnboardingInv, TypeOK
  <1>2. CASE Start
    <2>1. request' = request /\ bulletin' = Pushed(Page("email"))
      BY <1>2 DEF Start
    <2> QED BY <1>1, <2>1, PlainPage, PageFollows
  <1>3. CASE EnterPassword
    <2>1. Top.email \in Emails
      BY <1>1, <1>3, OnboardingBulletin DEF EnterPassword, Touchable, PageInv
    <2>2. /\ request' \in [op : {"none", "lookup", "signUp", "signIn"}, email : Users]
          /\ request'.email \in Emails /\ bulletin' = bulletin
      BY <1>3, <2>1 DEF EnterPassword, Users
    <2> QED BY <1>1, <2>2, PageFollows
  <1>4. CASE Retry
    <2>1. /\ request' = request /\ Top.kind = "error"
          /\ bulletin' = [bulletin EXCEPT !.pages = Front(@)]
      BY <1>4 DEF Retry, Touchable
    <2> QED BY <1>1, <2>1, PageFollows
  <1>5. CASE ChooseLocation
    <2>1. request' = request /\ bulletin' = Pushed(Page("success"))
      BY <1>5 DEF ChooseLocation
    <2>2. user' # Nobody
      BY <1>1, <1>5, OnboardingBulletin DEF ChooseLocation, Touchable, PageInv, phone
    <2> QED BY <1>1, <2>1, <2>2, SessionPage, PageFollows
  <1>6. CASE \E e \in Emails : EnterEmail(e)
    <2>1. /\ request' \in [op : {"none", "lookup", "signUp", "signIn"}, email : Users]
          /\ request'.email \in Emails /\ bulletin' = bulletin
      BY <1>6 DEF EnterEmail, Users
    <2> QED BY <1>1, <2>1, PageFollows
  <1> QED BY <1>2, <1>3, <1>4, <1>5, <1>6

\* The onboarding is over.
LEMMA FinishStep ==
  ASSUME OnboardingInv, Finish
  PROVE  OnboardingInv'
  <1>1. /\ launchedBefore' = TRUE /\ bulletin' = NoBulletin
        /\ UNCHANGED <<accounts, user, home, listeners, fresh, seen, posted, greeting, request>>
    BY DEF Finish, auth
  <1>2. bulletin' \in Bulletins /\ StackInv'
    BY <1>1, SinglePage
  <1>3. ~Visible'
    BY <1>1 DEF Visible, NoBulletin
  <1>4. TypeOK'
    BY <1>1, <1>2 DEF OnboardingInv, TypeOK, Bulletins, PageSet
  <1> QED BY <1>1, <1>2, <1>3, <1>4 DEF OnboardingInv, ListenerInv

\* Firebase's answers that begin no session.
LEMMA AnswersStep ==
  ASSUME OnboardingInv, LookupAnswered \/ LookupFails \/ Refused \/ SignUpAnswerLost
  PROVE  OnboardingInv'
  <1>1. /\ UNCHANGED <<phone, home, auth>> /\ request' = NoRequest
        /\ request.email \in Emails
        /\ accounts \subseteq accounts' /\ accounts' \in SUBSET Emails
    BY DEF LookupAnswered, LookupFails, Refused, SignUpAnswerLost, Answers, OnboardingInv, TypeOK
  <1>2. /\ request' \in [op : {"none", "lookup", "signUp", "signIn"}, email : Users]
        /\ request'.op = "none"
    BY <1>1 DEF NoRequest, Users
  <1>3. CASE LookupAnswered \/ LookupFails
    <2>1. PICK signup \in BOOLEAN, e \in Emails : /\ bulletin' = Pushed(PasswordPage(signup, e))
                                                  /\ ~signup => e \in accounts
      <3>1. CASE LookupFails
        BY <1>1, <3>1 DEF LookupFails
      <3>2. CASE LookupAnswered /\ request.email \in accounts
        <4>1. (request.email \notin accounts) = FALSE
          BY <3>2
        <4>2. bulletin' = Pushed(PasswordPage(FALSE, request.email))
          BY <3>2, <4>1 DEF LookupAnswered
        <4> QED BY <1>1, <3>2, <4>2
      <3>3. CASE LookupAnswered /\ request.email \notin accounts
        <4>1. (request.email \notin accounts) = TRUE
          BY <3>3
        <4>2. bulletin' = Pushed(PasswordPage(TRUE, request.email))
          BY <3>3, <4>1 DEF LookupAnswered
        <4> QED BY <1>1, <4>2
      <3> QED BY <1>3, <3>1, <3>2, <3>3
    <2> DEFINE page == PasswordPage(signup, e)
    <2>2. page.kind = "password" /\ page.email = e /\ page.signup = signup
      BY DEF PasswordPage
    <2>3. page \in PageSet
      BY DEF PasswordPage, PageSet, Kinds, Users
    <2> HIDE DEF page
    <2>4. PageInv(page)'
      BY <1>1, <2>1, <2>2 DEF PageInv
    <2>5. bulletin' = Pushed(page)
      BY <2>1 DEF page
    <2> QED BY <1>1, <1>2, <2>3, <2>4, <2>5, PageFollows
  <1>4. CASE Refused \/ SignUpAnswerLost
    <2>1. bulletin' = Pushed(Page("error"))
      BY <1>4 DEF Refused, SignUpAnswerLost
    <2> QED BY <1>1, <1>2, <2>1, PlainPage, PageFollows
  <1> QED BY <1>3, <1>4

\* A session begins, and all listeners have seen it.
LEMMA SessionStep ==
  ASSUME OnboardingInv, SignedUp \/ SignedIn
  PROVE  OnboardingInv'
  <1>1. request.email \in Emails /\ request' = NoRequest
    BY DEF SignedUp, SignedIn, Answers, OnboardingInv
  <1>2. PICK kind \in {"location", "success"} : SessionBegins(Page(kind))
    BY DEF SignedUp, SignedIn
  <1>3. /\ user' = request.email
        /\ seen' = [l \in Ids |-> IF l <= listeners THEN request.email ELSE seen[l]]
        /\ greeting' \in {request.email, greeting}
        /\ bulletin' = Pushed(Page(kind))
        /\ UNCHANGED <<launchedBefore, home, listeners, fresh, posted>>
    BY <1>2 DEF SessionBegins
  <1>4. accounts \subseteq accounts' /\ accounts' \in SUBSET Emails
    BY <1>1 DEF SignedUp, SignedIn, OnboardingInv, TypeOK
  <1>5. user' # Nobody
    BY <1>1, <1>3, NobodyAssumption
  <1>6. /\ bulletin' \in Bulletins /\ StackInv'
        /\ Visible' = Visible /\ bulletin'.live = bulletin.live
    BY <1>3, <1>4, <1>5, RestStays, SessionPage, OnboardingBulletin, NextPage
  <1>7. request' \in [op : {"none", "lookup", "signUp", "signIn"}, email : Users]
    BY <1>1 DEF NoRequest, Users
  <1>8. seen' \in [Ids -> Users \cup {Never}]
    BY <1>1, <1>3 DEF OnboardingInv, TypeOK, Users
  <1>9. user' \in Users /\ greeting' \in Users
    BY <1>1, <1>3 DEF OnboardingInv, TypeOK, Users
  <1>10. TypeOK'
    BY <1>3, <1>4, <1>6, <1>7, <1>8, <1>9 DEF OnboardingInv, TypeOK, Bulletins, PageSet
  <1>11. ASSUME listeners = 1
         PROVE  seen'[1] = user'
    <2>1. 1 \in Ids
      BY ListenersAssumption DEF Ids
    <2> QED BY <1>3, <1>11, <2>1
  <1>12. ListenerInv'
    BY <1>3, <1>6, <1>11 DEF OnboardingInv, ListenerInv
  <1> QED BY <1>1, <1>6, <1>10, <1>12 DEF OnboardingInv, NoRequest

\* Every step keeps the invariant.
LEMMA OnboardingStep == OnboardingInv /\ [Next]_vars => OnboardingInv'
  <1> SUFFICES ASSUME OnboardingInv, [Next]_vars PROVE OnboardingInv'
    OBVIOUS
  <1>1. CASE Announce
    <2>1. /\ 1 .. listeners \in SUBSET (1 .. listeners) /\ Hear(1 .. listeners)
          /\ UNCHANGED <<accounts, phone, home, listeners, fresh, request>>
          /\ posted' \in BOOLEAN
      BY <1>1 DEF Announce
    <2> QED BY <2>1, ListenersHear
  <1>2. ASSUME NEW l \in Ids, FirstCall(l)
        PROVE  OnboardingInv'
    <2>1. {l} \in SUBSET (1 .. listeners)
      BY <1>2 DEF FirstCall, OnboardingInv, ListenerInv
    <2>2. /\ Hear({l}) /\ fresh' \in SUBSET fresh /\ posted' \in BOOLEAN
          /\ UNCHANGED <<accounts, phone, home, listeners, request>>
      BY <1>2 DEF FirstCall, OnboardingInv, TypeOK
    <2> QED BY <2>1, <2>2, ListenersHear
  <1>3. CASE Home
    BY <1>3, HomeAppears, HomeSteps, HomeQuits DEF Home
  <1>4. CASE Pages
    BY <1>4, PagesStep, FinishStep DEF Pages
  <1>5. CASE Firebase
    BY <1>5, AnswersStep, SessionStep DEF Firebase
  <1>6. CASE UNCHANGED vars
    <2>1. UNCHANGED <<phone, home, auth, accounts, bulletin, request>>
      BY <1>6 DEF vars
    <2>2. /\ accounts \in SUBSET Emails
          /\ request \in [op : {"none", "lookup", "signUp", "signIn"}, email : Users]
          /\ request.op # "none" => request.email \in Emails
      BY DEF OnboardingInv, TypeOK
    <2> QED BY <2>1, <2>2, PageFollows
  <1> QED BY <1>1, <1>2, <1>3, <1>4, <1>5, <1>6 DEF Next, Listening

\* The strengthened invariant holds of every behaviour.
LEMMA OnboardingInvHolds == Spec => []OnboardingInv
  BY OnboardingInit, OnboardingStep, PTL DEF Spec

\* The state of session, listeners, bulletin and call keeps its shape.
THEOREM TypeOKHolds == Spec => []TypeOK
  <1>1. OnboardingInv => TypeOK
    BY DEF OnboardingInv
  <1> QED BY <1>1, OnboardingInvHolds, PTL

\* The page "Iniciar sesion" of HomepageVM stands only for accounts that exist,
\* whatever lookups fail and whoever registers elsewhere.
THEOREM SignInPageHasAccountHolds == Spec => []SignInPageHasAccount
  <1>1. OnboardingInv => SignInPageHasAccount
    BY DEF OnboardingInv, StackInv, PageInv, SignInPageHasAccount
  <1> QED BY <1>1, OnboardingInvHolds, PTL

\* While the home screen has appeared only once in the process, no listener
\* replaces the manager of the bulletin that is up (ViewController.swift).
THEOREM OneListenerOneBulletinHolds == Spec => []OneListenerOneBulletin
  <1>1. OnboardingInv => OneListenerOneBulletin
    BY DEF OnboardingInv, ListenerInv, OneListenerOneBulletin
  <1> QED BY <1>1, OnboardingInvHolds, PTL

\* What a step does to the flag and to a bulletin that was not there.
LEMMA OnboardedStep ==
  ASSUME OnboardingInv, [Next]_vars
  PROVE  /\ launchedBefore' # launchedBefore => launchedBefore' /\ user # Nobody
         /\ (Visible' /\ ~Visible /\ launchedBefore') => bulletin'.pages[1].kind = "email"
  <1>1. CASE Finish
    <2>1. launchedBefore' /\ ~Visible'
      BY <1>1 DEF Finish, Visible, NoBulletin
    <2>2. user # Nobody
      BY <1>1, OnboardingBulletin DEF Finish, Touchable, PageInv
    <2> QED BY <2>1, <2>2
  <1>2. CASE ~Finish
    <2>1. launchedBefore' = launchedBefore
      BY <1>2 DEF Next, Listening, Home, Pages, Firebase, Announce, FirstCall, Launch, Leave, Return,
         LogOut, Quit, RegisterElsewhere, Start, EnterPassword, Retry, ChooseLocation, EnterEmail,
         LookupAnswered, LookupFails, SignedUp, SignedIn, Refused, SignUpAnswerLost, SessionBegins,
         phone, vars
    <2>2. ASSUME Visible', ~Visible, launchedBefore
          PROVE  bulletin'.pages[1].kind = "email"
      <3>1. \A page : Pushed(page) = bulletin
        BY <2>2, OnboardingBulletin DEF StackInv, Pushed
      <3>2. bulletin' # bulletin /\ bulletin' # NoBulletin
        BY <2>2 DEF Visible, NoBulletin
      <3>3. PICK L : Hear(L)
        BY <1>2, <2>2, <3>1, <3>2 DEF Next, Listening, Home, Pages, Firebase, Announce, FirstCall,
           Launch, Leave, Return, Appear, LogOut, Quit, RegisterElsewhere, Start, EnterPassword,
           Retry, Touchable, ChooseLocation, EnterEmail, LookupAnswered, LookupFails, SignedUp,
           SignedIn, Refused, SignUpAnswerLost, SessionBegins, vars
      <3>4. bulletin'.pages = <<Page("email")>>
        <4>1. PICK n : bulletin' = Shown("email", n)
          BY <3>2, <3>3 DEF Hear
        <4>2. bulletin' = [live |-> n = 1, pages |-> <<Page("email")>>]
          BY <2>2, <3>2, <4>1 DEF Shown
        <4> QED BY <4>2
      <3> QED BY <3>4 DEF Page
    <2> QED BY <2>1, <2>2
  <1> QED BY <1>1, <1>2

\* Nobody completes the onboarding without a session, nobody who has completed
\* it sees it again, and the flag is never taken back.
THEOREM OnboardedOnceHolds == Spec => OnboardedOnce
  <1>1. OnboardingInv /\ [Next]_vars =>
          [/\ launchedBefore' # launchedBefore => launchedBefore' /\ user # Nobody
           /\ (Visible' /\ ~Visible /\ launchedBefore') => bulletin'.pages[1].kind = "email"]_vars
    BY OnboardedStep
  <1> QED BY <1>1, OnboardingInvHolds, PTL DEF Spec, OnboardedOnce
=============================================================================
