CONSTANTS
  e1 = e1
  e2 = e2
  Emails <- MCEmails
  Nobody = Nobody
  Never = Never
  MaxListeners = 3
SPECIFICATION FairSpec
INVARIANTS TypeOK SignInPageHasAccount OneListenerOneBulletin
PROPERTIES OnboardedOnce AsksForAddress
