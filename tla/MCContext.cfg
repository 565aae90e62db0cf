\* Contents around each budget of the three policies, no pool, and pools that
\* run out at once, early and late; mailboxes with a message over the budget.
CONSTANTS
  NoPool = noPool
  Role <- MCRole
  View <- MCView
  Mail <- MCMail
  Pool <- MCPool

SPECIFICATION Spec

INVARIANTS
  ShedsMinimally
  AllowanceIsWhatIsLeft
  MailIsShown

PROPERTY
  CarryoverDelivers
