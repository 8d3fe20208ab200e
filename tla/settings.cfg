SPECIFICATION FairSpec
CONSTANTS
  s1 = s1
  s2 = s2
  s3 = s3
  r1 = r1
  r2 = r2
  a = a
  b = b
  c = c
  own = own
  imported = imported
  secret = secret
  None = None
  Loopback = Loopback
  Everywhere = Everywhere
  ServerIds = {s1, s2, s3}
  ProfileIds = {r1, r2}
  Names = {a, b, c}
  Data = {own, imported}
  Secrets = {secret}
  Starts <- SomeStarts
  Budgets <- SomeBudgets
INVARIANTS
  TypeOK
  PreviewIsInForce
PROPERTIES
  SelectionKept
  NamesStayUnique
  ImportConfined
  ImportComesBack
