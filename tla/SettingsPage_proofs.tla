------------------------- MODULE SettingsPage_proofs -------------------------
(***************************************************************************)
(* What the Settings page does to the session's configuration, proved for  *)
(* any sections, names and secrets and any length of the session.          *)
(*                                                                         *)
(*   Credentials  the validators look each half up in the page's cache;    *)
(*                while the configuration has neither half the cache has   *)
(*                neither, so that neither is ever valid.                  *)
(*   Types        a save rewrites sections in place, an import one of      *)
(*                them, and only an unused id is added: no section appears *)
(*                twice.  The sequences are what costs here.               *)
(*   The preview  a name given once is found at one position, whether the  *)
(*                first is looked for, as the page does, or the last, as   *)
(*                the scripts do.                                          *)
(*   One change   FollowInv: until something moves the cache, what was     *)
(*                loaded and the fields have the names of the session's    *)
(*                configuration (Fresh); after one move they differ in one *)
(*                name or in the selection, and the next save gets that    *)
(*                right, or is refused (MovedOnce).                        *)
(***************************************************************************)
EXTENDS SettingsPage, TLAPS, FiniteSetTheorems, SequenceTheorems

Bare(c) == c.username = None /\ c.password = None

\* The fields every configuration has.
Shape(c) == {"servers", "profiles", "endpoint", "username", "password"} \subseteq DOMAIN c

CredInv ==
  /\ Shape(staged) /\ Shape(page)
  /\ Bare(staged) => Bare(page)

LEMMA FollowingKeeps ==
  ASSUME NEW p, Shape(p), NEW id, NEW n
  PROVE  Shape(FollowRename(p, id, n)) /\ (Bare(p) => Bare(FollowRename(p, id, n)))
BY DEF FollowRename, Shape, Bare

LEMMA ImportKeeps ==
  ASSUME NEW p, Shape(p), NEW id, NEW d, NEW host
  PROVE  Shape(Imported(p, id, d, host)) /\ (Bare(p) => Bare(Imported(p, id, d, host)))
BY DEF Imported, Shape, Bare

LEMMA ValidationKeeps ==
  ASSUME NEW p, Shape(p)
  PROVE  Shape(Validated(p)) /\ (Bare(p) => Bare(Validated(p)))
BY DEF Validated, Shape, Bare

\* Of a cache without credentials a save makes one without.
LEMMA WritingKeeps ==
  ASSUME NEW p
  PROVE  Shape(Written(p)) /\ (Bare(p) => Bare(Written(p)))
BY DEF Written, Shape, Bare, Field, UsernameValid, PasswordValid

\* A save of a cache that is no richer than the page's.
LEMMA SavingKeeps ==
  ASSUME CredInv, NEW p, Shape(p), Bare(page) => Bare(p), NEW fails,
         SaveOver(p, fails)
  PROVE  CredInv' /\ (Bare(staged) => Bare(staged)')
<1> DEFINE q == Written(Validated(p))
<1>1. Shape(q) /\ (Bare(page) => Bare(q))
  BY ValidationKeeps, WritingKeeps
<1>2. page' = q /\ staged' \in {q, staged}
  BY DEF SaveOver
<1> HIDE DEF q
<1> QED
  BY <1>1, <1>2 DEF CredInv, Shape, Bare

LEMMA CredStep ==
  ASSUME CredInv, [Next]_vars
  PROVE  CredInv' /\ (Bare(staged) => Bare(staged)')
<1>1. ASSUME NEW fails \in BOOLEAN, Save(fails)
      PROVE  CredInv' /\ (Bare(staged) => Bare(staged)')
  BY <1>1, SavingKeeps DEF Save, CredInv
<1>2. ASSUME NEW fails \in BOOLEAN, Sections(fails)
      PROVE  CredInv' /\ (Bare(staged) => Bare(staged)')
  <2>1. PICK p : SaveOver(p, fails) /\ Shape(p) /\ (Bare(page) => Bare(p))
    <3>1. PICK secs : \/ SaveOver([page EXCEPT !.servers = secs], fails)
                      \/ SaveOver([page EXCEPT !.profiles = secs], fails)
      BY <1>2 DEF Sections, AddServer, RemoveServer, AddProfile, RemoveProfile
    <3>2. /\ Shape([page EXCEPT !.servers = secs])
          /\ Bare(page) => Bare([page EXCEPT !.servers = secs])
          /\ Shape([page EXCEPT !.profiles = secs])
          /\ Bare(page) => Bare([page EXCEPT !.profiles = secs])
      BY DEF CredInv, Shape, Bare
    <3> QED
      BY <3>1, <3>2
  <2> QED
    BY <2>1, SavingKeeps
<1>3. ASSUME UNCHANGED stored,
             Shape(page'), Bare(page) => Bare(page')
      PROVE  CredInv' /\ (Bare(staged) => Bare(staged)')
  BY <1>3 DEF stored, CredInv, Shape, Bare
<1>4. CASE Typing
  <2>1. CASE \E id \in ServerIds, n \in Names \cup {None} : EditName(id, n)
    BY <1>3, <2>1, FollowingKeeps DEF EditName, Edited, CredInv
  <2>2. CASE UNCHANGED page /\ UNCHANGED stored
    BY <1>3, <2>2 DEF CredInv, Shape
  <2> QED
    BY <1>4, <2>1, <2>2 DEF Typing, EditProfileName, PickServer, AssignProfile,
                            EditMode, EditProxy, Edited
<1>5. CASE Importing
  <2>1. CASE UNCHANGED page /\ UNCHANGED stored
    BY <1>3, <2>1 DEF CredInv, Shape
  <2>2. ASSUME NEW d \in Data, NEW host \in Names \cup {None}, NEW fails \in BOOLEAN,
               ImportArrived(d, host, fails)
        PROVE  CredInv' /\ (Bare(staged) => Bare(staged)')
    <3>1. Shape(page') /\ (Bare(page) => Bare(page'))
      BY <2>2, ImportKeeps DEF ImportArrived, CredInv
    <3>2. staged' \in {staged, page'}
      BY <2>2 DEF ImportArrived
    <3> QED
      BY <3>1, <3>2 DEF CredInv, Shape, Bare
  <2> QED
    BY <1>5, <2>1, <2>2 DEF Importing, OpenImport, PressImport, CloseImport,
                            ImportRefused
<1>6. CASE Reload \/ Apply
  BY <1>6 DEF Reload, Apply, Document, stored, CredInv, Shape, Bare
<1>7. CASE UNCHANGED vars
  BY <1>3, <1>7 DEF vars, CredInv, Shape
<1> QED
  BY <1>1, <1>2, <1>4, <1>5, <1>6, <1>7 DEF Next

LEMMA CredInit ==
  ASSUME Init
  PROVE  CredInv
<1>1. etc \in Config /\ staged = etc /\ page = etc
  BY SettingsPageAssumption DEF Init
<1> QED
  BY <1>1 DEF CredInv, Shape, Config

\* What the page does instead of PairTakenWhole: the user name and the
\* password each wait for the other one to be stored first.
NoCredentialsFromScratch ==
  [][(staged.username = None /\ staged.password = None) =>
       (staged'.username = None /\ staged'.password = None)]_vars

\* A listener without authentication stays without, although it is offered,
\* for any servers, profiles, names and any length of the session.
THEOREM CredentialsStayOff == Spec => NoCredentialsFromScratch
<1>1. Init => CredInv
  BY CredInit
<1>2. CredInv /\ [Next]_vars => CredInv'
  BY CredStep
<1>3. CredInv /\ [Next]_vars =>
        [(staged.username = None /\ staged.password = None) =>
           (staged'.username = None /\ staged'.password = None)]_vars
  BY CredStep DEF Bare
<1> QED
  BY <1>1, <1>2, <1>3, PTL DEF Spec, NoCredentialsFromScratch

-----------------------------------------------------------------------------
(* Types.  A save rewrites sections in place, so that a configuration keeps *)
(* its section ids.                                                         *)

NamesOrNone == Names \cup {None}

\* The least of some positions is one of them.
LEMMA LeastIsOne ==
  ASSUME NEW n \in Nat, NEW T, T \subseteq 1 .. n, T # {}
  PROVE  Min(T) \in T
<1> DEFINE upTo == {1 .. i : i \in T}
<1>1. IsFiniteSet(1 .. n)
  BY FS_Interval
<1>2. IsWellFoundedOn(StrictSubsetOrdering(1 .. n), SUBSET (1 .. n))
  BY <1>1, FS_StrictSubsetOrderingWellFounded, FS_FiniteSubsetsOfFinite
<1>3. upTo \subseteq SUBSET (1 .. n) /\ upTo # {}
  <2>1. \A i \in T : 1 .. i \subseteq 1 .. n
    OBVIOUS
  <2> QED
    BY <2>1
<1>4. PICK x \in upTo :
        \A y \in upTo : ~(<<y, x>> \in StrictSubsetOrdering(1 .. n))
  <2> HIDE DEF upTo
  <2> QED
    BY <1>2, <1>3, WFMin
<1>5. PICK i \in T : x = 1 .. i
  BY <1>4
<1>6. ASSUME NEW j \in T, j < i
      PROVE  FALSE
  <2>1. 1 .. j \in upTo /\ 1 .. i \in upTo
    OBVIOUS
  <2>2. 1 .. j \subseteq 1 .. i /\ i \in 1 .. i /\ i \notin 1 .. j
    BY <1>6
  <2>3. <<1 .. j, 1 .. i>> \in StrictSubsetOrdering(1 .. n)
    BY <1>3, <2>1, <2>2 DEF StrictSubsetOrdering
  <2> QED
    BY <1>4, <1>5, <2>1, <2>3
<1>7. \A j \in T : i <= j
  BY <1>6
<1> QED
  BY <1>7 DEF Min

\* A section that is there is one of the sections, with the id asked for.
LEMMA SectionFound ==
  ASSUME NEW secs, NEW id, Has(secs, id)
  PROVE  /\ Position(secs, id) \in DOMAIN secs
         /\ Section(secs, id) = secs[Position(secs, id)]
         /\ Section(secs, id).id = id
BY DEF Has, Position, Positions, Section

\* One of some sections with different ids is the one of its id.
LEMMA SectionHere ==
  ASSUME NEW secs, NEW i \in DOMAIN secs,
         \A j \in DOMAIN secs : secs[j].id = secs[i].id => i = j
  PROVE  /\ Has(secs, secs[i].id)
         /\ Position(secs, secs[i].id) = i
         /\ Section(secs, secs[i].id) = secs[i]
         /\ NameOf(secs, secs[i].id) = secs[i].name
BY DEF Has, Position, Positions, Section, NameOf

LEMMA ConfigFields ==
  ASSUME NEW c \in Config
  PROVE  /\ c.servers \in Seq(Servers) /\ c.profiles \in Seq(Profiles)
         /\ DOMAIN c.servers = 1 .. Len(c.servers) /\ Len(c.servers) \in Nat
         /\ DOMAIN c.profiles = 1 .. Len(c.profiles) /\ Len(c.profiles) \in Nat
         /\ \A i \in DOMAIN c.servers : c.servers[i] \in Servers
         /\ \A i \in DOMAIN c.profiles : c.profiles[i] \in Profiles
         /\ c.endpoint \in NamesOrNone
BY DEF Config, NamesOrNone

LEMMA SectionTyped ==
  ASSUME NEW c \in Config, NEW id
  PROVE  /\ Has(c.servers, id) => Section(c.servers, id) \in Servers
         /\ Has(c.profiles, id) => Section(c.profiles, id) \in Profiles
BY ConfigFields, SectionFound

\* What a save makes of a section: one with the same id.
LEMMA WrittenTyped ==
  ASSUME form \in Config, NEW p,
         p.servers \in Seq(Servers), p.profiles \in Seq(Profiles), Once(p),
         p.endpoint \in NamesOrNone, p.address \in {Loopback, Everywhere},
         p.username \in Secrets \cup {None}, p.password \in Secrets \cup {None}
  PROVE  Written(p) \in Config /\ Once(Written(p))
<1> DEFINE q == Written(p)
<1>1. ASSUME NEW s \in Servers
      PROVE  WrittenServer(p, s) \in Servers /\ WrittenServer(p, s).id = s.id
  BY SectionTyped DEF WrittenServer, Servers, Field
<1>2. ASSUME NEW r \in Profiles
      PROVE  WrittenProfile(p, r) \in Profiles /\ WrittenProfile(p, r).id = r.id
  BY SectionTyped DEF WrittenProfile, Profiles, Field
<1>3. /\ q.servers \in Seq(Servers) /\ DOMAIN q.servers = DOMAIN p.servers
      /\ \A i \in DOMAIN p.servers : q.servers[i].id = p.servers[i].id
  <2> HIDE DEF q
  <2>1. q.servers = [i \in 1 .. Len(p.servers) |-> WrittenServer(p, p.servers[i])]
    BY DEF q, Written
  <2> QED
    BY <1>1, <2>1
<1>4. /\ q.profiles \in Seq(Profiles) /\ DOMAIN q.profiles = DOMAIN p.profiles
      /\ \A i \in DOMAIN p.profiles : q.profiles[i].id = p.profiles[i].id
  <2> HIDE DEF q
  <2>1. q.profiles = [i \in 1 .. Len(p.profiles) |-> WrittenProfile(p, p.profiles[i])]
    BY DEF q, Written
  <2> QED
    BY <1>2, <2>1
<1>5. /\ q.endpoint \in NamesOrNone /\ q.address \in {Loopback, Everywhere}
      /\ q.username \in Secrets \cup {None} /\ q.password \in Secrets \cup {None}
  BY DEF Written, Field, Config, NamesOrNone
<1>6. q = [servers |-> q.servers, profiles |-> q.profiles, endpoint |-> q.endpoint,
           address |-> q.address, username |-> q.username, password |-> q.password]
  BY DEF Written
<1> HIDE DEF q
<1>7. q \in Config
  BY <1>3, <1>4, <1>5, <1>6 DEF Config, NamesOrNone
<1>8. Once(q)
  BY <1>3, <1>4 DEF Once, Distinct
<1> QED
  BY <1>7, <1>8 DEF q

Typed(c) == c \in Config /\ Once(c)

\* Another selection.
LEMMA SelectingTyped ==
  ASSUME NEW c, Typed(c), NEW n \in NamesOrNone
  PROVE  Typed([c EXCEPT !.endpoint = n])
BY DEF Typed, Config, Once, NamesOrNone

\* Other servers with the same ids in the same places.
LEMMA ServersTyped ==
  ASSUME NEW c, Typed(c), NEW secs \in Seq(Servers), Len(secs) = Len(c.servers),
         \A i \in 1 .. Len(secs) : secs[i].id = c.servers[i].id
  PROVE  Typed([c EXCEPT !.servers = secs])
<1> DEFINE d == [c EXCEPT !.servers = secs]
<1>1. d \in Config /\ d.servers = secs /\ d.profiles = c.profiles
  BY DEF Typed, Config
<1>2. DOMAIN secs = DOMAIN c.servers /\ \A i \in DOMAIN secs : secs[i].id = c.servers[i].id
  BY ConfigFields DEF Typed
<1> HIDE DEF d
<1>3. Once(d)
  BY <1>1, <1>2 DEF Once, Distinct, Typed
<1> QED
  BY <1>1, <1>3 DEF Typed, d

LEMMA ProfilesTyped ==
  ASSUME NEW c, Typed(c), NEW secs \in Seq(Profiles), Len(secs) = Len(c.profiles),
         \A i \in 1 .. Len(secs) : secs[i].id = c.profiles[i].id
  PROVE  Typed([c EXCEPT !.profiles = secs])
<1> DEFINE d == [c EXCEPT !.profiles = secs]
<1>1. d \in Config /\ d.servers = c.servers /\ d.profiles = secs
  BY DEF Typed, Config
<1>2. DOMAIN secs = DOMAIN c.profiles /\ \A i \in DOMAIN secs : secs[i].id = c.profiles[i].id
  BY ConfigFields DEF Typed
<1> HIDE DEF d
<1>3. Once(d)
  BY <1>1, <1>2 DEF Once, Distinct, Typed
<1> QED
  BY <1>1, <1>3 DEF Typed, d

LEMMA FieldsTyped ==
  ASSUME NEW c, Typed(c), NEW choices \in Seq(NamesOrNone)
  PROVE  Typed(Fields(c, choices))
<1>1. choices = <<>> \/ choices[1] \in NamesOrNone
  OBVIOUS
<1>2. c.endpoint \in NamesOrNone /\ None \in NamesOrNone
  BY ConfigFields DEF Typed, NamesOrNone
<1>3. PICK n \in NamesOrNone : Fields(c, choices) = [c EXCEPT !.endpoint = n]
  BY <1>1, <1>2 DEF Fields
<1> QED
  BY <1>3, SelectingTyped

LEMMA ChoicesTyped ==
  ASSUME NEW c, Typed(c)
  PROVE  /\ ViewOf(c).choices \in Seq(NamesOrNone)
         /\ ViewOf(c).offered \subseteq NamesOrNone
<1>1. \A i \in DOMAIN c.servers :
        c.servers[i].name \in NamesOrNone /\ c.servers[i].profile \in NamesOrNone
  BY ConfigFields DEF Typed, Servers, NamesOrNone
<1>2. \A i \in DOMAIN c.profiles : c.profiles[i].name \in NamesOrNone
  BY ConfigFields DEF Typed, Profiles, NamesOrNone
<1>3. [i \in DOMAIN c.servers |-> c.servers[i].name] \in Seq(NamesOrNone)
  BY <1>1, ConfigFields DEF Typed
<1>4. (IF HasActive(c) \/ c.endpoint = None THEN <<>> ELSE <<c.endpoint>>)
        \in Seq(NamesOrNone)
  BY ConfigFields DEF Typed
<1>5. ViewOf(c).choices \in Seq(NamesOrNone)
  BY <1>3, <1>4 DEF ViewOf
<1>6. ViewOf(c).offered \subseteq NamesOrNone
  BY <1>1, <1>2 DEF ViewOf, Entries, NamesOrNone
<1> QED
  BY <1>5, <1>6

LEMMA ValidatedTyped ==
  ASSUME NEW p, Typed(p), form \in Config
  PROVE  Typed(Validated(p))
<1> DEFINE movers == {i \in DOMAIN form.servers :
                        Renames(p, form.servers[i].id, form.servers[i].name)}
<1>1. CASE movers = {}
  BY <1>1 DEF Validated
<1>2. CASE movers # {}
  <2>1. movers \subseteq 1 .. Len(form.servers) /\ Len(form.servers) \in Nat
    BY ConfigFields
  <2>2. Min(movers) \in DOMAIN form.servers
    <3>1. Min(movers) \in movers
      <4> HIDE DEF movers
      <4> QED
        BY <1>2, <2>1, LeastIsOne
    <3> QED
      BY <3>1
  <2>3. form.servers[Min(movers)].name \in NamesOrNone
    BY <2>2, ConfigFields DEF Servers, NamesOrNone
  <2>4. Validated(p) = [p EXCEPT !.endpoint = form.servers[Min(movers)].name]
    BY <1>2 DEF Validated
  <2> HIDE DEF movers
  <2> QED
    BY <2>3, <2>4, SelectingTyped
<1> QED
  BY <1>1, <1>2

\* What is known of the state of the page.
TypeInv ==
  /\ TypeOK
  /\ view.choices \in Seq(NamesOrNone)
  /\ view.offered \subseteq NamesOrNone

LEMMA SpendTyped ==
  ASSUME budget \in [Events -> Nat], NEW kinds, kinds \subseteq Events, Spend(kinds)
  PROVE  budget' \in [Events -> Nat]
BY DEF Spend

\* A save of a proper cache leaves everything proper.
LEMMA SaveTyped ==
  ASSUME TypeInv, NEW p, Typed(p), NEW fails, SaveOver(p, fails),
         budget' \in [Events -> Nat], moves' \in 0 .. 2
  PROVE  TypeInv'
<1> DEFINE q == Written(Validated(p))
<1>1. Typed(q)
  <2>1. Typed(Validated(p)) /\ form \in Config
    BY ValidatedTyped DEF TypeInv, TypeOK
  <2> HIDE DEF q
  <2>2. q = Written(Validated(p))
    BY DEF q
  <2> QED
    BY <2>1, <2>2, WrittenTyped DEF Typed, Config, NamesOrNone
<1>2. Typed(Fields(q, view.choices))
  BY <1>1, FieldsTyped DEF TypeInv
<1>3. /\ page' = q
      /\ staged' \in {q, staged} /\ loaded' \in {q, loaded}
      /\ form' \in {Fields(q, view.choices), form}
      /\ UNCHANGED <<etc, view, import>>
  BY DEF SaveOver
<1> HIDE DEF q
<1> QED
  BY <1>1, <1>2, <1>3 DEF TypeInv, TypeOK, Typed

\* A section deleted: those behind it move up.
LEMMA WithoutSection ==
  ASSUME NEW S, NEW secs \in Seq(S), NEW id, Has(secs, id)
  PROVE  /\ Position(secs, id) \in 1 .. Len(secs)
         /\ Without(secs, id) \in Seq(S)
         /\ Len(Without(secs, id)) = Len(secs) - 1
         /\ \A i \in 1 .. Len(secs) - 1 :
              Without(secs, id)[i] =
                IF i < Position(secs, id) THEN secs[i] ELSE secs[i + 1]
<1> DEFINE k == Position(secs, id)
           n == Len(secs)
           front == SubSeq(secs, 1, k - 1)
           back == SubSeq(secs, k + 1, n)
<1>1. k \in 1 .. n /\ n \in Nat
  BY SectionFound, LenProperties
<1>2. \A i \in 1 .. n : secs[i] \in S
  BY ElementOfSeq
<1> HIDE DEF k, n
<1>3. /\ front \in Seq(S) /\ Len(front) = k - 1
      /\ \A i \in 1 .. k - 1 : front[i] = secs[i]
  BY <1>1, <1>2, SubSeqProperties
<1>4. /\ back \in Seq(S) /\ Len(back) = n - k
      /\ \A i \in 1 .. n - k : back[i] = secs[k + i]
  BY <1>1, <1>2, SubSeqProperties
<1>5. Without(secs, id) = front \o back
  BY DEF Without, RemoveAt, k, n
<1> HIDE DEF front, back
<1>6. /\ front \o back \in Seq(S) /\ Len(front \o back) = n - 1
      /\ \A i \in 1 .. n - 1 : (front \o back)[i] = IF i < k THEN secs[i] ELSE secs[i + 1]
  <2>1. /\ front \o back \in Seq(S) /\ Len(front \o back) = n - 1
        /\ \A i \in 1 .. n - 1 :
             (front \o back)[i] = IF i <= k - 1 THEN front[i] ELSE back[i - (k - 1)]
    <3>1. /\ front \o back \in Seq(S)
          /\ Len(front \o back) = Len(front) + Len(back)
          /\ \A i \in 1 .. Len(front) + Len(back) :
               (front \o back)[i] = IF i <= Len(front) THEN front[i] ELSE back[i - Len(front)]
      BY <1>3, <1>4, ConcatProperties
    <3>2. Len(front) + Len(back) = n - 1 /\ Len(front) = k - 1
      BY <1>1, <1>3, <1>4
    <3> QED
      BY <3>1, <3>2
  <2>2. ASSUME NEW i \in 1 .. n - 1
        PROVE  (front \o back)[i] = IF i < k THEN secs[i] ELSE secs[i + 1]
    <3>1. CASE i < k
      BY <1>1, <1>3, <2>1, <3>1
    <3>2. CASE ~(i < k)
      <4>1. i - (k - 1) \in 1 .. n - k /\ k + (i - (k - 1)) = i + 1
        BY <1>1, <3>2
      <4> QED
        BY <1>1, <1>4, <2>1, <3>2, <4>1
    <3> QED
      BY <3>1, <3>2
  <2> QED
    BY <2>1, <2>2
<1> QED
  BY <1>1, <1>5, <1>6 DEF k, n
\* What is left are the sections of another id.
LEMMA WithoutEntries ==
  ASSUME NEW S, NEW secs \in Seq(S), Distinct(secs), NEW id, Has(secs, id)
  PROVE  /\ Distinct(Without(secs, id))
         /\ Entries(Without(secs, id)) = {s \in Entries(secs) : s.id # id}
<1> DEFINE w == Without(secs, id)
           n == Len(secs)
           k == Position(secs, id)
           from(i) == IF i < k THEN i ELSE i + 1
<1>1. /\ n \in Nat /\ k \in 1 .. n /\ DOMAIN secs = 1 .. n /\ DOMAIN w = 1 .. n - 1
      /\ \A i \in 1 .. n - 1 : w[i] = IF i < k THEN secs[i] ELSE secs[i + 1]
  <2>1. w \in Seq(S) /\ Len(w) = n - 1 /\ n \in Nat /\ DOMAIN secs = 1 .. n
    BY WithoutSection, LenProperties
  <2>2. DOMAIN w = 1 .. n - 1
    BY <2>1, LenProperties
  <2> HIDE DEF w
  <2> QED
    BY <2>1, <2>2, WithoutSection DEF w
<1>2. secs[k].id = id
  BY SectionFound
<1> HIDE DEF w, n, k
<1>3. ASSUME NEW i \in 1 .. n - 1
      PROVE  from(i) \in 1 .. n /\ from(i) # k /\ w[i] = secs[from(i)]
  BY <1>1
<1>4. ASSUME NEW i \in 1 .. n - 1, NEW j \in 1 .. n - 1, w[i].id = w[j].id
      PROVE  i = j
  <2>1. from(i) = from(j)
    <3> HIDE DEF from
    <3> QED
      BY <1>1, <1>3, <1>4 DEF Distinct
  <2> QED
    BY <1>1, <2>1
<1>5. ASSUME NEW j \in 1 .. n, j # k
      PROVE  \E i \in 1 .. n - 1 : w[i] = secs[j]
  <2>1. CASE j < k
    <3>1. j \in 1 .. n - 1 /\ w[j] = secs[j]
      BY <1>1, <2>1
    <3> QED
      BY <3>1
  <2>2. CASE ~(j < k)
    <3>1. j - 1 \in 1 .. n - 1 /\ w[j - 1] = secs[j]
      BY <1>1, <1>5, <2>2
    <3> QED
      BY <3>1
  <2> QED
    BY <2>1, <2>2
<1>6. \A j \in 1 .. n : secs[j].id # id <=> j # k
  BY <1>1, <1>2 DEF Distinct
<1> HIDE DEF from
<1>7. Distinct(w)
  BY <1>1, <1>4 DEF Distinct
<1>8. Entries(w) = {s \in Entries(secs) : s.id # id}
  <2>1. \A i \in 1 .. n - 1 : \E j \in 1 .. n : j # k /\ w[i] = secs[j]
    BY <1>3
  <2>2. ASSUME NEW i \in 1 .. n - 1
        PROVE  w[i] \in Entries(secs) /\ w[i].id # id
    BY <1>1, <1>6, <2>1 DEF Entries
  <2>3. ASSUME NEW s \in Entries(secs), s.id # id
        PROVE  \E i \in 1 .. n - 1 : w[i] = s
    <3>1. PICK j \in 1 .. n : s = secs[j]
      BY <1>1 DEF Entries
    <3> QED
      BY <1>5, <1>6, <2>3, <3>1
  <2>4. Entries(w) = {w[i] : i \in 1 .. n - 1}
    BY <1>1 DEF Entries
  <2> QED
    BY <2>2, <2>3, <2>4
<1> QED
  BY <1>7, <1>8 DEF w

\* An added section is the last one.
LEMMA AppendEntries ==
  ASSUME NEW S, NEW secs \in Seq(S), Distinct(secs), NEW s, s \in S, ~Has(secs, s.id)
  PROVE  /\ Append(secs, s) \in Seq(S)
         /\ Distinct(Append(secs, s))
         /\ Entries(Append(secs, s)) = Entries(secs) \cup {s}
<1>1. /\ Len(secs) \in Nat /\ DOMAIN secs = 1 .. Len(secs)
      /\ Append(secs, s) \in Seq(S)
      /\ DOMAIN Append(secs, s) = 1 .. Len(secs) + 1
      /\ \A i \in 1 .. Len(secs) : Append(secs, s)[i] = secs[i]
      /\ Append(secs, s)[Len(secs) + 1] = s
  OBVIOUS
<1>2. \A i \in DOMAIN secs : secs[i].id # s.id
  BY DEF Has, Positions
<1> DEFINE a == Append(secs, s)
<1> HIDE DEF a
<1>3. Distinct(a)
  BY <1>1, <1>2 DEF Distinct, a
<1>4. Entries(a) = Entries(secs) \cup {s}
  <2>1. \A i \in DOMAIN a : a[i] \in Entries(secs) \cup {s}
    BY <1>1 DEF Entries, a
  <2>2. \A x \in Entries(secs) \cup {s} : \E i \in DOMAIN a : a[i] = x
    BY <1>1 DEF Entries, a
  <2> QED
    BY <2>1, <2>2 DEF Entries
<1> QED
  BY <1>1, <1>3, <1>4 DEF a

LEMMA AddedTyped ==
  ASSUME NEW c, Typed(c), NEW id, ~Has(c.servers, id), ~Has(c.profiles, id)
  PROVE  /\ id \in ServerIds =>
              Typed([c EXCEPT !.servers = Append(@, NewServer(id))])
         /\ id \in ProfileIds =>
              Typed([c EXCEPT !.profiles = Append(@, NewProfile(id))])
<1>1. /\ \A i \in DOMAIN c.servers : c.servers[i].id # id
      /\ \A i \in DOMAIN c.profiles : c.profiles[i].id # id
  BY DEF Has, Positions
<1>2. ASSUME id \in ServerIds
      PROVE  Typed([c EXCEPT !.servers = Append(@, NewServer(id))])
  <2> DEFINE secs == Append(c.servers, NewServer(id))
             d == [c EXCEPT !.servers = secs]
  <2>1. NewServer(id) \in Servers /\ NewServer(id).id = id
    BY <1>2 DEF NewServer, Servers
  <2>2. /\ secs \in Seq(Servers) /\ Distinct(secs)
        /\ \A i \in DOMAIN secs : secs[i] \in Entries(c.servers) \cup {NewServer(id)}
    BY <2>1, ConfigFields, AppendEntries DEF Typed, Once, Entries
  <2> HIDE DEF secs
  <2>3. d \in Config /\ d.servers = secs /\ d.profiles = c.profiles
    BY <2>2 DEF Typed, Config
  <2> HIDE DEF d
  <2>4. Once(d)
    BY <1>1, <2>1, <2>2, <2>3 DEF Typed, Once, Entries
  <2> QED
    BY <2>3, <2>4 DEF Typed, d, secs
<1>3. ASSUME id \in ProfileIds
      PROVE  Typed([c EXCEPT !.profiles = Append(@, NewProfile(id))])
  <2> DEFINE secs == Append(c.profiles, NewProfile(id))
             d == [c EXCEPT !.profiles = secs]
  <2>1. NewProfile(id) \in Profiles /\ NewProfile(id).id = id
    BY <1>3 DEF NewProfile, Profiles
  <2>2. /\ secs \in Seq(Profiles) /\ Distinct(secs)
        /\ \A i \in DOMAIN secs : secs[i] \in Entries(c.profiles) \cup {NewProfile(id)}
    BY <2>1, ConfigFields, AppendEntries DEF Typed, Once, Entries
  <2> HIDE DEF secs
  <2>3. d \in Config /\ d.profiles = secs /\ d.servers = c.servers
    BY <2>2 DEF Typed, Config
  <2> HIDE DEF d
  <2>4. Once(d)
    BY <1>1, <2>1, <2>2, <2>3 DEF Typed, Once, Entries
  <2> QED
    BY <2>3, <2>4 DEF Typed, d, secs
<1> QED
  BY <1>2, <1>3

LEMMA RemovedTyped ==
  ASSUME NEW c, Typed(c), NEW id
  PROVE  /\ Has(c.servers, id) => Typed([c EXCEPT !.servers = Without(@, id)])
         /\ Has(c.profiles, id) => Typed([c EXCEPT !.profiles = Without(@, id)])
<1>1. ASSUME Has(c.servers, id)
      PROVE  Typed([c EXCEPT !.servers = Without(@, id)])
  <2> DEFINE secs == Without(c.servers, id)
             d == [c EXCEPT !.servers = secs]
  <2>1. /\ secs \in Seq(Servers) /\ Distinct(secs)
        /\ \A i \in DOMAIN secs : secs[i] \in Entries(c.servers)
    <3>1. c.servers \in Seq(Servers) /\ Distinct(c.servers)
      BY ConfigFields DEF Typed, Once
    <3>2. secs \in Seq(Servers)
      BY <1>1, <3>1, WithoutSection
    <3>3. Distinct(secs) /\ Entries(secs) \subseteq Entries(c.servers)
      BY <1>1, <3>1, WithoutEntries
    <3> HIDE DEF secs
    <3> QED
      BY <3>2, <3>3 DEF Entries
  <2> HIDE DEF secs
  <2>2. d \in Config /\ d.servers = secs /\ d.profiles = c.profiles
    BY <2>1 DEF Typed, Config
  <2> HIDE DEF d
  <2>3. Once(d)
    BY <2>1, <2>2 DEF Typed, Once, Entries
  <2> QED
    BY <2>2, <2>3 DEF Typed, d, secs
<1>2. ASSUME Has(c.profiles, id)
      PROVE  Typed([c EXCEPT !.profiles = Without(@, id)])
  <2> DEFINE secs == Without(c.profiles, id)
             d == [c EXCEPT !.profiles = secs]
  <2>1. /\ secs \in Seq(Profiles) /\ Distinct(secs)
        /\ \A i \in DOMAIN secs : secs[i] \in Entries(c.profiles)
    <3>1. c.profiles \in Seq(Profiles) /\ Distinct(c.profiles)
      BY ConfigFields DEF Typed, Once
    <3>2. secs \in Seq(Profiles)
      BY <1>2, <3>1, WithoutSection
    <3>3. Distinct(secs) /\ Entries(secs) \subseteq Entries(c.profiles)
      BY <1>2, <3>1, WithoutEntries
    <3> HIDE DEF secs
    <3> QED
      BY <3>2, <3>3 DEF Entries
  <2> HIDE DEF secs
  <2>2. d \in Config /\ d.profiles = secs /\ d.servers = c.servers
    BY <2>1 DEF Typed, Config
  <2> HIDE DEF d
  <2>3. Once(d)
    BY <2>1, <2>2 DEF Typed, Once, Entries
  <2> QED
    BY <2>2, <2>3 DEF Typed, d, secs
<1> QED
  BY <1>1, <1>2
\* Other typed values of one section.
LEMMA RenamedTyped ==
  ASSUME NEW c, Typed(c), NEW id, NEW n \in NamesOrNone, Has(c.servers, id)
  PROVE  /\ Typed([c EXCEPT !.servers = SetName(@, id, n)])
         /\ Typed([c EXCEPT !.servers[Position(c.servers, id)].profile = n])
<1> DEFINE k == Position(c.servers, id)
<1>1. c.servers \in Seq(Servers) /\ k \in 1 .. Len(c.servers)
  BY ConfigFields, SectionFound DEF Typed
<1> HIDE DEF k
<1>2. c.servers[k] \in Servers
  BY <1>1
<1>3. ASSUME NEW s \in Servers, s.id = c.servers[k].id
      PROVE  Typed([c EXCEPT !.servers[k] = s])
  <2> DEFINE secs == [c.servers EXCEPT ![k] = s]
  <2>1. /\ secs \in Seq(Servers) /\ Len(secs) = Len(c.servers)
        /\ \A i \in 1 .. Len(secs) : secs[i].id = c.servers[i].id
    BY <1>1, <1>3, ExceptSeq
  <2> HIDE DEF secs
  <2>2. Typed([c EXCEPT !.servers = secs])
    BY <2>1, ServersTyped
  <2> QED
    BY <2>2 DEF secs
<1>4. /\ [c.servers[k] EXCEPT !.name = n] \in Servers
      /\ [c.servers[k] EXCEPT !.name = n].id = c.servers[k].id
      /\ [c.servers[k] EXCEPT !.profile = n] \in Servers
      /\ [c.servers[k] EXCEPT !.profile = n].id = c.servers[k].id
  BY <1>2 DEF Servers, NamesOrNone
<1>5. /\ Typed([c EXCEPT !.servers[k] = [c.servers[k] EXCEPT !.name = n]])
      /\ Typed([c EXCEPT !.servers[k] = [c.servers[k] EXCEPT !.profile = n]])
  BY <1>3, <1>4
<1> QED
  BY <1>5 DEF SetName, k

LEMMA ProfileEditTyped ==
  ASSUME NEW c, Typed(c), NEW id, Has(c.profiles, id)
  PROVE  /\ \A n \in NamesOrNone : Typed([c EXCEPT !.profiles = SetName(@, id, n)])
         /\ \A mode \in {"vpn", "bypass"} :
              Typed([c EXCEPT !.profiles[Position(c.profiles, id)].mode = mode])
<1> DEFINE k == Position(c.profiles, id)
<1>1. c.profiles \in Seq(Profiles) /\ k \in 1 .. Len(c.profiles)
  BY ConfigFields, SectionFound DEF Typed
<1> HIDE DEF k
<1>2. c.profiles[k] \in Profiles
  BY <1>1
<1>3. ASSUME NEW r \in Profiles, r.id = c.profiles[k].id
      PROVE  Typed([c EXCEPT !.profiles[k] = r])
  <2> DEFINE secs == [c.profiles EXCEPT ![k] = r]
  <2>1. /\ secs \in Seq(Profiles) /\ Len(secs) = Len(c.profiles)
        /\ \A i \in 1 .. Len(secs) : secs[i].id = c.profiles[i].id
    BY <1>1, <1>3, ExceptSeq
  <2> HIDE DEF secs
  <2>2. Typed([c EXCEPT !.profiles = secs])
    BY <2>1, ProfilesTyped
  <2> QED
    BY <2>2 DEF secs
<1>4. ASSUME NEW n \in NamesOrNone
      PROVE  Typed([c EXCEPT !.profiles = SetName(@, id, n)])
  <2>1. /\ [c.profiles[k] EXCEPT !.name = n] \in Profiles
        /\ [c.profiles[k] EXCEPT !.name = n].id = c.profiles[k].id
    BY <1>2 DEF Profiles, NamesOrNone
  <2>2. Typed([c EXCEPT !.profiles[k] = [c.profiles[k] EXCEPT !.name = n]])
    BY <1>3, <2>1
  <2> QED
    BY <2>2 DEF SetName, k
<1>5. ASSUME NEW mode \in {"vpn", "bypass"}
      PROVE  Typed([c EXCEPT !.profiles[k].mode = mode])
  <2>1. /\ [c.profiles[k] EXCEPT !.mode = mode] \in Profiles
        /\ [c.profiles[k] EXCEPT !.mode = mode].id = c.profiles[k].id
    BY <1>2 DEF Profiles
  <2>2. Typed([c EXCEPT !.profiles[k] = [c.profiles[k] EXCEPT !.mode = mode]])
    BY <1>3, <2>1
  <2> QED
    BY <2>2
<1> QED
  BY <1>4, <1>5 DEF k

LEMMA ImportedTyped ==
  ASSUME NEW p, Typed(p), NEW id, Has(p.servers, id), NEW d \in Data,
         NEW host \in NamesOrNone
  PROVE  Typed(Imported(p, id, d, host))
<1> DEFINE k == Position(p.servers, id)
           name == IF p.servers[k].name = None THEN host ELSE p.servers[k].name
           s == [p.servers[k] EXCEPT !.data = d, !.name = name]
           secs == [p.servers EXCEPT ![k] = s]
           q == [p EXCEPT !.servers = secs]
<1>1. p.servers \in Seq(Servers) /\ k \in 1 .. Len(p.servers) /\ p.servers[k] \in Servers
  BY ConfigFields, SectionFound DEF Typed
<1>2. name \in NamesOrNone
  BY <1>1 DEF Servers, NamesOrNone
<1>3. s \in Servers /\ s.id = p.servers[k].id
  <2> HIDE DEF name, k
  <2> QED
    BY <1>1, <1>2 DEF Servers, NamesOrNone
<1>4. Typed(q)
  <2> HIDE DEF s, k
  <2>1. /\ secs \in Seq(Servers) /\ Len(secs) = Len(p.servers)
        /\ \A i \in 1 .. Len(secs) : secs[i].id = p.servers[i].id
    BY <1>1, <1>3, ExceptSeq
  <2> HIDE DEF secs
  <2> QED
    BY <2>1, ServersTyped
<1>5. Typed([q EXCEPT !.endpoint = name])
  <2> HIDE DEF q, name
  <2> QED
    BY <1>2, <1>4, SelectingTyped
<1>6. [p EXCEPT !.servers[k].data = d, !.servers[k].name = name] = q
  <2> HIDE DEF k, name
  <2> QED
    BY <1>1 DEF Typed, Config, Servers
<1>7. Imported(p, id, d, host) \in {q, [q EXCEPT !.endpoint = name]}
  <2> DEFINE z == [p EXCEPT !.servers[k].data = d, !.servers[k].name = name]
  <2>1. Imported(p, id, d, host) =
          IF HasActive(z) \/ name = None THEN z ELSE [z EXCEPT !.endpoint = name]
    BY DEF Imported
  <2> HIDE DEF z, q, name
  <2>2. z = q
    BY <1>6 DEF z, q, name
  <2> QED
    BY <2>1, <2>2
<1> HIDE DEF q, name
<1> QED
  BY <1>4, <1>5, <1>7
LEMMA DocumentTyped ==
  ASSUME TypeInv, UNCHANGED <<staged, budget>>, etc' \in {etc, staged}, Document(staged)
  PROVE  TypeInv'
<1>1. Typed(staged)
  BY DEF TypeInv, TypeOK, Typed
<1>2. /\ ViewOf(staged).choices \in Seq(NamesOrNone)
      /\ ViewOf(staged).offered \subseteq NamesOrNone
  BY <1>1, ChoicesTyped
<1>3. Typed(Fields(staged, ViewOf(staged).choices))
  BY <1>1, <1>2, FieldsTyped
<1> QED
  BY <1>1, <1>2, <1>3 DEF Document, TypeInv, TypeOK, Typed, Imports

\* Typing and choosing: the form changes, and the cache perhaps.
LEMMA EditTyped ==
  ASSUME TypeInv, NEW kind \in Events, Edited(kind), Typed(form'), Typed(page'),
         moves' \in 0 .. 2
  PROVE  TypeInv'
<1>1. budget' \in [Events -> Nat]
  BY SpendTyped DEF Edited, TypeInv, TypeOK
<1> QED
  BY <1>1 DEF Edited, stored, TypeInv, TypeOK, Typed

LEMMA TypingTyped ==
  ASSUME TypeInv, Typing
  PROVE  TypeInv'
<1>1. Typed(form) /\ Typed(page) /\ moves \in 0 .. 2
  BY DEF TypeInv, TypeOK, Typed
<1>2. Moved => moves' \in 0 .. 2
  BY <1>1 DEF Moved
<1>3. ASSUME NEW id \in ServerIds, NEW n \in Names \cup {None}, EditName(id, n)
      PROVE  TypeInv'
  <2>1. Typed(form')
    BY <1>1, <1>3, RenamedTyped DEF EditName, NamesOrNone
  <2>2. Typed(page')
    BY <1>1, <1>3, SelectingTyped DEF EditName, FollowRename, NamesOrNone
  <2> QED
    BY <1>2, <1>3, <2>1, <2>2, EditTyped DEF EditName, Events
<1>4. ASSUME NEW id \in ProfileIds, NEW n \in Names \cup {None}, EditProfileName(id, n)
      PROVE  TypeInv'
  <2>1. Typed(form')
    BY <1>1, <1>4, ProfileEditTyped DEF EditProfileName, NamesOrNone
  <2> QED
    BY <1>1, <1>2, <1>4, <2>1, EditTyped DEF EditProfileName, Events
<1>5. ASSUME NEW n \in Names \cup {None}, PickServer(n)
      PROVE  TypeInv'
  <2>1. Typed(form')
    BY <1>1, <1>5, SelectingTyped DEF PickServer, NamesOrNone
  <2> QED
    BY <1>1, <1>2, <1>5, <2>1, EditTyped DEF PickServer, Events
<1>6. ASSUME NEW id \in ServerIds, NEW n \in Names \cup {None}, AssignProfile(id, n)
      PROVE  TypeInv'
  <2>1. Typed(form')
    BY <1>1, <1>6, RenamedTyped DEF AssignProfile, NamesOrNone
  <2> QED
    BY <1>1, <1>6, <2>1, EditTyped DEF AssignProfile, Events
<1>7. ASSUME NEW id \in ProfileIds, NEW mode \in {"vpn", "bypass"}, EditMode(id, mode)
      PROVE  TypeInv'
  <2>1. Typed(form')
    BY <1>1, <1>7, ProfileEditTyped DEF EditMode
  <2> QED
    BY <1>1, <1>7, <2>1, EditTyped DEF EditMode, Events
<1>8. ASSUME NEW option, NEW v, EditProxy(option, v),
             \/ option = "address" /\ v \in {Loopback, Everywhere}
             \/ option \in {"username", "password"} /\ v \in Secrets \cup {None}
      PROVE  TypeInv'
  <2>1. Typed([form EXCEPT ![option] = v])
    <3>1. CASE option = "address" /\ v \in {Loopback, Everywhere}
      BY <1>1, <3>1 DEF Typed, Config, Once
    <3>2. CASE option = "username" /\ v \in Secrets \cup {None}
      BY <1>1, <3>2 DEF Typed, Config, Once
    <3>3. CASE option = "password" /\ v \in Secrets \cup {None}
      BY <1>1, <3>3 DEF Typed, Config, Once
    <3> QED
      BY <1>8, <3>1, <3>2, <3>3
  <2> QED
    BY <1>1, <1>8, <2>1, EditTyped DEF EditProxy, Events
<1> QED
  BY <1>3, <1>4, <1>5, <1>6, <1>7, <1>8 DEF Typing

LEMMA ImportingTyped ==
  ASSUME TypeInv, Importing
  PROVE  TypeInv'
<1>1. ASSUME UNCHANGED <<stored, page, loaded, form, view, moves>>,
             budget' \in [Events -> Nat], import' \in Imports
      PROVE  TypeInv'
  BY <1>1 DEF stored, TypeInv, TypeOK
<1>2. ASSUME NEW id \in ServerIds, OpenImport(id)
      PROVE  TypeInv'
  <2>1. import' \in Imports /\ budget' \in [Events -> Nat]
    BY <1>2 DEF OpenImport, Imports, TypeInv, TypeOK
  <2> QED
    BY <1>1, <1>2, <2>1 DEF OpenImport
<1>3. CASE PressImport
  <2>1. import' \in Imports
    BY <1>3 DEF PressImport, Imports, TypeInv, TypeOK
  <2>2. budget' \in [Events -> Nat]
    BY <1>3, SpendTyped DEF PressImport, Events, TypeInv, TypeOK
  <2> QED
    BY <1>1, <1>3, <2>1, <2>2 DEF PressImport
<1>4. CASE CloseImport
  <2>1. import' \in Imports /\ budget' \in [Events -> Nat]
    BY <1>4 DEF CloseImport, Imports, TypeInv, TypeOK
  <2> QED
    BY <1>1, <1>4, <2>1 DEF CloseImport
<1>5. CASE ImportRefused
  <2>1. import' \in Imports
    BY <1>5 DEF ImportRefused, Imports, TypeInv, TypeOK
  <2>2. budget' \in [Events -> Nat]
    BY <1>5, SpendTyped DEF ImportRefused, Events, TypeInv, TypeOK
  <2> QED
    BY <1>1, <1>5, <2>1, <2>2 DEF ImportRefused
<1>6. ASSUME NEW d \in Data, NEW host \in Names \cup {None}, NEW fails \in BOOLEAN,
             ImportArrived(d, host, fails)
      PROVE  TypeInv'
  <2>1. Typed(page')
    BY <1>6, ImportedTyped DEF ImportArrived, NamesOrNone, TypeInv, TypeOK, Typed
  <2>2. staged' \in {staged, page'} /\ import' \in Imports /\ moves' \in 0 .. 2
    BY <1>6 DEF ImportArrived, Moved, Imports
  <2>3. budget' \in [Events -> Nat]
    BY <1>6, SpendTyped DEF ImportArrived, Faults, Events, TypeInv, TypeOK
  <2> QED
    BY <1>6, <2>1, <2>2, <2>3 DEF ImportArrived, TypeInv, TypeOK, Typed
<1> QED
  BY <1>2, <1>3, <1>4, <1>5, <1>6 DEF Importing

LEMMA TypeStep ==
  ASSUME TypeInv, [Next]_vars
  PROVE  TypeInv'
<1>1. Typed(page) /\ moves \in 0 .. 2 /\ budget \in [Events -> Nat]
  BY DEF TypeInv, TypeOK, Typed
<1>2. \A kinds : kinds \subseteq Events /\ Spend(kinds) => budget' \in [Events -> Nat]
  BY <1>1, SpendTyped
<1>3. Moved => moves' \in 0 .. 2
  BY <1>1 DEF Moved
<1>4. ASSUME NEW fails \in BOOLEAN, Save(fails)
      PROVE  TypeInv'
  <2>1. budget' \in [Events -> Nat] /\ moves' \in 0 .. 2
    BY <1>1, <1>2, <1>4 DEF Save, Faults, Events
  <2> QED
    BY <1>1, <1>4, <2>1, SaveTyped DEF Save
<1>5. ASSUME NEW fails \in BOOLEAN, Sections(fails)
      PROVE  TypeInv'
  <2>1. PICK p : Typed(p) /\ SaveOver(p, fails)
    BY <1>1, <1>5, AddedTyped, RemovedTyped
       DEF Sections, AddServer, AddProfile, RemoveServer, RemoveProfile, Unused
  <2>2. Spend({"section"} \cup Faults(fails)) /\ Moved
    BY <1>5 DEF Sections, AddServer, AddProfile, RemoveServer, RemoveProfile
  <2>3. budget' \in [Events -> Nat] /\ moves' \in 0 .. 2
    BY <1>2, <1>3, <2>2 DEF Faults, Events
  <2> QED
    BY <2>1, <2>3, SaveTyped
<1>6. CASE Reload
  BY <1>6, DocumentTyped DEF Reload, stored
<1>7. CASE Apply
  BY <1>7, DocumentTyped DEF Apply
<1>8. CASE UNCHANGED vars
  BY <1>8 DEF vars, stored, TypeInv, TypeOK
<1> QED
  BY <1>4, <1>5, <1>6, <1>7, <1>8, TypingTyped, ImportingTyped DEF Next

LEMMA TypeInit ==
  ASSUME Init
  PROVE  TypeInv
<1>1. Typed(etc) /\ budget \in [Events -> Nat]
  BY SettingsPageAssumption DEF Init, Typed
<1>2. /\ view.choices \in Seq(NamesOrNone)
      /\ view.offered \subseteq NamesOrNone
  BY <1>1, ChoicesTyped DEF Init
<1>3. Typed(form)
  BY <1>1, <1>2, FieldsTyped DEF Init
<1> QED
  BY <1>1, <1>2, <1>3 DEF Init, TypeInv, TypeOK, Typed, Imports

\* Whatever is stored, cached, loaded or typed is a configuration in which no
\* section appears twice, for any sections, names and length of the session.
THEOREM SettingsPageTyped == Spec => []TypeOK
<1>1. Init => TypeInv
  BY TypeInit
<1>2. TypeInv /\ [Next]_vars => TypeInv'
  BY TypeStep
<1>3. TypeInv => TypeOK
  BY DEF TypeInv
<1> QED
  BY <1>1, <1>2, <1>3, PTL DEF Spec
-----------------------------------------------------------------------------
(* The preview.                                                            *)

\* A name given once is found at one position, whether the first or the last
\* is looked for.
LEMMA NamedOnce ==
  ASSUME NEW secs, NEW m \in Nat, DOMAIN secs = 1 .. m, Unique(secs),
         NEW n, n # None, NEW i \in Named(secs, n)
  PROVE  Named(secs, n) = {i} /\ Min(Named(secs, n)) = i /\ Max(Named(secs, n)) = i
<1>1. Named(secs, n) = {i} /\ i \in Nat
  BY DEF Unique, Named
<1>2. Min({i}) = i /\ Max({i}) = i
  BY <1>1 DEF Min, Max
<1> QED
  BY <1>1, <1>2

LEMMA PreviewOfTyped ==
  ASSUME TypeOK
  PROVE  PreviewIsInForce
<1> SUFFICES ASSUME etc = page, view = ViewOf(etc),
                    Unique(etc.servers), Unique(etc.profiles),
                    NEW id \in ProfileIds, NameOf(view.profiles, id) # None
             PROVE  Preview(id) = LET r == ProfileInForce(etc) IN
                                  IF ~Has(etc.profiles, id) THEN "nothing"
                                  ELSE IF r = None \/ r.id # id THEN "not assigned"
                                  ELSE r.mode
  BY DEF PreviewIsInForce
<1> DEFINE c == etc
           shown == NameOf(c.profiles, id)
<1>1. /\ DOMAIN c.servers = 1 .. Len(c.servers) /\ Len(c.servers) \in Nat
      /\ DOMAIN c.profiles = 1 .. Len(c.profiles) /\ Len(c.profiles) \in Nat
      /\ \A i \in DOMAIN c.servers : c.servers[i] \in Servers
      /\ \A i \in DOMAIN c.profiles : c.profiles[i] \in Profiles
      /\ Distinct(c.profiles)
  BY ConfigFields DEF TypeOK, Once
<1>2. view.profiles = c.profiles /\ shown # None
  BY DEF ViewOf
<1>3. CASE ~Has(c.profiles, id)
  BY <1>2, <1>3 DEF Preview
<1>4. ASSUME Has(c.profiles, id), ~HasActive(c)
      PROVE  Preview(id) = "not assigned" /\ ProfileInForce(c) = None
  <2>1. view.active = None
    BY <1>4 DEF ViewOf
  <2>2. LastNamed(c.servers, c.endpoint) = None
    BY <1>4 DEF LastNamed, HasActive
  <2> QED
    BY <1>2, <1>4, <2>1, <2>2 DEF Preview, ProfileInForce
<1>5. ASSUME Has(c.profiles, id), HasActive(c)
      PROVE  Preview(id) = LET r == ProfileInForce(c) IN
                           IF r = None \/ r.id # id THEN "not assigned" ELSE r.mode
  <2>1. PICK k \in Named(c.servers, c.endpoint) : TRUE
    BY <1>5 DEF HasActive
  <2> DEFINE s == c.servers[k]
             r == ProfileInForce(c)
  <2>2. Min(Named(c.servers, c.endpoint)) = k /\ Max(Named(c.servers, c.endpoint)) = k
    BY <1>1, <1>5, <2>1, NamedOnce DEF HasActive
  <2>3. s \in Servers /\ s # None
    BY <1>1, <2>1, SettingsPageAssumption DEF Named
  <2>4. view.active = s.profile /\ LastNamed(c.servers, c.endpoint) = s
    BY <1>5, <2>1, <2>2 DEF ViewOf, LastNamed, HasActive
  <2>5. r = LastNamed(c.profiles, s.profile)
    BY <2>3, <2>4 DEF ProfileInForce
  <2> DEFINE j == Position(c.profiles, id)
  <2>6. /\ j \in DOMAIN c.profiles /\ Section(c.profiles, id) = c.profiles[j]
        /\ c.profiles[j].id = id /\ shown = c.profiles[j].name
    BY <1>5, SectionFound DEF NameOf
  <2> HIDE DEF s, r, j, shown
  <2>7. CASE shown = s.profile
    <3>1. j \in Named(c.profiles, s.profile)
      BY <2>6, <2>7 DEF Named
    <3>2. Max(Named(c.profiles, s.profile)) = j
      BY <1>1, <1>2, <2>7, <3>1, NamedOnce
    <3>3. r = c.profiles[j]
      BY <1>2, <2>5, <2>7, <3>1, <3>2 DEF LastNamed
    <3>4. r # None
      BY <1>1, <2>6, <3>3, SettingsPageAssumption
    <3>5. Preview(id) = c.profiles[j].mode
      BY <1>2, <1>5, <2>4, <2>6, <2>7 DEF Preview, shown
    <3> QED
      BY <2>6, <3>3, <3>4, <3>5 DEF r
  <2>8. CASE shown # s.profile
    <3>1. Preview(id) = "not assigned"
      BY <1>2, <1>5, <2>4, <2>8 DEF Preview, shown
    <3>2. ASSUME r # None, r.id = id
          PROVE  FALSE
      <4> DEFINE N == Named(c.profiles, s.profile)
      <4>1. s.profile # None /\ N # {} /\ r = c.profiles[Max(N)]
        BY <2>5, <3>2 DEF LastNamed
      <4>2. PICK i \in N : TRUE
        BY <4>1
      <4>3. Max(N) = i /\ i \in DOMAIN c.profiles /\ c.profiles[i].name = s.profile
        <5>1. Max(N) = i
          BY <1>1, <4>1, <4>2, NamedOnce
        <5> QED
          BY <4>2, <5>1 DEF Named
      <4> HIDE DEF N
      <4>4. i = j
        BY <1>1, <2>6, <3>2, <4>1, <4>3 DEF Distinct
      <4> QED
        BY <2>6, <2>8, <4>3, <4>4
    <3> QED
      BY <3>1, <3>2 DEF r
  <2> QED
    BY <2>7, <2>8
<1> QED
  BY <1>3, <1>4, <1>5

\* With names given once, the preview of an applied document shows the mode of
\* the profile the scripts take, and of no other.
THEOREM PreviewInForce == Spec => []PreviewIsInForce
<1>1. TypeOK => PreviewIsInForce
  BY PreviewOfTyped
<1> QED
  BY <1>1, SettingsPageTyped, PTL
-----------------------------------------------------------------------------
(* Names.  What a save makes of the names of the sections ps, when the      *)
(* fields hold fs and were loaded with ls.                                  *)

SameIds(ps, qs) == DOMAIN ps = DOMAIN qs /\ \A i \in DOMAIN ps : ps[i].id = qs[i].id

SameNames(ps, qs) == SameIds(ps, qs) /\ \A i \in DOMAIN ps : ps[i].name = qs[i].name

Rewritten(fs, ls, ps, s) ==
  IF ~Has(fs, s.id) THEN s.name
  ELSE Field(NameValid(ps, s.id, Section(fs, s.id).name),
         Section(fs, s.id).name, Section(ls, s.id).name, s.name)

Rewrites(fs, ls, ps, qs) ==
  SameIds(ps, qs) /\ \A i \in DOMAIN ps : qs[i].name = Rewritten(fs, ls, ps, ps[i])

\* Only the fields of section x may differ from what was loaded.
OnlyTyped(fs, ls, x) ==
  SameIds(fs, ls) /\ \A i \in DOMAIN fs : fs[i].id # x => fs[i].name = ls[i].name

\* A field that is empty cannot be saved.
Blocked(fs, ps) == \E i \in DOMAIN fs : fs[i].name = None /\ Has(ps, fs[i].id)

\* The cache has the names of the fields, but for x, where it has what was
\* loaded, or what an import put there.
CachedBut(fs, ls, ps, x) ==
  \A i \in DOMAIN fs :
    Has(ps, fs[i].id) =>
      IF fs[i].id = x
      THEN fs[i].name = None \/ NameOf(ps, x) \in {fs[i].name, ls[i].name}
      ELSE NameOf(ps, fs[i].id) = fs[i].name

LEMMA FoundAt ==
  ASSUME NEW secs, Distinct(secs), NEW i \in DOMAIN secs
  PROVE  /\ Has(secs, secs[i].id)
         /\ Section(secs, secs[i].id) = secs[i]
         /\ NameOf(secs, secs[i].id) = secs[i].name
BY SectionHere DEF Distinct

LEMMA SamePlaces ==
  ASSUME NEW ps, NEW qs, SameIds(ps, qs), NEW id
  PROVE  /\ Has(ps, id) <=> Has(qs, id)
         /\ Position(ps, id) = Position(qs, id)
         /\ Distinct(ps) <=> Distinct(qs)
<1>1. Positions(ps, id) = Positions(qs, id)
  BY DEF SameIds, Positions
<1> QED
  BY <1>1 DEF Has, Position, Distinct, SameIds

LEMMA SameNamesGive ==
  ASSUME NEW ps, NEW qs, SameNames(ps, qs)
  PROVE  /\ \A n : Named(ps, n) = Named(qs, n)
         /\ \A id : NameOf(ps, id) = NameOf(qs, id)
         /\ Unique(ps) <=> Unique(qs)
<1>1. \A n : Named(ps, n) = Named(qs, n)
  BY DEF SameNames, SameIds, Named
<1>2. ASSUME NEW id
      PROVE  NameOf(ps, id) = NameOf(qs, id)
  BY SamePlaces, SectionFound DEF SameNames, SameIds, NameOf, Section
<1>3. Unique(ps) <=> Unique(qs)
  BY DEF SameNames, SameIds, Unique
<1> QED
  BY <1>1, <1>2, <1>3

\* The name a section is saved with.
LEMMA RewrittenAt ==
  ASSUME NEW fs, NEW ls, Distinct(fs), SameIds(fs, ls), NEW ps, NEW s
  PROVE  /\ ~Has(fs, s.id) => Rewritten(fs, ls, ps, s) = s.name
         /\ \A i \in DOMAIN fs :
              fs[i].id = s.id =>
                Rewritten(fs, ls, ps, s) =
                  IF NameValid(ps, s.id, fs[i].name) /\ fs[i].name # ls[i].name
                  THEN fs[i].name ELSE s.name
<1>1. ASSUME NEW i \in DOMAIN fs, fs[i].id = s.id
      PROVE  Has(fs, s.id) /\ Section(fs, s.id) = fs[i] /\ Section(ls, s.id) = ls[i]
  <2>1. Distinct(ls) /\ i \in DOMAIN ls /\ ls[i].id = s.id
    BY <1>1, SamePlaces DEF SameIds
  <2> QED
    BY <1>1, <2>1, FoundAt
<1> QED
  BY <1>1 DEF Rewritten, Field

\* Where nothing was typed nothing is renamed.
LEMMA NothingRewritten ==
  ASSUME NEW fs, NEW ls, Distinct(fs), SameNames(fs, ls), NEW ps, NEW s
  PROVE  Rewritten(fs, ls, ps, s) = s.name
<1>1. CASE ~Has(fs, s.id)
  BY <1>1 DEF Rewritten
<1>2. CASE Has(fs, s.id)
  <2>1. PICK i \in DOMAIN fs : fs[i].id = s.id
    BY <1>2, SectionFound
  <2> QED
    BY <2>1, RewrittenAt DEF SameNames
<1> QED
  BY <1>1, <1>2

\* Only section x is renamed, and only to a name that is nobody else's.
LEMMA OneRewritten ==
  ASSUME NEW fs, NEW ls, NEW x, Distinct(fs), OnlyTyped(fs, ls, x), NEW ps, NEW s,
         Rewritten(fs, ls, ps, s) # s.name
  PROVE  /\ s.id = x
         /\ NameValid(ps, x, Rewritten(fs, ls, ps, s))
         /\ \E i \in DOMAIN fs : /\ fs[i].id = x
                                 /\ Rewritten(fs, ls, ps, s) = fs[i].name
                                 /\ fs[i].name # ls[i].name
<1>1. Has(fs, s.id)
  BY DEF Rewritten
<1>2. PICK i \in DOMAIN fs : fs[i].id = s.id
  BY <1>1, SectionFound
<1>3. Rewritten(fs, ls, ps, s) =
        IF NameValid(ps, s.id, fs[i].name) /\ fs[i].name # ls[i].name
        THEN fs[i].name ELSE s.name
  BY <1>2, RewrittenAt DEF OnlyTyped
<1> QED
  BY <1>2, <1>3 DEF OnlyTyped

\* One renaming at a time gives no two sections one name.
LEMMA RewritingKeepsUnique ==
  ASSUME NEW fs, NEW ls, NEW x, Distinct(fs), OnlyTyped(fs, ls, x),
         NEW ps, NEW qs, Distinct(ps), Rewrites(fs, ls, ps, qs), Unique(ps)
  PROVE  Unique(qs)
<1> SUFFICES ASSUME NEW i \in DOMAIN qs, NEW j \in DOMAIN qs,
                    qs[i].name = qs[j].name, i # j, qs[i].name # None
             PROVE  FALSE
  BY DEF Unique
<1>1. i \in DOMAIN ps /\ j \in DOMAIN ps /\ ps[i].id # ps[j].id
  BY DEF Rewrites, SameIds, Distinct
<1>2. /\ qs[i].name = Rewritten(fs, ls, ps, ps[i])
      /\ qs[j].name = Rewritten(fs, ls, ps, ps[j])
  BY <1>1 DEF Rewrites
<1>0. ASSUME NEW k \in DOMAIN ps, Rewritten(fs, ls, ps, ps[k]) # ps[k].name
      PROVE  ps[k].id = x /\ NameValid(ps, x, Rewritten(fs, ls, ps, ps[k]))
  BY <1>0, OneRewritten
<1>3. CASE qs[i].name = ps[i].name /\ qs[j].name = ps[j].name
  BY <1>1, <1>3 DEF Unique
<1>4. CASE qs[i].name # ps[i].name
  <2>1. ps[i].id = x /\ NameValid(ps, x, qs[i].name)
    BY <1>0, <1>1, <1>2, <1>4
  <2>2. qs[j].name = ps[j].name
    BY <1>0, <1>1, <1>2, <2>1
  <2> QED
    BY <1>1, <2>1, <2>2 DEF NameValid, Named
<1>5. CASE qs[j].name # ps[j].name
  <2>1. ps[j].id = x /\ NameValid(ps, x, qs[j].name)
    BY <1>0, <1>1, <1>2, <1>5
  <2>2. qs[i].name = ps[i].name
    BY <1>0, <1>1, <1>2, <2>1
  <2> QED
    BY <1>1, <2>1, <2>2 DEF NameValid, Named
<1> QED
  BY <1>3, <1>4, <1>5

\* Saving again changes no name again.
LEMMA RewritingSettles ==
  ASSUME NEW fs, NEW ls, NEW x, Distinct(fs), OnlyTyped(fs, ls, x),
         NEW ps, NEW qs, Distinct(ps), Rewrites(fs, ls, ps, qs), NEW i \in DOMAIN qs
  PROVE  Rewritten(fs, ls, qs, qs[i]) = qs[i].name
<1> SUFFICES ASSUME Rewritten(fs, ls, qs, qs[i]) # qs[i].name
             PROVE  FALSE
  OBVIOUS
<1> DEFINE v == Rewritten(fs, ls, qs, qs[i])
<1>1. i \in DOMAIN ps /\ ps[i].id = qs[i].id
  BY DEF Rewrites, SameIds
<1>2. qs[i].id = x /\ NameValid(qs, x, v)
  BY OneRewritten
<1>3. PICK k \in DOMAIN fs : fs[k].id = x /\ v = fs[k].name /\ fs[k].name # ls[k].name
  BY OneRewritten
<1>4. qs[i].name = IF NameValid(ps, x, v) THEN v ELSE ps[i].name
  <2>1. qs[i].name = Rewritten(fs, ls, ps, ps[i])
    BY <1>1 DEF Rewrites
  <2>2. SameIds(fs, ls) /\ fs[k].id = ps[i].id
    BY <1>1, <1>2, <1>3 DEF OnlyTyped
  <2> QED
    BY <1>1, <1>2, <1>3, <2>1, <2>2, RewrittenAt
<1>5. PICK j \in DOMAIN ps : ps[j].name = v /\ ps[j].id # x
  BY <1>2, <1>4 DEF NameValid, Named
<1>6. j \in DOMAIN qs /\ qs[j].id = ps[j].id /\ qs[j].name = v
  BY <1>5, OneRewritten DEF Rewrites, SameIds
<1> QED
  BY <1>2, <1>5, <1>6 DEF NameValid, Named

\* The cache a save leaves has again the names of the fields, but for x.
LEMMA RewritingKeepsCached ==
  ASSUME NEW fs, NEW ls, NEW x, Distinct(fs), OnlyTyped(fs, ls, x),
         NEW ps, NEW qs, Distinct(ps), Rewrites(fs, ls, ps, qs), CachedBut(fs, ls, ps, x)
  PROVE  CachedBut(fs, ls, qs, x)
<1> SUFFICES ASSUME NEW i \in DOMAIN fs, Has(qs, fs[i].id)
             PROVE  IF fs[i].id = x
                    THEN fs[i].name = None \/ NameOf(qs, x) \in {fs[i].name, ls[i].name}
                    ELSE NameOf(qs, fs[i].id) = fs[i].name
  BY DEF CachedBut
<1> DEFINE id == fs[i].id
<1>1. PICK k \in DOMAIN qs : qs[k].id = id
  BY SectionFound
<1>2. /\ k \in DOMAIN ps /\ ps[k].id = id /\ Distinct(qs)
      /\ qs[k].name = Rewritten(fs, ls, ps, ps[k])
  BY <1>1, SamePlaces DEF Rewrites, SameIds
<1>3. Has(ps, id) /\ NameOf(ps, id) = ps[k].name /\ NameOf(qs, id) = qs[k].name
  BY <1>1, <1>2, FoundAt
<1>4. CASE qs[k].name = ps[k].name
  BY <1>3, <1>4 DEF CachedBut
<1>5. CASE qs[k].name # ps[k].name
  <2>1. id = x
    BY <1>2, <1>5, OneRewritten
  <2>2. PICK j \in DOMAIN fs : fs[j].id = x /\ qs[k].name = fs[j].name
    BY <1>2, <1>5, OneRewritten
  <2>3. j = i
    BY <2>1, <2>2 DEF Distinct
  <2> QED
    BY <1>3, <2>1, <2>2, <2>3
<1> QED
  BY <1>4, <1>5

\* No validator has a renaming to follow after a save.
LEMMA RewritingMovesNothing ==
  ASSUME NEW fs, NEW ls, NEW x, Distinct(fs), OnlyTyped(fs, ls, x),
         NEW ps, NEW q, Distinct(ps), Rewrites(fs, ls, ps, q.servers),
         CachedBut(fs, ls, ps, x), NEW i \in DOMAIN fs
  PROVE  ~Renames(q, fs[i].id, fs[i].name)
<1> SUFFICES ASSUME Renames(q, fs[i].id, fs[i].name)
             PROVE  FALSE
  OBVIOUS
<1> DEFINE id == fs[i].id
           n == fs[i].name
           qs == q.servers
<1>1. Has(qs, id) /\ NameValid(qs, id, n) /\ n # NameOf(qs, id) /\ n # None
  BY DEF Renames, NameValid
<1>2. PICK k \in DOMAIN qs : qs[k].id = id
  BY <1>1, SectionFound
<1>3. /\ k \in DOMAIN ps /\ ps[k].id = id /\ Distinct(qs)
      /\ qs[k].name = Rewritten(fs, ls, ps, ps[k])
  BY <1>2, SamePlaces DEF Rewrites, SameIds
<1>4. Has(ps, id) /\ NameOf(ps, id) = ps[k].name /\ NameOf(qs, id) = qs[k].name
  BY <1>2, <1>3, FoundAt
<1>5. SameIds(fs, ls)
  BY DEF OnlyTyped
<1>6. n = ls[i].name
  <2>1. Rewritten(fs, ls, qs, qs[k]) = qs[k].name
    BY <1>2, RewritingSettles
  <2>2. Rewritten(fs, ls, qs, qs[k]) = IF n # ls[i].name THEN n ELSE qs[k].name
    BY <1>1, <1>2, <1>5, RewrittenAt
  <2> QED
    BY <1>1, <1>4, <2>1, <2>2
<1>7. qs[k].name = ps[k].name
  BY <1>3, <1>5, <1>6, RewrittenAt
<1> QED
  BY <1>1, <1>4, <1>6, <1>7 DEF CachedBut
-----------------------------------------------------------------------------
(* What a document knows.  Until something moves (moves = 0) the cache, what *)
(* was loaded and the fields have the names of the session's configuration;  *)
(* after one move they differ in one name or in the selection.               *)

Alike(p, q) ==
  /\ SameNames(p.servers, q.servers) /\ SameNames(p.profiles, q.profiles)
  /\ \A i \in DOMAIN p.servers : p.servers[i].data = q.servers[i].data

Listed(n) == \E i \in DOMAIN view.choices : view.choices[i] = n

Fresh ==
  /\ Alike(page, staged) /\ Alike(loaded, staged) /\ Alike(form, staged)
  /\ loaded.endpoint = staged.endpoint
  /\ page.endpoint \in {staged.endpoint, form.endpoint}
  /\ staged.endpoint # None => form.endpoint = staged.endpoint
  /\ IF form.endpoint = None
     THEN staged.servers = <<>> \/ Named(staged.servers, None) # {}
     ELSE Listed(form.endpoint)
  /\ (staged.endpoint = None \/ HasActive(staged)) =>
       \A i \in DOMAIN view.choices : Named(staged.servers, view.choices[i]) # {}
  /\ \A i \in DOMAIN staged.servers : Listed(staged.servers[i].name)

\* The selection a save makes of e, when the picker holds f's and was loaded
\* with l's.
Selects(f, l, e) ==
  IF f.endpoint = None THEN None ELSE Field(TRUE, f.endpoint, l.endpoint, e)

\* After a save the selection names a server.
StaysActive(f, l, p) ==
  /\ Selects(f, l, p.endpoint) # None
  /\ \E i \in DOMAIN p.servers :
       Rewritten(f.servers, l.servers, p.servers, p.servers[i]) =
         Selects(f, l, p.endpoint)

MovedOnce ==
  /\ \E x \in ServerIds \cup {None} :
       /\ OnlyTyped(form.servers, loaded.servers, x)
       /\ CachedBut(form.servers, loaded.servers, page.servers, x)
  /\ \E y \in ProfileIds \cup {None} : OnlyTyped(form.profiles, loaded.profiles, y)
  /\ \A i \in DOMAIN form.servers :
       ~Renames(page, form.servers[i].id, form.servers[i].name)
  /\ Unique(staged.servers) =>
       Unique(page.servers) \/ Blocked(form.servers, page.servers)
  /\ Unique(staged.profiles) => Unique(page.profiles)
  /\ HasActive(staged) =>
       \/ Blocked(form.servers, page.servers)
       \/ /\ Listed(staged.endpoint)
          /\ page.servers = <<>> \/ StaysActive(form, loaded, page)

FollowInv ==
  /\ TypeInv
  /\ moves = 0 => Fresh
  /\ moves = 1 => MovedOnce
LEMMA AlikeGives ==
  ASSUME NEW p, NEW q, Alike(p, q)
  PROVE  /\ Alike(q, p)
         /\ \A r : Alike(q, r) => Alike(p, r)
         /\ \A n : Named(p.servers, n) = Named(q.servers, n)
         /\ \A id : NameOf(p.servers, id) = NameOf(q.servers, id)
         /\ \A id : Has(p.servers, id) <=> Has(q.servers, id)
         /\ Unique(p.servers) <=> Unique(q.servers)
         /\ Unique(p.profiles) <=> Unique(q.profiles)
<1>1. Alike(q, p)
  BY DEF Alike, SameNames, SameIds
<1>2. ASSUME NEW r, Alike(q, r)
      PROVE  Alike(p, r)
  BY <1>2 DEF Alike, SameNames, SameIds
<1> QED
  BY <1>1, <1>2, SameNamesGive, SamePlaces DEF Alike, SameNames

LEMMA EmptyAlike ==
  ASSUME NEW S, NEW ps \in Seq(S), NEW T, NEW qs \in Seq(T), SameIds(ps, qs), ps = <<>>
  PROVE  qs = <<>>
<1>1. Len(qs) \in Nat /\ DOMAIN qs = 1 .. Len(qs) /\ DOMAIN qs = {}
  BY DEF SameIds
<1>2. Len(qs) = 0
  BY <1>1
<1> QED
  BY <1>2, EmptySeq

\* What a save writes, in terms of names.
LEMMA WrittenNames ==
  ASSUME TypeInv, NEW p, Typed(p)
  PROVE  /\ Rewrites(form.servers, loaded.servers, p.servers, Written(p).servers)
         /\ Rewrites(form.profiles, loaded.profiles, p.profiles, Written(p).profiles)
         /\ \A i \in DOMAIN p.servers : Written(p).servers[i].data = p.servers[i].data
         /\ Written(p).endpoint = Selects(form, loaded, p.endpoint)
<1>1. ASSUME NEW s \in Servers
      PROVE  /\ WrittenServer(p, s).id = s.id /\ WrittenServer(p, s).data = s.data
             /\ WrittenServer(p, s).name =
                  Rewritten(form.servers, loaded.servers, p.servers, s)
  BY DEF WrittenServer, Rewritten, Servers
<1>2. ASSUME NEW r \in Profiles
      PROVE  /\ WrittenProfile(p, r).id = r.id
             /\ WrittenProfile(p, r).name =
                  Rewritten(form.profiles, loaded.profiles, p.profiles, r)
  BY DEF WrittenProfile, Rewritten, Profiles
<1>3. /\ \A i \in DOMAIN p.servers : p.servers[i] \in Servers
      /\ \A i \in DOMAIN p.profiles : p.profiles[i] \in Profiles
  BY ConfigFields DEF Typed
<1>4. /\ Written(p).servers = [i \in DOMAIN p.servers |-> WrittenServer(p, p.servers[i])]
      /\ Written(p).profiles = [i \in DOMAIN p.profiles |-> WrittenProfile(p, p.profiles[i])]
      /\ Written(p).endpoint = Selects(form, loaded, p.endpoint)
  BY DEF Written, Selects
<1> QED
  BY <1>1, <1>2, <1>3, <1>4 DEF Rewrites, SameIds

LEMMA Unmoved ==
  ASSUME NEW p, \A i \in DOMAIN form.servers :
                  ~Renames(p, form.servers[i].id, form.servers[i].name)
  PROVE  Validated(p) = p
BY DEF Validated

LEMMA FieldsGive ==
  ASSUME NEW p \in Config, NEW choices
  PROVE  /\ Fields(p, choices).servers = p.servers
         /\ Fields(p, choices).profiles = p.profiles
         /\ (\E i \in DOMAIN choices : choices[i] = p.endpoint) =>
              choices = <<>> \/ Fields(p, choices).endpoint = p.endpoint
         /\ choices = <<>> => Fields(p, choices).endpoint = None
         /\ Fields(p, choices).endpoint \in {None, p.endpoint, choices[1]}
BY DEF Fields, Config

\* The fields of a page nobody typed into repeat what is saved already.
LEMMA SaveOfUntyped ==
  ASSUME TypeInv, NEW p, Typed(p), SameNames(form.servers, loaded.servers),
         SameNames(form.profiles, loaded.profiles)
  PROVE  Alike(Written(p), p)
<1>1. Distinct(form.servers) /\ Distinct(form.profiles)
  BY DEF TypeInv, TypeOK, Once
<1>2. /\ \A s : Rewritten(form.servers, loaded.servers, p.servers, s) = s.name
      /\ \A s : Rewritten(form.profiles, loaded.profiles, p.profiles, s) = s.name
  BY <1>1, NothingRewritten
<1>3. /\ Rewrites(form.servers, loaded.servers, p.servers, Written(p).servers)
      /\ Rewrites(form.profiles, loaded.profiles, p.profiles, Written(p).profiles)
      /\ \A i \in DOMAIN p.servers : Written(p).servers[i].data = p.servers[i].data
  BY WrittenNames
<1> DEFINE q == Written(p)
<1> HIDE DEF q
<1>4. Alike(q, p)
  BY <1>2, <1>3 DEF Alike, SameNames, SameIds, Rewrites, q
<1> QED
  BY <1>4 DEF q

\* In such a page the selection saved is the one the picker shows.
LEMMA SelectionOfFresh ==
  ASSUME Fresh
  PROVE  /\ Selects(form, loaded, page.endpoint) = form.endpoint
         /\ SameNames(form.servers, loaded.servers)
         /\ SameNames(form.profiles, loaded.profiles)
         /\ \A i \in DOMAIN form.servers :
              NameOf(page.servers, form.servers[i].id) = NameOf(form.servers, form.servers[i].id)
<1>1. Selects(form, loaded, page.endpoint) = form.endpoint
  BY DEF Fresh, Selects, Field
<1>2. Alike(form, loaded) /\ Alike(page, form)
  BY AlikeGives DEF Fresh
<1>3. \A id : NameOf(page.servers, id) = NameOf(form.servers, id)
  BY <1>2, AlikeGives
<1> QED
  BY <1>1, <1>2, <1>3 DEF Alike

\* A page that was saved as it is.
LEMMA AllLoaded ==
  ASSUME NEW q, Typed(q), page' = q, loaded' = q, staged' = q, view' = view,
         form' = Fields(q, view.choices),
         HasActive(q) => Listed(q.endpoint)
  PROVE  MovedOnce'
<1>1. form'.servers = q.servers /\ form'.profiles = q.profiles
  BY FieldsGive DEF Typed
<1>2. Distinct(q.servers) /\ Distinct(q.profiles)
  BY DEF Typed, Once
<1>3. \A i \in DOMAIN q.servers : NameOf(q.servers, q.servers[i].id) = q.servers[i].name
  BY <1>2, FoundAt
<1>4. /\ OnlyTyped(q.servers, q.servers, None)
      /\ CachedBut(q.servers, q.servers, q.servers, None)
      /\ OnlyTyped(q.profiles, q.profiles, None)
  BY <1>3 DEF OnlyTyped, CachedBut, SameIds
<1>5. \A i \in DOMAIN q.servers : ~Renames(q, q.servers[i].id, q.servers[i].name)
  BY <1>3 DEF Renames
<1>6. HasActive(q) => StaysActive(form', q, q)
  <2> SUFFICES ASSUME HasActive(q)
               PROVE  StaysActive(form', q, q)
    OBVIOUS
  <2>1. PICK i \in DOMAIN q.servers : q.servers[i].name = q.endpoint
    BY DEF HasActive, Named
  <2>2. view.choices # <<>> => form'.endpoint = q.endpoint
    BY FieldsGive DEF Listed, Typed
  <2>3. view.choices # <<>>
    BY DEF Listed
  <2>4. Selects(form', q, q.endpoint) = q.endpoint /\ q.endpoint # None
    BY <2>2, <2>3 DEF Selects, Field, HasActive
  <2>5. Rewritten(q.servers, q.servers, q.servers, q.servers[i]) = q.servers[i].name
    BY <1>2, NothingRewritten DEF SameNames, SameIds
  <2> QED
    BY <1>1, <2>1, <2>4, <2>5 DEF StaysActive
<1> QED
  BY <1>1, <1>4, <1>5, <1>6 DEF MovedOnce, Listed

\* A save in a page nobody typed names into.
LEMMA SaveFresh ==
  ASSUME TypeInv, Fresh, NEW fails, SaveOver(page, fails)
  PROVE  /\ Fresh'
         /\ Alike(staged', staged)
         /\ HasActive(staged) => HasActive(staged')
<1> DEFINE q == Written(page)
<1>1. Typed(page) /\ Distinct(form.servers)
  BY DEF TypeInv, TypeOK, Typed, Once
<1>2. Validated(page) = page
  BY <1>1, SelectionOfFresh, FoundAt, Unmoved DEF Renames
<1>3. Alike(q, page) /\ q.endpoint = form.endpoint
  BY <1>1, SelectionOfFresh, SaveOfUntyped, WrittenNames
<1>4. Alike(q, staged)
  BY <1>3, AlikeGives DEF Fresh
<1>5. Typed(q)
  BY <1>1, WrittenTyped DEF TypeInv, TypeOK, Typed, Config, NamesOrNone
<1>6. page' = q /\ view' = view
  BY <1>2 DEF SaveOver
<1>7. \/ staged' = staged /\ loaded' = loaded /\ form' = form
      \/ staged' = q /\ loaded' = q /\ form' = Fields(q, view.choices)
  BY <1>2 DEF SaveOver
<1> HIDE DEF q
<1>8. CASE staged' = staged /\ loaded' = loaded /\ form' = form
  <2>1. Alike(staged, staged)
    BY DEF Alike, SameNames, SameIds
  <2> QED
    BY <1>3, <1>4, <1>6, <1>8, <2>1 DEF Fresh, Listed
<1>9. CASE staged' = q /\ loaded' = q /\ form' = Fields(q, view.choices)
  <2>1. form'.servers = q.servers /\ form'.profiles = q.profiles
    BY <1>5, <1>9, FieldsGive DEF Typed
  <2>2. Alike(q, q) /\ Alike(form', q)
    BY <2>1 DEF Alike, SameNames, SameIds
  <2>3. \A n : Named(q.servers, n) = Named(staged.servers, n)
    BY <1>4, AlikeGives
  <2>4. form.endpoint # None => form'.endpoint = form.endpoint /\ Listed(form.endpoint)
    <3> SUFFICES ASSUME form.endpoint # None
                 PROVE  form'.endpoint = form.endpoint /\ Listed(form.endpoint)
      OBVIOUS
    <3>1. Listed(form.endpoint)
      BY DEF Fresh
    <3>2. view.choices # <<>>
      BY <3>1 DEF Listed
    <3> QED
      BY <1>3, <1>5, <1>9, <3>1, <3>2, FieldsGive DEF Listed, Typed
  <2>5. form'.endpoint # None => Listed(form'.endpoint)
    <3>1. CASE form.endpoint # None
      BY <2>4, <3>1
    <3>2. CASE form.endpoint = None
      <4> SUFFICES ASSUME form'.endpoint # None
                   PROVE  Listed(form'.endpoint)
        OBVIOUS
      <4>1. view.choices # <<>> /\ form'.endpoint = view.choices[1]
        BY <1>3, <1>5, <1>9, <3>2, FieldsGive DEF Typed
      <4>2. 1 \in DOMAIN view.choices
        BY <4>1 DEF TypeInv
      <4> QED
        BY <4>1, <4>2 DEF Listed
    <3> QED
      BY <3>1, <3>2
  <2>6. form'.endpoint = None => q.servers = <<>> \/ Named(q.servers, None) # {}
    <3> SUFFICES ASSUME form'.endpoint = None
                 PROVE  q.servers = <<>> \/ Named(q.servers, None) # {}
      OBVIOUS
    <3>1. staged.servers = <<>> \/ Named(staged.servers, None) # {}
      BY <2>4 DEF Fresh
    <3>2. staged.servers = <<>> => q.servers = <<>>
      <4>1. staged.servers \in Seq(Servers) /\ q.servers \in Seq(Servers)
        BY <1>5, ConfigFields DEF TypeInv, TypeOK, Typed
      <4>2. SameIds(staged.servers, q.servers)
        BY <1>4 DEF Alike, SameNames, SameIds
      <4> QED
        BY <4>1, <4>2, EmptyAlike
    <3> QED
      BY <2>3, <3>1, <3>2
  <2>7. q.endpoint = None \/ HasActive(q) => staged.endpoint = None \/ HasActive(staged)
    BY <1>3, <2>3 DEF Fresh, HasActive
  <2>8. \A i \in DOMAIN q.servers : Listed(q.servers[i].name)
    BY <1>4 DEF Fresh, Alike, SameNames, SameIds
  <2>9. HasActive(staged) => HasActive(q)
    BY <1>3, <2>3 DEF Fresh, HasActive
  <2>10. Fresh'
    <3>1. Alike(page', staged') /\ Alike(loaded', staged') /\ Alike(form', staged')
      BY <1>6, <1>9, <2>2
    <3>2. loaded'.endpoint = staged'.endpoint /\ page'.endpoint = staged'.endpoint
      BY <1>6, <1>9
    <3>3. staged'.endpoint # None => form'.endpoint = staged'.endpoint
      BY <1>3, <1>9, <2>4
    <3>4. IF form'.endpoint = None
          THEN staged'.servers = <<>> \/ Named(staged'.servers, None) # {}
          ELSE Listed(form.endpoint)'
      BY <1>6, <1>9, <2>5, <2>6 DEF Listed
    <3>5. (staged'.endpoint = None \/ HasActive(staged')) =>
            \A i \in DOMAIN view'.choices : Named(staged'.servers, view'.choices[i]) # {}
      BY <1>6, <1>9, <2>3, <2>7 DEF Fresh
    <3>6. (\A i \in DOMAIN staged.servers : Listed(staged.servers[i].name))'
      BY <1>6, <1>9, <2>8 DEF Listed
    <3> QED
      BY <3>1, <3>2, <3>3, <3>4, <3>5, <3>6 DEF Fresh
  <2> QED
    BY <1>4, <1>9, <2>9, <2>10
<1> QED
  BY <1>7, <1>8, <1>9
\* What a step does to the session's configuration.
KeepsSelection ==
  HasActive(staged) /\ staged'.servers # <<>> => HasActive(staged')
KeepsNames ==
  Unique(staged.servers) /\ Unique(staged.profiles) =>
    Unique(staged'.servers) /\ Unique(staged'.profiles)

\* A save after one move: it keeps what it should, and one that stages nothing
\* new leaves a page that can be saved again.
LEMMA SaveMoved ==
  ASSUME TypeInv, MovedOnce, NEW fails, SaveOver(page, fails)
  PROVE  /\ KeepsSelection /\ KeepsNames
         /\ staged' = staged => MovedOnce'
<1> DEFINE q == Written(page)
           fs == form.servers
           ls == loaded.servers
           ps == page.servers
<1>1. /\ Typed(page) /\ Typed(staged) /\ Distinct(fs) /\ Distinct(form.profiles)
      /\ Distinct(ps) /\ Distinct(page.profiles)
  BY DEF TypeInv, TypeOK, Typed, Once
<1>2. Validated(page) = page
  BY Unmoved DEF MovedOnce
<1>3. /\ Rewrites(fs, ls, ps, q.servers)
      /\ Rewrites(form.profiles, loaded.profiles, page.profiles, q.profiles)
      /\ q.endpoint = Selects(form, loaded, page.endpoint)
  BY <1>1, WrittenNames
<1>4. Typed(q)
  BY <1>1, WrittenTyped DEF TypeInv, TypeOK, Typed, Config, NamesOrNone
<1>5. PICK x \in ServerIds \cup {None} : OnlyTyped(fs, ls, x) /\ CachedBut(fs, ls, ps, x)
  BY DEF MovedOnce
<1>6. PICK y \in ProfileIds \cup {None} : OnlyTyped(form.profiles, loaded.profiles, y)
  BY DEF MovedOnce
<1>7. page' = q /\ view' = view
  BY <1>2 DEF SaveOver
<1>8. \/ staged' = staged /\ loaded' = loaded /\ form' = form
      \/ staged' = q /\ loaded' = q /\ form' = Fields(q, view.choices) /\ ~Blocked(fs, ps)
  <2>1. AllValid(page) => ~Blocked(fs, ps)
    BY DEF AllValid, NamesValid, Blocked, Entries, NameValid
  <2> QED
    BY <1>2, <2>1 DEF SaveOver
<1> HIDE DEF q
<1>9. /\ Unique(ps) => Unique(q.servers)
      /\ Unique(page.profiles) => Unique(q.profiles)
  BY <1>1, <1>3, <1>5, <1>6, RewritingKeepsUnique
<1>10. Blocked(fs, q.servers) <=> Blocked(fs, ps)
  BY <1>3, SamePlaces DEF Rewrites, Blocked
<1>11. ps = <<>> <=> q.servers = <<>>
  <2>1. ps \in Seq(Servers) /\ q.servers \in Seq(Servers)
    BY <1>1, <1>4, ConfigFields DEF Typed
  <2>2. SameIds(ps, q.servers) /\ SameIds(q.servers, ps)
    BY <1>3 DEF Rewrites, SameIds
  <2> QED
    BY <2>1, <2>2, EmptyAlike
<1>12. StaysActive(form, loaded, page) => HasActive(q) /\ StaysActive(form, loaded, q)
  <2> SUFFICES ASSUME StaysActive(form, loaded, page)
               PROVE  HasActive(q) /\ StaysActive(form, loaded, q)
    OBVIOUS
  <2>1. PICK i \in DOMAIN ps : Rewritten(fs, ls, ps, ps[i]) = q.endpoint
    BY <1>3 DEF StaysActive
  <2>2. q.endpoint # None
    BY <1>3 DEF StaysActive
  <2>3. i \in DOMAIN q.servers /\ q.servers[i].name = q.endpoint
    BY <1>3, <2>1 DEF Rewrites, SameIds
  <2>4. Rewritten(fs, ls, q.servers, q.servers[i]) = q.endpoint
    BY <1>1, <1>3, <1>5, <2>3, RewritingSettles
  <2>5. Selects(form, loaded, q.endpoint) = q.endpoint
    BY <1>3, <2>2 DEF Selects, Field
  <2> QED
    BY <2>2, <2>3, <2>4, <2>5 DEF HasActive, Named, StaysActive
<1>13. CASE staged' = staged /\ loaded' = loaded /\ form' = form
  <2>1. CachedBut(fs, ls, q.servers, x)
    BY <1>1, <1>3, <1>5, RewritingKeepsCached
  <2>2. \A i \in DOMAIN fs : ~Renames(q, fs[i].id, fs[i].name)
    BY <1>1, <1>3, <1>5, RewritingMovesNothing
  <2>3. Unique(staged.servers) => Unique(q.servers) \/ Blocked(fs, q.servers)
    BY <1>9, <1>10 DEF MovedOnce
  <2>4. Unique(staged.profiles) => Unique(q.profiles)
    BY <1>9 DEF MovedOnce
  <2>5. HasActive(staged) =>
          \/ Blocked(fs, q.servers)
          \/ /\ Listed(staged.endpoint)
             /\ q.servers = <<>> \/ StaysActive(form, loaded, q)
    BY <1>10, <1>11, <1>12 DEF MovedOnce
  <2>6. MovedOnce'
    BY <1>5, <1>6, <1>7, <1>13, <2>1, <2>2, <2>3, <2>4, <2>5 DEF MovedOnce, Listed
  <2> QED
    BY <1>13, <2>6 DEF KeepsSelection, KeepsNames
<1>14. CASE staged' = q /\ loaded' = q /\ form' = Fields(q, view.choices) /\ ~Blocked(fs, ps)
  <2>1. KeepsSelection
    BY <1>11, <1>12, <1>14 DEF MovedOnce, KeepsSelection
  <2>2. KeepsNames
    BY <1>9, <1>14 DEF MovedOnce, KeepsNames
  <2>3. staged' = staged => MovedOnce'
    <3> SUFFICES ASSUME staged' = staged
                 PROVE  MovedOnce'
      OBVIOUS
    <3>1. HasActive(q) => Listed(q.endpoint)
      BY <1>14 DEF MovedOnce
    <3> QED
      BY <1>4, <1>7, <1>14, <3>1, AllLoaded
  <2> QED
    BY <2>1, <2>2, <2>3
<1> QED
  BY <1>8, <1>13, <1>14

\* A save in a page nobody typed names into, with a section more or less.
LEMMA SectionSaved ==
  ASSUME TypeInv, Fresh, NEW p, Typed(p), p.endpoint = page.endpoint,
         \A i \in DOMAIN form.servers :
           Has(p.servers, form.servers[i].id) =>
             NameOf(p.servers, form.servers[i].id) = form.servers[i].name,
         Unique(page.servers) => Unique(p.servers),
         Unique(page.profiles) => Unique(p.profiles),
         HasActive(page) => p.servers = <<>> \/ HasActive(p),
         NEW fails, SaveOver(p, fails)
  PROVE  MovedOnce' /\ KeepsSelection /\ KeepsNames
<1> DEFINE q == Written(p)
           fs == form.servers
           ls == loaded.servers
<1>1. Typed(page) /\ Distinct(fs) /\ Distinct(form.profiles)
  BY DEF TypeInv, TypeOK, Typed, Once
<1>2. Validated(p) = p
  BY Unmoved DEF Renames
<1>3. SameNames(fs, ls) /\ SameNames(form.profiles, loaded.profiles)
  BY SelectionOfFresh
<1>4. Alike(q, p) /\ q.endpoint = form.endpoint
  BY <1>3, SelectionOfFresh, SaveOfUntyped, WrittenNames
<1>5. Typed(q)
  BY WrittenTyped DEF TypeInv, TypeOK, Typed, Config, NamesOrNone
<1>6. page' = q /\ view' = view
  BY <1>2 DEF SaveOver
<1>7. \/ staged' = staged /\ loaded' = loaded /\ form' = form
      \/ staged' = q /\ loaded' = q /\ form' = Fields(q, view.choices)
  BY <1>2 DEF SaveOver
<1> HIDE DEF q
<1>8. /\ Unique(staged.servers) => Unique(q.servers)
      /\ Unique(staged.profiles) => Unique(q.profiles)
  <2>1. Alike(page, staged)
    BY DEF Fresh
  <2>2. /\ Unique(page.servers) <=> Unique(staged.servers)
        /\ Unique(page.profiles) <=> Unique(staged.profiles)
    BY <2>1, AlikeGives
  <2>3. /\ Unique(q.servers) <=> Unique(p.servers)
        /\ Unique(q.profiles) <=> Unique(p.profiles)
    BY <1>4, AlikeGives
  <2> QED
    BY <2>2, <2>3
<1>9. HasActive(staged) =>
        /\ q.servers = <<>> \/ HasActive(q)
        /\ q.endpoint = staged.endpoint
        /\ Listed(staged.endpoint)
  <2> SUFFICES ASSUME HasActive(staged)
               PROVE  /\ q.servers = <<>> \/ HasActive(q)
                      /\ q.endpoint = staged.endpoint
                      /\ Listed(staged.endpoint)
    OBVIOUS
  <2>1. /\ form.endpoint = staged.endpoint /\ page.endpoint = staged.endpoint
        /\ staged.endpoint # None /\ Listed(staged.endpoint)
    BY DEF Fresh, HasActive
  <2>2. \A n : Named(page.servers, n) = Named(staged.servers, n)
    BY AlikeGives DEF Fresh
  <2>3. HasActive(page)
    BY <2>1, <2>2 DEF HasActive
  <2>4. \A n : Named(q.servers, n) = Named(p.servers, n)
    BY <1>4, AlikeGives
  <2>5. p.servers = <<>> => q.servers = <<>>
    <3>1. p.servers \in Seq(Servers) /\ q.servers \in Seq(Servers)
      BY <1>5, ConfigFields DEF Typed
    <3>2. SameIds(p.servers, q.servers)
      BY <1>4 DEF Alike, SameNames, SameIds
    <3> QED
      BY <3>1, <3>2, EmptyAlike
  <2> QED
    BY <1>4, <2>1, <2>3, <2>4, <2>5 DEF HasActive
<1>10. KeepsSelection /\ KeepsNames
  BY <1>7, <1>8, <1>9 DEF KeepsSelection, KeepsNames
<1>11. CASE staged' = q /\ loaded' = q /\ form' = Fields(q, view.choices)
  <2>1. HasActive(q) => Listed(q.endpoint)
    BY <1>4 DEF HasActive, Fresh
  <2>2. MovedOnce'
    BY <1>5, <1>6, <1>11, <2>1, AllLoaded
  <2> QED
    BY <1>10, <2>2
<1>12. CASE staged' = staged /\ loaded' = loaded /\ form' = form
  <2>1. /\ OnlyTyped(fs, ls, None)
        /\ OnlyTyped(form.profiles, loaded.profiles, None)
    BY <1>3 DEF OnlyTyped, SameNames
  <2>2. /\ \A id : Has(q.servers, id) <=> Has(p.servers, id)
        /\ \A id : NameOf(q.servers, id) = NameOf(p.servers, id)
    BY <1>4, AlikeGives
  <2>3. CachedBut(fs, ls, q.servers, None)
    BY <2>2 DEF CachedBut
  <2>4. \A i \in DOMAIN fs : ~Renames(q, fs[i].id, fs[i].name)
    BY <2>2 DEF Renames
  <2>5. HasActive(q) => StaysActive(form, loaded, q)
    <3> SUFFICES ASSUME HasActive(q)
                 PROVE  StaysActive(form, loaded, q)
      OBVIOUS
    <3>1. PICK i \in DOMAIN q.servers : q.servers[i].name = q.endpoint
      BY DEF HasActive, Named
    <3>2. Rewritten(fs, ls, q.servers, q.servers[i]) = q.servers[i].name
      BY <1>1, <1>3, NothingRewritten
    <3>3. Selects(form, loaded, q.endpoint) = q.endpoint /\ q.endpoint # None
      BY <1>4 DEF Selects, Field, HasActive
    <3> QED
      BY <3>1, <3>2, <3>3 DEF StaysActive
  <2>6. MovedOnce'
    BY <1>6, <1>8, <1>9, <1>12, <2>1, <2>3, <2>4, <2>5 DEF MovedOnce, Listed
  <2> QED
    BY <1>10, <2>6
<1> QED
  BY <1>7, <1>11, <1>12
\* Sections with different ids as a set: their order says nothing of names.
LEMMA EntriesGive ==
  ASSUME NEW secs, Distinct(secs)
  PROVE  /\ \A id : Has(secs, id) <=> \E s \in Entries(secs) : s.id = id
         /\ \A s \in Entries(secs) : NameOf(secs, s.id) = s.name
         /\ Unique(secs) <=>
              \A s, t \in Entries(secs) : s.name = t.name /\ s.id # t.id => s.name = None
         /\ \A n : Named(secs, n) # {} <=> \E s \in Entries(secs) : s.name = n
<1>1. \A id : Has(secs, id) <=> \E s \in Entries(secs) : s.id = id
  BY DEF Has, Positions, Entries
<1>2. \A s \in Entries(secs) : NameOf(secs, s.id) = s.name
  BY FoundAt DEF Entries
<1>3. Unique(secs) <=>
        \A s, t \in Entries(secs) : s.name = t.name /\ s.id # t.id => s.name = None
  BY DEF Unique, Entries, Distinct
<1>4. \A n : Named(secs, n) # {} <=> \E s \in Entries(secs) : s.name = n
  BY DEF Named, Entries
<1> QED
  BY <1>1, <1>2, <1>3, <1>4

LEMMA AddServerMoves ==
  ASSUME TypeInv, Fresh, NEW id \in ServerIds, NEW fails, AddServer(id, fails)
  PROVE  MovedOnce' /\ KeepsSelection /\ KeepsNames
<1> DEFINE new == NewServer(id)
           secs == Append(page.servers, new)
           p == [page EXCEPT !.servers = secs]
<1>1. /\ Typed(page) /\ page.servers \in Seq(Servers) /\ Distinct(page.servers)
      /\ Distinct(form.servers)
  BY ConfigFields DEF TypeInv, TypeOK, Typed, Once
<1>2. new \in Servers /\ new.id = id /\ new.name = None
  BY DEF NewServer, Servers
<1>3. ~Has(page.servers, id) /\ ~Has(page.profiles, id) /\ ~Has(loaded.servers, id)
  BY DEF AddServer, Unused
<1>4. Typed(p) /\ SaveOver(p, fails)
  BY <1>1, <1>3, AddedTyped DEF AddServer
<1>5. Distinct(secs) /\ Entries(secs) = Entries(page.servers) \cup {new}
  BY <1>1, <1>2, <1>3, AppendEntries
<1>6. p.servers = secs /\ p.profiles = page.profiles /\ p.endpoint = page.endpoint
  BY <1>1 DEF Typed, Config
<1> HIDE DEF secs, p, new
<1>7. ASSUME NEW i \in DOMAIN form.servers, Has(secs, form.servers[i].id)
      PROVE  NameOf(secs, form.servers[i].id) = form.servers[i].name
  <2> DEFINE fid == form.servers[i].id
  <2>1. fid # id
    <3>1. SameIds(form.servers, loaded.servers)
      BY SelectionOfFresh DEF SameNames
    <3> QED
      BY <1>1, <1>3, <3>1, SamePlaces, FoundAt
  <2>2. PICK s \in Entries(secs) : s.id = fid
    BY <1>5, <1>7, EntriesGive
  <2>3. s \in Entries(page.servers)
    BY <1>2, <1>5, <2>1, <2>2
  <2>4. NameOf(secs, fid) = s.name /\ NameOf(page.servers, fid) = s.name
    BY <1>1, <1>5, <2>2, <2>3, EntriesGive
  <2>5. NameOf(page.servers, fid) = form.servers[i].name
    BY <1>1, SelectionOfFresh, FoundAt
  <2> QED
    BY <2>4, <2>5
<1>8. Unique(page.servers) => Unique(secs)
  <2> SUFFICES ASSUME Unique(page.servers),
                      NEW s \in Entries(secs), NEW t \in Entries(secs),
                      s.name = t.name, s.id # t.id
               PROVE  s.name = None
    BY <1>5, EntriesGive
  <2>1. CASE s = new \/ t = new
    BY <1>2, <2>1
  <2>2. CASE s \in Entries(page.servers) /\ t \in Entries(page.servers)
    BY <1>1, <2>2, EntriesGive
  <2> QED
    BY <1>5, <2>1, <2>2
<1>9. HasActive(page) => HasActive(p)
  BY <1>1, <1>5, <1>6, EntriesGive DEF HasActive
<1> QED
  BY <1>4, <1>6, <1>7, <1>8, <1>9, SectionSaved

LEMMA RemoveServerMoves ==
  ASSUME TypeInv, Fresh, NEW id \in ServerIds, NEW fails, RemoveServer(id, fails)
  PROVE  MovedOnce' /\ KeepsSelection /\ KeepsNames
<1> DEFINE secs == Without(page.servers, id)
           p == [page EXCEPT !.servers = secs]
<1>1. /\ Typed(page) /\ page.servers \in Seq(Servers) /\ Distinct(page.servers)
      /\ Distinct(form.servers)
  BY ConfigFields DEF TypeInv, TypeOK, Typed, Once
<1>2. Has(page.servers, id)
  BY DEF RemoveServer
<1>3. Typed(p) /\ SaveOver(p, fails)
  BY <1>1, <1>2, RemovedTyped DEF RemoveServer
<1>4. Distinct(secs) /\ Entries(secs) = {s \in Entries(page.servers) : s.id # id}
  BY <1>1, <1>2, WithoutEntries
<1>5. secs \in Seq(Servers) /\ Len(secs) = Len(page.servers) - 1
  BY <1>1, <1>2, WithoutSection
<1>6. p.servers = secs /\ p.profiles = page.profiles /\ p.endpoint = page.endpoint
  BY <1>1 DEF Typed, Config
<1> HIDE DEF secs, p
<1>7. ASSUME NEW i \in DOMAIN form.servers, Has(secs, form.servers[i].id)
      PROVE  NameOf(secs, form.servers[i].id) = form.servers[i].name
  <2> DEFINE fid == form.servers[i].id
  <2>1. PICK s \in Entries(secs) : s.id = fid
    BY <1>4, <1>7, EntriesGive
  <2>2. NameOf(secs, fid) = s.name /\ NameOf(page.servers, fid) = s.name
    BY <1>1, <1>4, <2>1, EntriesGive
  <2>3. NameOf(page.servers, fid) = form.servers[i].name
    BY <1>1, SelectionOfFresh, FoundAt
  <2> QED
    BY <2>2, <2>3
<1>8. Unique(page.servers) => Unique(secs)
  BY <1>1, <1>4, EntriesGive
<1>9. HasActive(page) => secs = <<>> \/ HasActive(p)
  <2> SUFFICES ASSUME HasActive(page)
               PROVE  secs = <<>> \/ HasActive(p)
    OBVIOUS
  <2>1. PICK s \in Entries(page.servers) : s.name = page.endpoint
    BY <1>1, EntriesGive DEF HasActive
  <2>2. CASE s.id # id
    BY <1>4, <1>6, <2>1, <2>2, EntriesGive DEF HasActive
  <2>3. CASE s.id = id
    <3>1. NameOf(page.servers, id) = page.endpoint /\ page.endpoint # None
      BY <1>1, <2>1, <2>3, EntriesGive DEF HasActive
    <3>2. ~(Len(page.servers) > 1) /\ Len(page.servers) \in Nat
      BY <1>1, <3>1 DEF RemoveServer
    <3>3. Len(secs) = 0
      <4>1. Len(secs) \in Nat
        BY <1>5
      <4>2. \A m, k \in Nat : ~(m > 1) /\ k = m - 1 => k = 0
        OBVIOUS
      <4> QED
        BY <1>5, <3>2, <4>1, <4>2
    <3> QED
      BY <1>5, <3>3, EmptySeq
  <2> QED
    BY <2>2, <2>3
<1> QED
  BY <1>3, <1>6, <1>7, <1>8, <1>9, SectionSaved

LEMMA ProfileSectionsMove ==
  ASSUME TypeInv, Fresh, NEW id \in ProfileIds, NEW fails,
         AddProfile(id, fails) \/ RemoveProfile(id, fails)
  PROVE  MovedOnce' /\ KeepsSelection /\ KeepsNames
<1>1. /\ Typed(page) /\ page.profiles \in Seq(Profiles) /\ Distinct(page.profiles)
      /\ Distinct(form.servers)
  BY ConfigFields DEF TypeInv, TypeOK, Typed, Once
<1>2. ASSUME NEW secs, Typed([page EXCEPT !.profiles = secs]),
             SaveOver([page EXCEPT !.profiles = secs], fails),
             Unique(page.profiles) => Unique(secs)
      PROVE  MovedOnce' /\ KeepsSelection /\ KeepsNames
  <2> DEFINE p == [page EXCEPT !.profiles = secs]
  <2>1. p.servers = page.servers /\ p.profiles = secs /\ p.endpoint = page.endpoint
    BY <1>1 DEF Typed, Config
  <2>2. Typed(p) /\ SaveOver(p, fails)
    BY <1>2
  <2> HIDE DEF p
  <2>3. \A i \in DOMAIN form.servers :
          NameOf(page.servers, form.servers[i].id) = form.servers[i].name
    BY <1>1, SelectionOfFresh, FoundAt
  <2>4. HasActive(page) => HasActive(p)
    BY <2>1 DEF HasActive
  <2> QED
    BY <1>2, <2>1, <2>2, <2>3, <2>4, SectionSaved
<1>3. CASE AddProfile(id, fails)
  <2> DEFINE new == NewProfile(id)
             secs == Append(page.profiles, new)
  <2>1. new \in Profiles /\ new.id = id /\ new.name = None
    BY DEF NewProfile, Profiles
  <2>2. ~Has(page.servers, id) /\ ~Has(page.profiles, id)
    BY <1>3 DEF AddProfile, Unused
  <2>3. Typed([page EXCEPT !.profiles = secs]) /\ SaveOver([page EXCEPT !.profiles = secs], fails)
    BY <1>1, <1>3, <2>2, AddedTyped DEF AddProfile
  <2>4. Distinct(secs) /\ Entries(secs) = Entries(page.profiles) \cup {new}
    BY <1>1, <2>1, <2>2, AppendEntries
  <2> HIDE DEF secs, new
  <2>5. Unique(page.profiles) => Unique(secs)
    <3> SUFFICES ASSUME Unique(page.profiles),
                        NEW s \in Entries(secs), NEW t \in Entries(secs),
                        s.name = t.name, s.id # t.id
                 PROVE  s.name = None
      BY <2>4, EntriesGive
    <3>1. CASE s = new \/ t = new
      BY <2>1, <3>1
    <3>2. CASE s \in Entries(page.profiles) /\ t \in Entries(page.profiles)
      BY <1>1, <3>2, EntriesGive
    <3> QED
      BY <2>4, <3>1, <3>2
  <2> QED
    BY <1>2, <2>3, <2>5
<1>4. CASE RemoveProfile(id, fails)
  <2> DEFINE secs == Without(page.profiles, id)
  <2>1. Has(page.profiles, id)
    BY <1>4 DEF RemoveProfile
  <2>2. Typed([page EXCEPT !.profiles = secs]) /\ SaveOver([page EXCEPT !.profiles = secs], fails)
    BY <1>1, <1>4, <2>1, RemovedTyped DEF RemoveProfile
  <2>3. Distinct(secs) /\ Entries(secs) = {s \in Entries(page.profiles) : s.id # id}
    BY <1>1, <2>1, WithoutEntries
  <2> HIDE DEF secs
  <2>4. Unique(page.profiles) => Unique(secs)
    BY <1>1, <2>3, EntriesGive
  <2> QED
    BY <1>2, <2>2, <2>4
<1> QED
  BY <1>3, <1>4

\* A document loaded.
LEMMA DocumentFresh ==
  (/\ Typed(staged) /\ page = staged /\ loaded = staged /\ view = ViewOf(staged)
   /\ form = Fields(staged, ViewOf(staged).choices)) => Fresh
<1> SUFFICES ASSUME Typed(staged), page = staged, loaded = staged, view = ViewOf(staged),
                    form = Fields(staged, ViewOf(staged).choices)
             PROVE  Fresh
  OBVIOUS
<1> DEFINE c == staged
           names == [i \in DOMAIN c.servers |-> c.servers[i].name]
           more == IF HasActive(c) \/ c.endpoint = None THEN <<>> ELSE <<c.endpoint>>
<1>1. /\ c.servers \in Seq(Servers) /\ DOMAIN c.servers = 1 .. Len(c.servers)
      /\ Len(c.servers) \in Nat
      /\ \A i \in DOMAIN c.servers : c.servers[i].name \in NamesOrNone
      /\ c.endpoint \in NamesOrNone
  BY ConfigFields DEF Typed, Servers, NamesOrNone
<1>2. view.choices = names \o more
  BY DEF ViewOf
<1>3. /\ names \in Seq(NamesOrNone) /\ Len(names) = Len(c.servers)
      /\ more \in Seq(NamesOrNone)
      /\ \A i \in 1 .. Len(c.servers) : names[i] = c.servers[i].name
  BY <1>1
<1>4. more = <<>> \/ (Len(more) = 1 /\ more[1] = c.endpoint)
  BY DEF HasActive
<1>5. more = <<>> <=> (HasActive(c) \/ c.endpoint = None)
  OBVIOUS
<1> HIDE DEF names, more
<1>6. /\ view.choices \in Seq(NamesOrNone)
      /\ Len(view.choices) = Len(c.servers) + Len(more)
      /\ \A i \in 1 .. Len(c.servers) : view.choices[i] = c.servers[i].name
      /\ more # <<>> => view.choices[Len(c.servers) + 1] = c.endpoint
  <2>1. /\ names \o more \in Seq(NamesOrNone)
        /\ Len(names \o more) = Len(names) + Len(more)
        /\ \A i \in 1 .. Len(names) + Len(more) :
             (names \o more)[i] = IF i <= Len(names) THEN names[i] ELSE more[i - Len(names)]
    BY <1>3, ConcatProperties
  <2>2. Len(more) \in Nat
    BY <1>3
  <2> QED
    BY <1>1, <1>2, <1>3, <1>4, <2>1, <2>2
<1>7. Len(more) = IF HasActive(c) \/ c.endpoint = None THEN 0 ELSE 1
  BY <1>4, <1>5
<1>0. /\ DOMAIN view.choices = 1 .. Len(view.choices)
      /\ HasActive(c) \/ c.endpoint = None => Len(view.choices) = Len(c.servers)
      /\ ~HasActive(c) /\ c.endpoint # None => Len(view.choices) = Len(c.servers) + 1
  <2>1. DOMAIN view.choices = 1 .. Len(view.choices)
    BY <1>6
  <2>2. \A k \in Nat : k + 0 = k
    OBVIOUS
  <2>3. Len(view.choices) = Len(c.servers) + Len(more) /\ Len(c.servers) \in Nat
    BY <1>1, <1>6
  <2>4. HasActive(c) \/ c.endpoint = None => Len(more) = 0
    BY <1>7
  <2>5. ~HasActive(c) /\ c.endpoint # None => Len(more) = 1
    BY <1>7
  <2> QED
    BY <2>1, <2>2, <2>3, <2>4, <2>5
<1>8. \A i \in DOMAIN c.servers : Listed(c.servers[i].name)
  <2>1. DOMAIN c.servers \subseteq DOMAIN view.choices
    BY <1>0, <1>1
  <2> QED
    BY <1>1, <1>6, <2>1 DEF Listed
<1>9. c.endpoint # None => Listed(c.endpoint)
  <2>1. CASE HasActive(c)
    BY <1>8, <2>1 DEF HasActive, Named
  <2>2. CASE ~HasActive(c) /\ c.endpoint # None
    <3>1. Len(c.servers) + 1 \in DOMAIN view.choices
      BY <1>0, <1>1, <2>2
    <3> QED
      BY <1>5, <1>6, <2>2, <3>1 DEF Listed
  <2> QED
    BY <2>1, <2>2
<1>10. (c.endpoint = None \/ HasActive(c)) =>
         \A i \in DOMAIN view.choices : Named(c.servers, view.choices[i]) # {}
  BY <1>0, <1>1, <1>6 DEF Named
<1>11. /\ form.servers = c.servers /\ form.profiles = c.profiles
       /\ Listed(c.endpoint) => form.endpoint = c.endpoint
       /\ view.choices = <<>> => form.endpoint = None
       /\ form.endpoint \in {None, c.endpoint, view.choices[1]}
  BY FieldsGive DEF Listed, Typed
<1>12. Alike(c, c) /\ Alike(form, c)
  BY <1>11 DEF Alike, SameNames, SameIds
<1>13. form.endpoint # None => Listed(form.endpoint)
  <2> SUFFICES ASSUME form.endpoint # None
               PROVE  Listed(form.endpoint)
    OBVIOUS
  <2>1. view.choices # <<>>
    BY <1>11
  <2>2. 1 \in DOMAIN view.choices
    BY <1>6, <2>1
  <2> QED
    BY <1>9, <1>11, <2>2 DEF Listed
<1>14. form.endpoint = None => c.servers = <<>> \/ Named(c.servers, None) # {}
  <2> SUFFICES ASSUME form.endpoint = None, c.servers # <<>>
               PROVE  Named(c.servers, None) # {}
    OBVIOUS
  <2>1. c.endpoint = None
    BY <1>9, <1>11
  <2>2. 1 \in DOMAIN view.choices
    <3>1. Len(c.servers) # 0
      BY <1>1, EmptySeq
    <3> QED
      BY <1>0, <1>1, <3>1
  <2>3. \E i \in DOMAIN view.choices : view.choices[i] = None
    BY <2>1, <2>2 DEF Fields, Typed, Config
  <2> QED
    BY <1>10, <2>1, <2>3
<1> QED
  BY <1>8, <1>9, <1>10, <1>11, <1>12, <1>13, <1>14 DEF Fresh
\* The first move of a document, when it is not to what a server is called.
LEMMA FirstMove ==
  ASSUME TypeInv, Fresh, form'.servers = form.servers,
         UNCHANGED <<page, loaded, staged, view>>,
         NEW y \in ProfileIds \cup {None}, OnlyTyped(form'.profiles, loaded.profiles, y),
         HasActive(staged) =>
           Blocked(form.servers, page.servers) \/ StaysActive(form', loaded, page)
  PROVE  MovedOnce'
<1>1. Distinct(form.servers)
  BY DEF TypeInv, TypeOK, Once
<1>2. /\ SameNames(form.servers, loaded.servers)
      /\ \A i \in DOMAIN form.servers :
           NameOf(page.servers, form.servers[i].id) = form.servers[i].name
  BY <1>1, SelectionOfFresh, FoundAt
<1>3. /\ OnlyTyped(form.servers, loaded.servers, None)
      /\ CachedBut(form.servers, loaded.servers, page.servers, None)
      /\ \A i \in DOMAIN form.servers :
           ~Renames(page, form.servers[i].id, form.servers[i].name)
  BY <1>2 DEF OnlyTyped, SameNames, CachedBut, Renames
<1>4. /\ Unique(page.servers) <=> Unique(staged.servers)
      /\ Unique(page.profiles) <=> Unique(staged.profiles)
  BY AlikeGives DEF Fresh
<1>5. HasActive(staged) => Listed(staged.endpoint)
  BY DEF Fresh, HasActive
<1> QED
  BY <1>3, <1>4, <1>5 DEF MovedOnce, Listed

LEMMA RenamingMoves ==
  ASSUME TypeInv, Fresh, NEW id \in ServerIds, NEW n, EditName(id, n)
  PROVE  MovedOnce'
<1> DEFINE fs == form.servers
           ls == loaded.servers
           ps == page.servers
           k == Position(fs, id)
           gs == form'.servers
<1>1. /\ Typed(form) /\ Typed(page) /\ fs \in Seq(Servers) /\ Distinct(fs) /\ Distinct(ps)
  BY ConfigFields DEF TypeInv, TypeOK, Typed, Once
<1>2. /\ Has(fs, id) /\ Has(ps, id) /\ n # NameOf(fs, id)
      /\ form' = [form EXCEPT !.servers = SetName(@, id, n)]
      /\ page' = FollowRename(page, id, n)
      /\ UNCHANGED <<loaded, staged, view>>
  BY DEF EditName, Edited, stored
<1>3. k \in DOMAIN fs /\ fs[k].id = id /\ fs[k] \in Servers /\ NameOf(fs, id) = fs[k].name
  BY <1>1, <1>2, SectionFound, ConfigFields, FoundAt DEF Typed
<1>4. gs = [fs EXCEPT ![k].name = n] /\ form'.profiles = form.profiles
      /\ form'.endpoint = form.endpoint
  BY <1>1, <1>2 DEF SetName, Typed, Config
<1> HIDE DEF k
<1>5. /\ DOMAIN gs = DOMAIN fs
      /\ \A i \in DOMAIN fs :
           gs[i].id = fs[i].id /\ gs[i].name = IF i = k THEN n ELSE fs[i].name
  BY <1>3, <1>4 DEF Servers
<1> HIDE DEF gs
<1>6. /\ SameNames(fs, ls) /\ SameNames(form.profiles, loaded.profiles)
      /\ \A i \in DOMAIN fs : NameOf(ps, fs[i].id) = fs[i].name
  BY <1>1, SelectionOfFresh, FoundAt
<1>7. \A i \in DOMAIN fs : fs[i].id = id <=> i = k
  BY <1>1, <1>3 DEF Distinct
<1>8. /\ OnlyTyped(gs, ls, id) /\ CachedBut(gs, ls, ps, id)
      /\ OnlyTyped(form'.profiles, loaded.profiles, None)
  <2>1. OnlyTyped(gs, ls, id)
    BY <1>5, <1>6, <1>7 DEF OnlyTyped, SameNames, SameIds
  <2>2. CachedBut(gs, ls, ps, id)
    BY <1>5, <1>6, <1>7 DEF CachedBut, SameNames
  <2>3. OnlyTyped(form'.profiles, loaded.profiles, None)
    BY <1>4, <1>6 DEF OnlyTyped, SameNames
  <2> QED
    BY <2>1, <2>2, <2>3
<1>9. /\ page'.servers = ps /\ page'.profiles = page.profiles
      /\ page'.endpoint = IF Renames(page, id, n) THEN n ELSE page.endpoint
  BY <1>1, <1>2 DEF FollowRename, Typed, Config
<1>10. NameOf(ps, id) = fs[k].name /\ fs[k].name # n
  BY <1>2, <1>3, <1>6
<1>11. ASSUME NEW i \in DOMAIN gs
       PROVE  ~Renames(page', gs[i].id, gs[i].name)
  <2>1. CASE i = k
    BY <1>3, <1>5, <1>9, <1>10, <2>1 DEF Renames
  <2>2. CASE i # k
    BY <1>5, <1>6, <1>9, <2>2 DEF Renames
  <2> QED
    BY <2>1, <2>2
<1>12. /\ Unique(ps) <=> Unique(staged.servers)
       /\ Unique(page.profiles) <=> Unique(staged.profiles)
       /\ \A m : Named(ps, m) = Named(staged.servers, m)
  BY AlikeGives DEF Fresh
<1>13. Distinct(gs)
  BY <1>1, <1>5, SamePlaces DEF SameIds
<1>14. HasActive(staged) => Listed(staged.endpoint) /\ StaysActive(form', loaded, page')
  <2> SUFFICES ASSUME HasActive(staged)
               PROVE  Listed(staged.endpoint) /\ StaysActive(form', loaded, page')
    OBVIOUS
  <2> DEFINE e == staged.endpoint
  <2>1. /\ e # None /\ form.endpoint = e /\ loaded.endpoint = e /\ page.endpoint = e
        /\ Listed(e)
    BY DEF HasActive, Fresh
  <2>2. PICK i \in DOMAIN ps : ps[i].name = e
    BY <1>12 DEF HasActive, Named
  <2>3. Selects(form', loaded, page'.endpoint) = page'.endpoint
    BY <1>4, <2>1 DEF Selects, Field
  <2>4. CASE Renames(page, id, n)
    <3>1. page'.endpoint = n /\ n # None /\ NameValid(ps, id, n)
      BY <1>9, <2>4 DEF Renames, NameValid
    <3>2. PICK j \in DOMAIN ps : ps[j].id = id
      BY <1>2, SectionFound
    <3>3. SameIds(gs, ls) /\ k \in DOMAIN gs /\ gs[k].id = id /\ gs[k].name = n
      BY <1>3, <1>5, <1>8 DEF OnlyTyped
    <3>4. n # ls[k].name
      BY <1>3, <1>6, <1>10 DEF SameNames
    <3>5. Rewritten(gs, ls, ps, ps[j]) = n
      BY <1>13, <3>1, <3>2, <3>3, <3>4, RewrittenAt
    <3> QED
      BY <1>9, <2>1, <2>3, <3>1, <3>2, <3>5 DEF StaysActive, gs
  <2>5. CASE ~Renames(page, id, n)
    <3>1. page'.endpoint = e
      BY <1>9, <2>1, <2>5
    <3>2. Rewritten(gs, ls, ps, ps[i]) = ps[i].name
      <4> SUFFICES ASSUME Rewritten(gs, ls, ps, ps[i]) # ps[i].name
                   PROVE  FALSE
        OBVIOUS
      <4>1. ps[i].id = id /\ NameValid(ps, id, Rewritten(gs, ls, ps, ps[i]))
        BY <1>8, <1>13, OneRewritten
      <4>2. PICK j \in DOMAIN gs : gs[j].id = id /\ Rewritten(gs, ls, ps, ps[i]) = gs[j].name
        BY <1>8, <1>13, OneRewritten
      <4>3. Rewritten(gs, ls, ps, ps[i]) = n
        BY <1>5, <1>7, <4>2
      <4>4. NameOf(ps, id) = e
        BY <1>1, <2>2, <4>1, FoundAt
      <4> QED
        BY <1>2, <1>10, <2>1, <2>5, <4>1, <4>3, <4>4 DEF Renames
    <3> QED
      BY <1>9, <2>1, <2>2, <2>3, <3>1, <3>2 DEF StaysActive, gs
  <2> QED
    BY <2>1, <2>4, <2>5
<1> QED
  BY <1>2, <1>8, <1>9, <1>11, <1>12, <1>14 DEF MovedOnce, Listed, gs

LEMMA ProfileRenamingMoves ==
  ASSUME TypeInv, Fresh, NEW id \in ProfileIds, NEW n, EditProfileName(id, n)
  PROVE  MovedOnce'
<1> DEFINE fs == form.profiles
           k == Position(fs, id)
<1>1. Typed(form) /\ Distinct(fs) /\ Distinct(form.servers)
  BY DEF TypeInv, TypeOK, Typed, Once
<1>2. k \in DOMAIN fs /\ fs[k].id = id /\ fs[k] \in Profiles
  BY <1>1, SectionFound, ConfigFields DEF Typed, EditProfileName
<1>3. /\ form'.profiles = [fs EXCEPT ![k].name = n]
      /\ form'.servers = form.servers /\ form'.endpoint = form.endpoint
      /\ UNCHANGED <<page, loaded, staged, view>>
  BY <1>1 DEF EditProfileName, Edited, stored, SetName, Typed, Config
<1> HIDE DEF k
<1>4. SameNames(fs, loaded.profiles) /\ SameNames(form.servers, loaded.servers)
  BY SelectionOfFresh
<1>5. OnlyTyped(form'.profiles, loaded.profiles, id)
  BY <1>1, <1>2, <1>3, <1>4 DEF OnlyTyped, SameNames, SameIds, Distinct, Profiles
<1>6. HasActive(staged) => StaysActive(form', loaded, page)
  <2> SUFFICES ASSUME HasActive(staged)
               PROVE  StaysActive(form', loaded, page)
    OBVIOUS
  <2>1. PICK i \in DOMAIN page.servers : page.servers[i].name = staged.endpoint
    <3>1. \A m : Named(page.servers, m) = Named(staged.servers, m)
      BY AlikeGives DEF Fresh
    <3> QED
      BY <3>1 DEF HasActive, Named
  <2>2. /\ Selects(form', loaded, page.endpoint) = staged.endpoint
        /\ staged.endpoint # None
    BY <1>3 DEF Fresh, HasActive, Selects, Field
  <2>3. Rewritten(form.servers, loaded.servers, page.servers, page.servers[i]) =
          page.servers[i].name
    BY <1>1, <1>4, NothingRewritten
  <2> QED
    BY <1>3, <2>1, <2>2, <2>3 DEF StaysActive
<1> QED
  BY <1>3, <1>5, <1>6, FirstMove

LEMMA PickingMoves ==
  ASSUME TypeInv, Fresh, NEW n \in Names \cup {None}, PickServer(n)
  PROVE  MovedOnce'
<1>1. Typed(form) /\ Distinct(form.servers) /\ Distinct(page.servers)
  BY DEF TypeInv, TypeOK, Typed, Once
<1>2. /\ form'.endpoint = n /\ form'.servers = form.servers
      /\ form'.profiles = form.profiles /\ n # form.endpoint
      /\ UNCHANGED <<page, loaded, staged, view>>
      /\ Listed(n)
  BY <1>1 DEF PickServer, Edited, stored, Typed, Config, Listed
<1>3. SameNames(form.servers, loaded.servers) /\ SameNames(form.profiles, loaded.profiles)
  BY SelectionOfFresh
<1>4. OnlyTyped(form'.profiles, loaded.profiles, None)
  BY <1>2, <1>3 DEF OnlyTyped, SameNames
<1>5. HasActive(staged) =>
        Blocked(form.servers, page.servers) \/ StaysActive(form', loaded, page)
  <2> SUFFICES ASSUME HasActive(staged)
               PROVE  Blocked(form.servers, page.servers) \/ StaysActive(form', loaded, page)
    OBVIOUS
  <2>1. Named(staged.servers, n) # {}
    BY <1>2 DEF Fresh, Listed
  <2>2. PICK i \in DOMAIN page.servers : page.servers[i].name = n
    <3>1. \A m : Named(page.servers, m) = Named(staged.servers, m)
      BY AlikeGives DEF Fresh
    <3> QED
      BY <2>1, <3>1 DEF Named
  <2>3. CASE n = None
    <3>1. i \in DOMAIN form.servers /\ form.servers[i].id = page.servers[i].id
          /\ form.servers[i].name = None
      BY <2>2, <2>3 DEF Fresh, Alike, SameNames, SameIds
    <3> QED
      BY <1>1, <2>2, <3>1, FoundAt DEF Blocked
  <2>4. CASE n # None
    <3>1. loaded.endpoint = form.endpoint
      BY DEF Fresh, HasActive
    <3>2. Selects(form', loaded, page.endpoint) = n
      BY <1>2, <2>4, <3>1 DEF Selects, Field
    <3>3. Rewritten(form.servers, loaded.servers, page.servers, page.servers[i]) =
            page.servers[i].name
      BY <1>1, <1>3, NothingRewritten
    <3> QED
      BY <1>2, <2>2, <2>4, <3>2, <3>3 DEF StaysActive
  <2> QED
    BY <2>3, <2>4
<1> QED
  BY <1>2, <1>4, <1>5, FirstMove
\* A field that is about no name and no selection.
LEMMA QuietEdit ==
  ASSUME Typed(form), Alike(form', form), form'.endpoint = form.endpoint,
         UNCHANGED <<page, loaded, staged, view>>
  PROVE  /\ Fresh => Fresh'
         /\ MovedOnce => MovedOnce'
<1>1. SameNames(form'.servers, form.servers) /\ SameNames(form'.profiles, form.profiles)
  BY DEF Alike
<1>2. Fresh => Fresh'
  <2> SUFFICES ASSUME Fresh
               PROVE  Fresh'
    OBVIOUS
  <2>1. Alike(form', staged)
    BY AlikeGives DEF Fresh
  <2> QED
    BY <2>1 DEF Fresh, Listed
<1>3. ASSUME NEW x
      PROVE  /\ OnlyTyped(form.servers, loaded.servers, x) =>
                  OnlyTyped(form'.servers, loaded.servers, x)
             /\ OnlyTyped(form.profiles, loaded.profiles, x) =>
                  OnlyTyped(form'.profiles, loaded.profiles, x)
             /\ CachedBut(form.servers, loaded.servers, page.servers, x) =>
                  CachedBut(form'.servers, loaded.servers, page.servers, x)
  BY <1>1 DEF OnlyTyped, CachedBut, SameNames, SameIds
<1>4. Blocked(form'.servers, page.servers) <=> Blocked(form.servers, page.servers)
  BY <1>1 DEF Blocked, SameNames, SameIds
<1>5. ASSUME NEW s
      PROVE  Rewritten(form'.servers, loaded.servers, page.servers, s) =
               Rewritten(form.servers, loaded.servers, page.servers, s)
  <2>1. /\ Has(form'.servers, s.id) <=> Has(form.servers, s.id)
        /\ Position(form'.servers, s.id) = Position(form.servers, s.id)
    BY <1>1, SamePlaces DEF SameNames
  <2>2. Has(form.servers, s.id) =>
          Section(form'.servers, s.id).name = Section(form.servers, s.id).name
    BY <1>1, <2>1, SectionFound DEF SameNames, SameIds
  <2> QED
    BY <2>1, <2>2 DEF Rewritten
<1>6. StaysActive(form, loaded, page) => StaysActive(form', loaded, page)
  BY <1>5 DEF StaysActive, Selects
<1>7. MovedOnce => MovedOnce'
  <2> SUFFICES ASSUME MovedOnce
               PROVE  MovedOnce'
    OBVIOUS
  <2>1. \A i \in DOMAIN form'.servers :
          ~Renames(page, form'.servers[i].id, form'.servers[i].name)
    BY <1>1 DEF MovedOnce, SameNames, SameIds
  <2> QED
    BY <1>3, <1>4, <1>6, <2>1 DEF MovedOnce, Listed
<1> QED
  BY <1>2, <1>7

LEMMA EditStays ==
  ASSUME TypeInv,
         \/ \E id, n : AssignProfile(id, n)
         \/ \E id, mode : EditMode(id, mode)
         \/ \E option \in {"address", "username", "password"} : \E v : EditProxy(option, v)
  PROVE  /\ Fresh => Fresh'
         /\ MovedOnce => MovedOnce'
<1>1. Typed(form)
  BY DEF TypeInv, TypeOK, Typed
<1>2. UNCHANGED <<page, loaded, staged, view>>
  BY DEF AssignProfile, EditMode, EditProxy, Edited, stored
<1>3. ASSUME NEW id, NEW n, AssignProfile(id, n)
      PROVE  Alike(form', form) /\ form'.endpoint = form.endpoint
  <2> DEFINE k == Position(form.servers, id)
  <2>1. k \in DOMAIN form.servers /\ form.servers[k] \in Servers
    BY <1>1, <1>3, SectionFound, ConfigFields DEF Typed, AssignProfile
  <2>2. form' = [form EXCEPT !.servers[k].profile = n]
    BY <1>3 DEF AssignProfile
  <2> HIDE DEF k
  <2>3. /\ form'.servers = [form.servers EXCEPT ![k].profile = n]
        /\ form'.profiles = form.profiles /\ form'.endpoint = form.endpoint
    BY <1>1, <2>2 DEF Typed, Config
  <2> QED
    BY <2>1, <2>3 DEF Alike, SameNames, SameIds, Servers
<1>4. ASSUME NEW id, NEW mode, EditMode(id, mode)
      PROVE  Alike(form', form) /\ form'.endpoint = form.endpoint
  <2> DEFINE k == Position(form.profiles, id)
  <2>1. k \in DOMAIN form.profiles /\ form.profiles[k] \in Profiles
    BY <1>1, <1>4, SectionFound, ConfigFields DEF Typed, EditMode
  <2>2. form' = [form EXCEPT !.profiles[k].mode = mode]
    BY <1>4 DEF EditMode
  <2> HIDE DEF k
  <2>3. /\ form'.profiles = [form.profiles EXCEPT ![k].mode = mode]
        /\ form'.servers = form.servers /\ form'.endpoint = form.endpoint
    BY <1>1, <2>2 DEF Typed, Config
  <2> QED
    BY <2>1, <2>3 DEF Alike, SameNames, SameIds, Profiles
<1>5. ASSUME NEW option \in {"address", "username", "password"}, NEW v,
             EditProxy(option, v)
      PROVE  Alike(form', form) /\ form'.endpoint = form.endpoint
  <2>1. form'.servers = form.servers /\ form'.profiles = form.profiles
        /\ form'.endpoint = form.endpoint
    BY <1>1, <1>5 DEF EditProxy, Typed, Config
  <2> QED
    BY <2>1 DEF Alike, SameNames, SameIds
<1> QED
  BY <1>1, <1>2, <1>3, <1>4, <1>5, QuietEdit

\* The document loaded, or loaded again.
LEMMA DocumentStep ==
  ASSUME TypeInv, UNCHANGED staged, Document(staged)
  PROVE  Fresh'
<1>1. Typed(staged)
  BY DEF TypeInv, TypeOK, Typed
<1>2. (/\ Typed(staged) /\ page = staged /\ loaded = staged /\ view = ViewOf(staged)
       /\ form = Fields(staged, ViewOf(staged).choices))'
  BY <1>1 DEF Document
<1> QED
  BY <1>2, DocumentFresh, PTL
\* What an import does to a cache that has its server.
LEMMA ImportedGives ==
  ASSUME NEW p, Typed(p), NEW id, Has(p.servers, id), NEW d, NEW host,
         NEW q, q = Imported(p, id, d, host),
         NEW k, k = Position(p.servers, id)
  PROVE  /\ SameIds(p.servers, q.servers) /\ q.profiles = p.profiles
         /\ k \in DOMAIN p.servers /\ p.servers[k].id = id
         /\ \A i \in DOMAIN p.servers : i # k => q.servers[i] = p.servers[i]
         /\ p.servers[k].name # None => q.servers[k].name = p.servers[k].name
         /\ p.endpoint # None /\ Named(q.servers, p.endpoint) # {} => q.endpoint = p.endpoint
<1> DEFINE name == IF p.servers[k].name = None THEN host ELSE p.servers[k].name
           z == [p EXCEPT !.servers[k].data = d, !.servers[k].name = name]
<1>1. k \in DOMAIN p.servers /\ p.servers[k].id = id /\ p.servers[k] \in Servers
  BY SectionFound, ConfigFields DEF Typed
<1>2. q = IF HasActive(z) \/ name = None THEN z ELSE [z EXCEPT !.endpoint = name]
  BY DEF Imported
<1> HIDE DEF name
<1>3. /\ z.servers = [p.servers EXCEPT ![k] = [p.servers[k] EXCEPT !.data = d, !.name = name]]
      /\ z.profiles = p.profiles /\ z.endpoint = p.endpoint
      /\ [z EXCEPT !.endpoint = name].servers = z.servers
      /\ [z EXCEPT !.endpoint = name].profiles = z.profiles
  BY <1>1 DEF Typed, Config, Servers
<1> HIDE DEF z
<1>4. q.servers = z.servers /\ q.profiles = p.profiles
  BY <1>2, <1>3
<1>5. /\ SameIds(p.servers, q.servers)
      /\ \A i \in DOMAIN p.servers : i # k => q.servers[i] = p.servers[i]
      /\ q.servers[k].name = name
  <2> DEFINE s == [p.servers[k] EXCEPT !.data = d, !.name = name]
  <2>1. s.id = p.servers[k].id /\ s.name = name
    BY <1>1 DEF Servers
  <2>2. q.servers = [p.servers EXCEPT ![k] = s]
    BY <1>3, <1>4
  <2> HIDE DEF s
  <2> QED
    BY <1>1, <2>1, <2>2 DEF SameIds
<1>6. p.endpoint # None /\ Named(q.servers, p.endpoint) # {} => q.endpoint = p.endpoint
  BY <1>2, <1>3, <1>4 DEF HasActive
<1> QED
  BY <1>1, <1>4, <1>5, <1>6 DEF name

\* What an import into such a page leaves alone.
ImportKeepsOthers ==
  /\ OtherServers(staged', import.target) = OtherServers(staged, import.target)
  /\ NameOf(staged.servers, import.target) \in
       {None, NameOf(staged'.servers, import.target)}
  /\ HasActive(staged) => staged'.endpoint = staged.endpoint

LEMMA ImportMoves ==
  ASSUME TypeInv, Fresh, NEW d \in Data, NEW host \in NamesOrNone, NEW fails \in BOOLEAN,
         ImportArrived(d, host, fails)
  PROVE  MovedOnce' /\ KeepsSelection /\ ImportKeepsOthers
<1> DEFINE t == import.target
           k == Position(page.servers, t)
           ps == page.servers
           qs == page'.servers
           fs == form.servers
           ls == loaded.servers
<1>1. /\ Typed(page) /\ Typed(page') /\ Distinct(ps) /\ Distinct(fs) /\ Distinct(staged.servers)
      /\ t \in ServerIds
  <2>1. Typed(page) /\ Typed(page')
    BY ImportedTyped DEF ImportArrived, TypeInv, TypeOK, Typed, NamesOrNone
  <2> QED
    BY <2>1 DEF TypeInv, TypeOK, Typed, Once, Imports, ImportArrived
<1>2. /\ UNCHANGED <<loaded, form, view>> /\ staged' \in {staged, page'}
      /\ page' = IF Has(ps, t) THEN Imported(page, t, d, host) ELSE page
  BY DEF ImportArrived
<1>3. /\ SameNames(fs, ls) /\ SameNames(form.profiles, loaded.profiles)
      /\ \A i \in DOMAIN fs : NameOf(ps, fs[i].id) = fs[i].name
      /\ SameIds(fs, ps) /\ SameIds(staged.servers, ps)
      /\ \A i \in DOMAIN ps : fs[i].name = ps[i].name /\ staged.servers[i].name = ps[i].name
      /\ \A i \in DOMAIN ps : staged.servers[i].data = ps[i].data
  BY <1>1, SelectionOfFresh, FoundAt DEF Fresh, Alike, SameNames, SameIds
<1>4. /\ SameIds(ps, qs) /\ page'.profiles = page.profiles
      /\ \A i \in DOMAIN ps :
           ps[i].id # t => qs[i].name = ps[i].name /\ qs[i].data = ps[i].data
      /\ \A i \in DOMAIN ps : ps[i].name # None => qs[i].name = ps[i].name
      /\ page.endpoint # None /\ Named(qs, page.endpoint) # {} =>
           page'.endpoint = page.endpoint
  <2>1. CASE Has(ps, t)
    <3>1. /\ SameIds(ps, qs) /\ page'.profiles = page.profiles
          /\ k \in DOMAIN ps /\ ps[k].id = t
          /\ \A i \in DOMAIN ps : i # k => qs[i] = ps[i]
          /\ ps[k].name # None => qs[k].name = ps[k].name
          /\ page.endpoint # None /\ Named(qs, page.endpoint) # {} =>
               page'.endpoint = page.endpoint
      BY <1>1, <1>2, <2>1, ImportedGives
    <3> HIDE DEF k, t, qs
    <3> QED
      BY <3>1
  <2>2. CASE ~Has(ps, t)
    BY <1>2, <2>2 DEF SameIds
  <2> QED
    BY <2>1, <2>2
<1> HIDE DEF t, k, qs
<1>5. Distinct(qs) /\ \A id : Has(qs, id) <=> Has(ps, id)
  BY <1>1, <1>4, SamePlaces
<1>6. \A i \in DOMAIN ps :
        /\ NameOf(ps, ps[i].id) = ps[i].name /\ NameOf(qs, ps[i].id) = qs[i].name
        /\ NameOf(staged.servers, ps[i].id) = ps[i].name
  <2> TAKE i \in DOMAIN ps
  <2>1. NameOf(ps, ps[i].id) = ps[i].name
    BY <1>1, FoundAt
  <2>2. i \in DOMAIN qs /\ qs[i].id = ps[i].id
    BY <1>4 DEF SameIds
  <2>3. i \in DOMAIN staged.servers /\ staged.servers[i].id = ps[i].id
    BY <1>3 DEF SameIds
  <2> QED
    BY <1>1, <1>3, <1>5, <2>1, <2>2, <2>3, FoundAt
<1>7. OnlyTyped(fs, ls, t) /\ OnlyTyped(form.profiles, loaded.profiles, None)
  BY <1>3 DEF OnlyTyped, SameNames
<1>8. CachedBut(fs, ls, qs, t)
  <2> SUFFICES ASSUME NEW i \in DOMAIN fs, Has(qs, fs[i].id)
               PROVE  IF fs[i].id = t
                      THEN fs[i].name = None \/ NameOf(qs, t) \in {fs[i].name, ls[i].name}
                      ELSE NameOf(qs, fs[i].id) = fs[i].name
    BY DEF CachedBut
  <2>1. i \in DOMAIN ps /\ fs[i].id = ps[i].id /\ fs[i].name = ps[i].name
    BY <1>3 DEF SameIds
  <2> QED
    BY <1>4, <1>6, <2>1
<1>9. \A i \in DOMAIN fs : ~Renames(page', fs[i].id, fs[i].name)
  <2> TAKE i \in DOMAIN fs
  <2>1. i \in DOMAIN ps /\ fs[i].id = ps[i].id /\ fs[i].name = ps[i].name
    BY <1>3 DEF SameIds
  <2>2. fs[i].name # None => NameOf(qs, fs[i].id) = fs[i].name
    BY <1>4, <1>6, <2>1
  <2> QED
    BY <2>2 DEF Renames, NameValid, qs
<1>10. Blocked(fs, qs) \/ \A i \in DOMAIN ps : qs[i].name = ps[i].name
  <2> SUFFICES ASSUME NEW i \in DOMAIN ps, qs[i].name # ps[i].name
               PROVE  Blocked(fs, qs)
    OBVIOUS
  <2>1. ps[i].name = None /\ i \in DOMAIN fs /\ fs[i].name = None /\ fs[i].id = ps[i].id
    BY <1>3, <1>4 DEF SameIds
  <2>2. Has(qs, fs[i].id)
    BY <1>1, <1>5, <2>1, FoundAt
  <2> QED
    BY <2>1, <2>2 DEF Blocked
<1>11. /\ Unique(staged.servers) => Unique(ps)
       /\ Unique(staged.profiles) <=> Unique(page.profiles)
  BY AlikeGives DEF Fresh
<1>12. Unique(staged'.servers) => Unique(qs) \/ Blocked(fs, qs)
  <2>1. CASE staged' = page'
    BY <2>1 DEF qs
  <2>2. CASE staged' = staged /\ ~Blocked(fs, qs)
    <3>1. SameNames(qs, ps)
      BY <1>4, <1>10, <2>2 DEF SameNames, SameIds
    <3> QED
      BY <1>11, <2>2, <3>1, SameNamesGive
  <2> QED
    BY <1>2, <2>1, <2>2
<1>13. Unique(staged'.profiles) => Unique(page'.profiles)
  BY <1>2, <1>4, <1>11
<1>14. HasActive(staged) => page'.endpoint = staged.endpoint /\ Named(qs, staged.endpoint) # {}
  <2> SUFFICES ASSUME HasActive(staged)
               PROVE  page'.endpoint = staged.endpoint /\ Named(qs, staged.endpoint) # {}
    OBVIOUS
  <2>1. staged.endpoint # None /\ page.endpoint = staged.endpoint
    BY DEF Fresh, HasActive
  <2>2. PICK i \in DOMAIN staged.servers : staged.servers[i].name = staged.endpoint
    BY DEF HasActive, Named
  <2>3. i \in DOMAIN ps /\ ps[i].name = staged.endpoint
    BY <1>3, <2>2 DEF SameIds
  <2>4. i \in DOMAIN qs /\ qs[i].name = staged.endpoint
    BY <1>4, <2>1, <2>3 DEF SameIds
  <2> QED
    BY <1>4, <2>1, <2>4 DEF Named
<1>15. HasActive(staged') =>
         \/ Blocked(fs, qs)
         \/ Listed(staged'.endpoint) /\ StaysActive(form, loaded, page')
  <2> SUFFICES ASSUME HasActive(staged'), ~Blocked(fs, qs)
               PROVE  Listed(staged'.endpoint) /\ StaysActive(form, loaded, page')
    OBVIOUS
  <2> DEFINE e == page'.endpoint
  <2>1. SameNames(qs, staged.servers) /\ SameNames(qs, ps)
    BY <1>3, <1>4, <1>10 DEF SameNames, SameIds
  <2>2. \A n : Named(qs, n) = Named(staged.servers, n)
    BY <2>1, SameNamesGive
  <2>3. staged'.endpoint = e /\ e # None /\ Named(qs, e) # {}
    BY <1>2, <1>14 DEF HasActive, qs
  <2>4. Listed(e)
    BY <2>2, <2>3 DEF Fresh, Named
  <2>5. form.endpoint # None
    <3> SUFFICES ASSUME form.endpoint = None
                 PROVE  FALSE
      OBVIOUS
    <3>1. Named(staged.servers, None) # {}
      <4>1. staged.servers # <<>>
        <5>1. DOMAIN staged.servers # {}
          BY <2>2, <2>3 DEF Named
        <5>2. DOMAIN <<>> = {}
          OBVIOUS
        <5> QED
          BY <5>1, <5>2
      <4> QED
        BY <4>1 DEF Fresh
    <3>2. PICK i \in DOMAIN ps : ps[i].name = None
      BY <1>3, <3>1 DEF Named, SameIds
    <3>3. i \in DOMAIN fs /\ fs[i].name = None /\ fs[i].id = ps[i].id
      BY <1>3, <3>2 DEF SameIds
    <3>4. Has(qs, fs[i].id)
      BY <1>1, <1>5, <3>3, FoundAt
    <3> QED
      BY <3>3, <3>4 DEF Blocked
  <2>6. Selects(form, loaded, e) # None /\ Named(qs, Selects(form, loaded, e)) # {}
    <3>1. CASE form.endpoint = loaded.endpoint
      BY <2>3, <2>5, <3>1 DEF Selects, Field
    <3>2. CASE form.endpoint # loaded.endpoint
      <4>1. staged.endpoint = None /\ Selects(form, loaded, e) = form.endpoint
        BY <2>5, <3>2 DEF Fresh, Selects, Field
      <4>2. Named(staged.servers, form.endpoint) # {}
        BY <2>5, <4>1 DEF Fresh, Listed
      <4> QED
        BY <2>2, <2>5, <4>1, <4>2
    <3> QED
      BY <3>1, <3>2
  <2>7. PICK i \in DOMAIN qs : qs[i].name = Selects(form, loaded, e)
    BY <2>6 DEF Named
  <2>8. Rewritten(fs, ls, qs, qs[i]) = qs[i].name
    BY <1>1, <1>3, NothingRewritten
  <2> QED
    BY <2>3, <2>4, <2>6, <2>7, <2>8 DEF StaysActive, qs
<1>16. MovedOnce'
  BY <1>1, <1>2, <1>7, <1>8, <1>9, <1>12, <1>13, <1>15 DEF MovedOnce, Listed, qs
<1>17. KeepsSelection
  BY <1>2, <1>14 DEF KeepsSelection, HasActive, qs
<1>18. ImportKeepsOthers
  <2>1. CASE staged' = staged
    BY <2>1 DEF ImportKeepsOthers
  <2>2. CASE staged' = page'
    <3>1. OtherServers(staged', t) = OtherServers(staged, t)
      <4>1. /\ DOMAIN qs = DOMAIN staged.servers
            /\ \A i \in DOMAIN qs :
                 /\ qs[i].id = staged.servers[i].id
                 /\ qs[i].id # t => /\ qs[i].name = staged.servers[i].name
                                    /\ qs[i].data = staged.servers[i].data
        BY <1>3, <1>4 DEF SameIds
      <4> QED
        BY <2>2, <4>1 DEF OtherServers, Entries, qs
    <3>2. NameOf(staged.servers, t) \in {None, NameOf(qs, t)}
      <4>1. CASE Has(ps, t)
        <5>1. PICK i \in DOMAIN ps : ps[i].id = t
          BY <4>1, SectionFound
        <5> QED
          BY <1>4, <1>6, <5>1
      <4>2. CASE ~Has(ps, t)
        BY <1>3, <4>2, SamePlaces DEF NameOf
      <4> QED
        BY <4>1, <4>2
    <3> QED
      BY <1>14, <2>2, <3>1, <3>2 DEF ImportKeepsOthers, t, qs
  <2> QED
    BY <1>2, <2>1, <2>2
<1> QED
  BY <1>16, <1>17, <1>18
-----------------------------------------------------------------------------
(* The whole page.                                                          *)

\* What follows when neither the configuration nor the document changes.
LEMMA NothingStaged ==
  ASSUME staged' = staged
  PROVE  KeepsSelection /\ KeepsNames
BY DEF KeepsSelection, KeepsNames

LEMMA NothingMoves ==
  ASSUME UNCHANGED <<staged, page, loaded, form, view>>
  PROVE  (Fresh => Fresh') /\ (MovedOnce => MovedOnce')
BY DEF Fresh, MovedOnce, Listed

\* Any step of a page in which nothing moved.
LEMMA FirstStep ==
  ASSUME TypeInv, moves = 0, Fresh, [Next]_vars
  PROVE  /\ moves' = 0 => Fresh'
         /\ moves' = 1 => MovedOnce'
         /\ KeepsSelection
         /\ UNCHANGED import => KeepsNames
<1>1. ASSUME NEW fails \in BOOLEAN, Save(fails)
      PROVE  Fresh' /\ moves' = 0 /\ KeepsSelection /\ KeepsNames
  <2>1. Fresh' /\ Alike(staged', staged) /\ (HasActive(staged) => HasActive(staged'))
    BY <1>1, SaveFresh DEF Save
  <2>2. KeepsNames
    BY <2>1, AlikeGives DEF KeepsNames
  <2>3. moves' = 0
    BY <1>1 DEF Save
  <2> QED
    BY <2>1, <2>2, <2>3 DEF KeepsSelection
<1>2. ASSUME NEW fails \in BOOLEAN, Sections(fails)
      PROVE  MovedOnce' /\ moves' = 1 /\ KeepsSelection /\ KeepsNames
  <2>1. moves' = 1
    BY <1>2 DEF Sections, AddServer, AddProfile, RemoveServer, RemoveProfile, Moved
  <2>2. MovedOnce' /\ KeepsSelection /\ KeepsNames
    BY <1>2, AddServerMoves, RemoveServerMoves, ProfileSectionsMove DEF Sections
  <2> QED
    BY <2>1, <2>2
<1>3. CASE Typing
  <2>0. staged' = staged
    BY <1>3 DEF Typing, EditName, EditProfileName, PickServer, AssignProfile, EditMode,
                EditProxy, Edited, stored
  <2>1. CASE \/ \E id \in ServerIds, n \in Names \cup {None} : EditName(id, n)
             \/ \E id \in ProfileIds, n \in Names \cup {None} : EditProfileName(id, n)
             \/ \E n \in Names \cup {None} : PickServer(n)
    <3>1. moves' = 1
      BY <2>1 DEF EditName, EditProfileName, PickServer, Moved
    <3>2. MovedOnce'
      BY <2>1, RenamingMoves, ProfileRenamingMoves, PickingMoves
    <3> QED
      BY <2>0, <3>1, <3>2, NothingStaged
  <2>2. CASE \/ \E id, n : AssignProfile(id, n)
             \/ \E id, mode : EditMode(id, mode)
             \/ \E option \in {"address", "username", "password"} : \E v : EditProxy(option, v)
    <3>1. moves' = 0
      BY <2>2 DEF AssignProfile, EditMode, EditProxy
    <3>2. Fresh'
      BY <2>2, EditStays
    <3> QED
      BY <2>0, <3>1, <3>2, NothingStaged
  <2> QED
    BY <1>3, <2>1, <2>2 DEF Typing
<1>4. CASE Importing
  <2>1. ASSUME NEW d \in Data, NEW host \in Names \cup {None}, NEW fails \in BOOLEAN,
               ImportArrived(d, host, fails)
        PROVE  MovedOnce' /\ moves' = 1 /\ KeepsSelection /\ import' # import
    <3>1. moves' = 1 /\ import' # import
      BY <2>1 DEF ImportArrived, Moved
    <3> QED
      BY <2>1, <3>1, ImportMoves DEF NamesOrNone
  <2>2. CASE ~\E d \in Data, host \in Names \cup {None}, fails \in BOOLEAN :
               ImportArrived(d, host, fails)
    <3>1. UNCHANGED <<staged, page, loaded, form, view, moves>>
      BY <1>4, <2>2 DEF Importing, OpenImport, PressImport, CloseImport, ImportRefused, stored
    <3> QED
      BY <3>1, NothingMoves, NothingStaged
  <2> QED
    BY <2>1, <2>2
<1>5. CASE Reload \/ Apply
  <2>1. UNCHANGED staged /\ Document(staged)
    BY <1>5 DEF Reload, Apply, stored
  <2> QED
    BY <2>1, DocumentStep, NothingStaged DEF Document
<1>6. CASE UNCHANGED vars
  BY <1>6, NothingMoves, NothingStaged DEF vars, stored
<1> QED
  BY <1>1, <1>2, <1>3, <1>4, <1>5, <1>6 DEF Next

\* Any step of a page in which something did: one move after another, or a save
\* of the first that staged something, is the end of what is promised.
LEMMA LaterStep ==
  ASSUME TypeInv, moves # 0, moves = 1 => MovedOnce, [Next]_vars
  PROVE  /\ moves' = 0 => Fresh'
         /\ moves' = 1 => MovedOnce'
<1>1. ASSUME NEW fails \in BOOLEAN, Save(fails)
      PROVE  moves' # 0 /\ (moves' = 1 => MovedOnce')
  <2>1. SaveOver(page, fails) /\ moves' = IF moves > 0 /\ staged' # staged THEN 2 ELSE moves
    BY <1>1 DEF Save
  <2>2. moves > 0
    BY DEF TypeInv, TypeOK
  <2> QED
    BY <2>1, <2>2, SaveMoved
<1>2. ASSUME NEW fails \in BOOLEAN, Sections(fails)
      PROVE  moves' = 2
  <2>1. Moved
    BY <1>2 DEF Sections, AddServer, AddProfile, RemoveServer, RemoveProfile
  <2> QED
    BY <2>1 DEF Moved
<1>3. CASE Typing
  <2>1. CASE \/ \E id \in ServerIds, n \in Names \cup {None} : EditName(id, n)
             \/ \E id \in ProfileIds, n \in Names \cup {None} : EditProfileName(id, n)
             \/ \E n \in Names \cup {None} : PickServer(n)
    BY <2>1 DEF EditName, EditProfileName, PickServer, Moved
  <2>2. CASE \/ \E id, n : AssignProfile(id, n)
             \/ \E id, mode : EditMode(id, mode)
             \/ \E option \in {"address", "username", "password"} : \E v : EditProxy(option, v)
    <3>1. moves' = moves
      BY <2>2 DEF AssignProfile, EditMode, EditProxy
    <3> QED
      BY <2>2, <3>1, EditStays
  <2> QED
    BY <1>3, <2>1, <2>2 DEF Typing
<1>4. CASE Importing
  <2>1. CASE \E d \in Data, host \in Names \cup {None}, fails \in BOOLEAN :
               ImportArrived(d, host, fails)
    BY <2>1 DEF ImportArrived, Moved
  <2>2. CASE ~\E d \in Data, host \in Names \cup {None}, fails \in BOOLEAN :
               ImportArrived(d, host, fails)
    <3>1. UNCHANGED <<staged, page, loaded, form, view, moves>>
      BY <1>4, <2>2 DEF Importing, OpenImport, PressImport, CloseImport, ImportRefused, stored
    <3> QED
      BY <3>1, NothingMoves
  <2> QED
    BY <2>1, <2>2
<1>5. CASE Reload \/ Apply
  <2>1. UNCHANGED staged /\ Document(staged)
    BY <1>5 DEF Reload, Apply, stored
  <2> QED
    BY <2>1, DocumentStep DEF Document
<1>6. CASE UNCHANGED vars
  BY <1>6, NothingMoves DEF vars, stored
<1> QED
  BY <1>1, <1>2, <1>3, <1>4, <1>5, <1>6 DEF Next

LEMMA FollowInit ==
  ASSUME Init
  PROVE  FollowInv
<1>1. TypeInv
  BY TypeInit
<1>2. /\ moves = 0 /\ Typed(staged) /\ page = staged /\ loaded = staged
      /\ view = ViewOf(staged) /\ form = Fields(staged, ViewOf(staged).choices)
  BY <1>1 DEF Init, TypeInv, TypeOK, Typed
<1> QED
  BY <1>1, <1>2, DocumentFresh DEF FollowInv

LEMMA FollowStep ==
  ASSUME FollowInv, [Next]_vars
  PROVE  FollowInv'
BY TypeStep, FirstStep, LaterStep DEF FollowInv

\* What one change at a time does.
LEMMA OneChangeKeeps ==
  ASSUME FollowInv, [Next]_vars, OneChange
  PROVE  KeepsSelection /\ (UNCHANGED import => KeepsNames)
<1>1. CASE moves = 0
  BY <1>1, FirstStep DEF FollowInv
<1>2. CASE moves = 1 /\ \E fails \in BOOLEAN : Save(fails)
  BY <1>2, SaveMoved DEF FollowInv, Save
<1> QED
  BY <1>1, <1>2 DEF OneChange

\* A selection that names a server goes on naming one, whatever is typed,
\* added, deleted, picked or imported, one thing at a time, in any number of
\* documents, and whatever the saves before left unsaved in the cache.
THEOREM SelectionFollows == Spec => SelectionKept
<1>1. Init => FollowInv
  BY FollowInit
<1>2. FollowInv /\ [Next]_vars => FollowInv'
  BY FollowStep
<1>3. FollowInv /\ [Next]_vars =>
        [(OneChange /\ HasActive(staged) /\ staged'.servers # <<>>) => HasActive(staged')]_vars
  BY OneChangeKeeps DEF KeepsSelection
<1> QED
  BY <1>1, <1>2, <1>3, PTL DEF Spec, SelectionKept

\* No change at a time gives two servers, or two profiles, one name.
THEOREM NamesKeptApart == Spec => NamesStayUnique
<1>1. Init => FollowInv
  BY FollowInit
<1>2. FollowInv /\ [Next]_vars => FollowInv'
  BY FollowStep
<1>3. FollowInv /\ [Next]_vars =>
        [(OneChange /\ UNCHANGED import /\ Unique(staged.servers) /\ Unique(staged.profiles)) =>
           Unique(staged'.servers) /\ Unique(staged'.profiles)]_vars
  BY OneChangeKeeps DEF KeepsNames
<1> QED
  BY <1>1, <1>2, <1>3, PTL DEF Spec, NamesStayUnique

\* An import into a document in which nothing moved touches no other server,
\* renames none that has a name and takes the selection from none.
THEOREM ImportsConfined == Spec => ImportConfined
<1>1. Init => FollowInv
  BY FollowInit
<1>2. FollowInv /\ [Next]_vars => FollowInv'
  BY FollowStep
<1>3. FollowInv /\ [Next]_vars =>
        [(moves = 0 /\ \E d \in Data, host \in Names \cup {None}, fails \in BOOLEAN :
            ImportArrived(d, host, fails)) =>
           /\ OtherServers(staged', import.target) = OtherServers(staged, import.target)
           /\ NameOf(staged.servers, import.target) \in
                {None, NameOf(staged'.servers, import.target)}
           /\ HasActive(staged) => staged'.endpoint = staged.endpoint]_vars
  BY ImportMoves DEF FollowInv, ImportKeepsOthers, NamesOrNone
<1> QED
  BY <1>1, <1>2, <1>3, PTL DEF Spec, ImportConfined

=============================================================================
