---------------------------- MODULE SettingsPage ----------------------------
(***************************************************************************)
(* The Settings page: a form over the session's view of the configuration. *)
(*                                                                         *)
(*   etc      the committed configuration                                  *)
(*   staged   the session's: with the changes saved but not applied        *)
(*   page     the uci cache of the open document; the validators read it,  *)
(*            and one of them writes it                                    *)
(*   loaded   the values the form was rendered from; a save writes what    *)
(*            differs from them                                            *)
(*   form     what the fields hold                                         *)
(*   view     what render computed once for the document: the choices of   *)
(*            the pickers, the profiles and the active profile             *)
(*   import   the Import dialog: closed, open, waiting, or closed with the *)
(*            reload of the page due                                       *)
(*   budget   how often each kind of event may still happen                *)
(*   moves    what was done since the document was loaded to what names    *)
(*            the active server (no part of the page)                      *)
(*                                                                         *)
(* A configuration is reduced to what the form's code branches on.  Data   *)
(* stands for the connection fields of a server, Loopback and Everywhere   *)
(* for the two kinds of listen address.  The form framework is modelled    *)
(* from how the page uses it: a field is validated on every key and when   *)
(* it is left, and all of them before a save; a save writes the valid      *)
(* fields that differ from what was loaded into the cache, and stages the  *)
(* cache only if every field was valid; adding or deleting a section is    *)
(* such a save.                                                            *)
(***************************************************************************)
EXTENDS Naturals, SequencesExt, FiniteSetsExt

CONSTANTS
  ServerIds,   \* the section ids of servers
  ProfileIds,  \* the section ids of profiles
  Names,       \* the names a server or a profile can be given
  Data,        \* the connection settings of a server
  Loopback,    \* a listen address inside the loopback
  Everywhere,  \* one outside of it
  Secrets,     \* user names and passwords
  None,        \* an option that is not set
  Starts,      \* the configurations to start from
  Budgets      \* Budgets[c]: the bounds of the events, one choice each

Servers ==
  [id : ServerIds, name : Names \cup {None}, profile : Names \cup {None},
   data : Data \cup {None}]
Profiles ==
  [id : ProfileIds, name : Names \cup {None}, mode : {"vpn", "bypass"}]

\* The configurations; the sections of a type have an order.
Config ==
  [servers : Seq(Servers), profiles : Seq(Profiles),
   endpoint : Names \cup {None}, address : {Loopback, Everywhere},
   username : Secrets \cup {None}, password : Secrets \cup {None}]

\* No section appears twice in a configuration.
Distinct(secs) == \A i, j \in DOMAIN secs : secs[i].id = secs[j].id => i = j
Once(c) ==
  /\ Distinct(c.servers) /\ Distinct(c.profiles)
  /\ \A i \in DOMAIN c.servers, j \in DOMAIN c.profiles : c.servers[i].id # c.profiles[j].id

Events == {"name", "picker", "assign", "proxy", "section", "import", "fault"}

ASSUME SettingsPageAssumption ==
  /\ Starts \subseteq Config /\ \A c \in Starts : Once(c)
  /\ None \notin Names \cup Secrets \cup Data \cup Servers \cup Profiles
  /\ Loopback # Everywhere
  /\ Budgets \in [Starts -> SUBSET [Events -> Nat]]

VARIABLES etc, staged, page, loaded, form, view, import, budget, moves

stored == <<etc, staged>>
vars == <<stored, page, loaded, form, view, import, budget, moves>>

Spend(kinds) ==
  /\ \A k \in kinds : budget[k] > 0
  /\ budget' = [k \in Events |-> IF k \in kinds THEN budget[k] - 1 ELSE budget[k]]

Faults(fails) == IF fails THEN {"fault"} ELSE {}

-----------------------------------------------------------------------------
(* Sections.                                                               *)

Positions(secs, id) == {i \in DOMAIN secs : secs[i].id = id}
Has(secs, id) == Positions(secs, id) # {}
Position(secs, id) == CHOOSE i \in Positions(secs, id) : TRUE
Section(secs, id) == secs[Position(secs, id)]
Named(secs, n) == {i \in DOMAIN secs : secs[i].name = n}

\* uci.get of a section that may be gone.
NameOf(secs, id) == IF Has(secs, id) THEN Section(secs, id).name ELSE None

SetName(secs, id, n) == [secs EXCEPT ![Position(secs, id)].name = n]

Entries(secs) == {secs[i] : i \in DOMAIN secs}

HasActive(c) == c.endpoint # None /\ Named(c.servers, c.endpoint) # {}

Unique(secs) ==
  \A i, j \in DOMAIN secs : secs[i].name = secs[j].name /\ i # j => secs[i].name = None

-----------------------------------------------------------------------------
(* What the scripts make of a configuration.                               *)

\* The section loops of tt-uci.sh and uci-export keep the last section of the
\* name; an empty reference names nothing.
LastNamed(secs, n) ==
  IF n = None \/ Named(secs, n) = {} THEN None ELSE secs[Max(Named(secs, n))]

\* The profile the records are given.
ProfileInForce(c) ==
  LET s == LastNamed(c.servers, c.endpoint) IN
  IF s = None THEN None ELSE LastNamed(c.profiles, s.profile)

-----------------------------------------------------------------------------
(* Rendering.                                                              *)

\* A slip in render: the profile of the first server taken.
ViewOfFirst(c) ==
  [choices |-> [i \in DOMAIN c.servers |-> c.servers[i].name]
                 \o (IF HasActive(c) \/ c.endpoint = None THEN <<>> ELSE <<c.endpoint>>),
   profiles |-> c.profiles,
   offered |-> {None} \cup {s.profile : s \in Entries(c.servers)}
                 \cup {r.name : r \in Entries(c.profiles)},
   active |-> IF c.servers = <<>> THEN None ELSE c.servers[1].profile]

\* What the view's render keeps for the life of the document: the pickers
\* list the servers, the profiles, and the references that name none of
\* them; the preview gets the profiles and the profile of the first server of
\* the active name.
ViewOf(c) ==
  [choices |-> [i \in DOMAIN c.servers |-> c.servers[i].name]
                 \o (IF HasActive(c) \/ c.endpoint = None THEN <<>> ELSE <<c.endpoint>>),
   profiles |-> c.profiles,
   offered |-> {None} \cup {s.profile : s \in Entries(c.servers)}
                 \cup {r.name : r \in Entries(c.profiles)},
   active |-> IF ~HasActive(c) THEN None
              ELSE c.servers[Min(Named(c.servers, c.endpoint))].profile]

\* The fields rendered from the cache.  A value the picker does not list
\* cannot be shown: the browser selects the first choice.
Fields(c, choices) ==
  [c EXCEPT !.endpoint =
     IF choices = <<>> THEN None
     ELSE IF \E i \in DOMAIN choices : choices[i] = @ THEN @
     ELSE choices[1]]

\* The document loaded, or loaded again.
Document(c) ==
  /\ page' = c
  /\ loaded' = c
  /\ view' = ViewOf(c)
  /\ form' = Fields(c, ViewOf(c).choices)
  /\ import' = [stage |-> "closed"]
  /\ moves' = 0

-----------------------------------------------------------------------------
(* The validators.                                                         *)

\* A slip in the name validators: the other sections not looked at.
NameValidGiven(secs, id, n) == n # None

\* A server's name, and a profile's: given, and nobody else's in the cache.
NameValid(secs, id, n) ==
  n # None /\ \A i \in Named(secs, n) : secs[i].id = id

\* The rename follow-up in the server name's validator: a valid new name for
\* the section the cached selection names moves the selection at once.
Renames(p, id, n) ==
  /\ Has(p.servers, id)
  /\ NameValid(p.servers, id, n)
  /\ n # NameOf(p.servers, id)
  /\ NameOf(p.servers, id) = p.endpoint

FollowRename(p, id, n) ==
  IF Renames(p, id, n) THEN [p EXCEPT !.endpoint = n] ELSE p

\* The listen address needs a user name outside the loopback, and the user
\* name and the password need each other: each looked up in the cache.
AddressValid(p, v) == v = Loopback \/ p.username # None
UsernameValid(p, v) == v = None \/ p.password # None
PasswordValid(p, v) == v = None \/ p.username # None

\* All validators, before a save.  The first one that moves the selection
\* moves it to a name no cached section has, so no other one follows.
Validated(p) ==
  LET movers == {i \in DOMAIN form.servers :
                   Renames(p, form.servers[i].id, form.servers[i].name)}
  IN IF movers = {} THEN p
     ELSE [p EXCEPT !.endpoint = form.servers[Min(movers)].name]

NamesValid(p) ==
  /\ \A s \in Entries(form.servers) :
       Has(p.servers, s.id) => NameValid(p.servers, s.id, s.name)
  /\ \A r \in Entries(form.profiles) :
       Has(p.profiles, r.id) => NameValid(p.profiles, r.id, r.name)

AllValid(p) ==
  /\ NamesValid(p)
  /\ AddressValid(p, form.address)
  /\ UsernameValid(p, form.username)
  /\ PasswordValid(p, form.password)

-----------------------------------------------------------------------------
(* A save.                                                                 *)

\* A field is written when it is valid and differs from what was loaded.
Field(valid, typed, old, cached) == IF valid /\ typed # old THEN typed ELSE cached

\* A section added since the form was rendered has no fields.
WrittenServer(p, s) ==
  IF ~Has(form.servers, s.id) THEN s
  ELSE LET f == Section(form.servers, s.id)
           l == Section(loaded.servers, s.id)
       IN [s EXCEPT
            !.name = Field(NameValid(p.servers, s.id, f.name), f.name, l.name, @),
            !.profile = Field(TRUE, f.profile, l.profile, @)]

WrittenProfile(p, r) ==
  IF ~Has(form.profiles, r.id) THEN r
  ELSE LET f == Section(form.profiles, r.id)
           l == Section(loaded.profiles, r.id)
       IN [r EXCEPT
            !.name = Field(NameValid(p.profiles, r.id, f.name), f.name, l.name, @),
            !.mode = Field(TRUE, f.mode, l.mode, @)]

\* What the fields make of the cache; an empty picker removes the selection.
Written(p) ==
  [servers |-> [i \in DOMAIN p.servers |-> WrittenServer(p, p.servers[i])],
   profiles |-> [i \in DOMAIN p.profiles |-> WrittenProfile(p, p.profiles[i])],
   endpoint |-> IF form.endpoint = None THEN None
                ELSE Field(TRUE, form.endpoint, loaded.endpoint, p.endpoint),
   address |-> Field(AddressValid(p, form.address),
                 form.address, loaded.address, p.address),
   username |-> Field(UsernameValid(p, form.username),
                  form.username, loaded.username, p.username),
   password |-> Field(PasswordValid(p, form.password),
                  form.password, loaded.password, p.password)]

\* The cache p saved, with the fields: staged and rendered again when every
\* field was valid and the call went through, and else left in the cache.
SaveOver(p, fails) ==
  LET q == Written(Validated(p))
      done == AllValid(p) /\ ~fails
  IN /\ page' = q
     /\ staged' = IF done THEN q ELSE staged
     /\ loaded' = IF done THEN q ELSE loaded
     /\ form' = IF done THEN Fields(q, view.choices) ELSE form
     /\ fails => AllValid(p)
     /\ UNCHANGED <<etc, view, import>>

\* moves counts up to two: what changes who is called what, and a save after
\* such a change, as the document keeps what it knew before.
Moved == moves' = IF moves = 0 THEN 1 ELSE 2

\* The Import dialog covers the page.
Uncovered == import.stage \notin {"open", "waiting"}

Save(fails) ==
  /\ Uncovered
  /\ Spend(Faults(fails))
  /\ SaveOver(page, fails)
  /\ moves' = IF moves > 0 /\ staged' # staged THEN 2 ELSE moves

-----------------------------------------------------------------------------
(* Typing and choosing.                                                    *)

Edited(kind) == Uncovered /\ Spend({kind}) /\ UNCHANGED <<stored, loaded, view, import>>

\* A key in a server's name field, or a paste.
EditName(id, n) ==
  /\ Has(form.servers, id) /\ Has(page.servers, id)
  /\ n # NameOf(form.servers, id)
  /\ form' = [form EXCEPT !.servers = SetName(@, id, n)]
  /\ page' = FollowRename(page, id, n)
  /\ Moved
  /\ Edited("name")

EditProfileName(id, n) ==
  /\ Has(form.profiles, id) /\ Has(page.profiles, id)
  /\ n # NameOf(form.profiles, id)
  /\ form' = [form EXCEPT !.profiles = SetName(@, id, n)]
  /\ Moved
  /\ Edited("name")
  /\ UNCHANGED page

PickServer(n) ==
  /\ n # form.endpoint
  /\ \E i \in DOMAIN view.choices : view.choices[i] = n
  /\ form' = [form EXCEPT !.endpoint = n]
  /\ Moved
  /\ Edited("picker")
  /\ UNCHANGED page

\* A server's profile, among those offered when the document was loaded.
AssignProfile(id, n) ==
  /\ Has(form.servers, id)
  /\ n \in view.offered
  /\ n # Section(form.servers, id).profile
  /\ form' = [form EXCEPT !.servers[Position(form.servers, id)].profile = n]
  /\ Edited("assign")
  /\ UNCHANGED <<page, moves>>

EditMode(id, mode) ==
  /\ Has(form.profiles, id)
  /\ mode # Section(form.profiles, id).mode
  /\ form' = [form EXCEPT !.profiles[Position(form.profiles, id)].mode = mode]
  /\ Edited("assign")
  /\ UNCHANGED <<page, moves>>

EditProxy(option, v) ==
  /\ v # form[option]
  /\ form' = [form EXCEPT ![option] = v]
  /\ Edited("proxy")
  /\ UNCHANGED <<page, moves>>

-----------------------------------------------------------------------------
(* Sections added and deleted: in the cache, and saved at once with the    *)
(* whole form, silently when a field is not valid.                         *)

NewServer(id) == [id |-> id, name |-> None, profile |-> None, data |-> None]
NewProfile(id) == [id |-> id, name |-> None, mode |-> "vpn"]

Without(secs, id) == RemoveAt(secs, Position(secs, id))

\* A slip in the choice of an id: only the committed sections looked at.
UnusedCommitted(id) == ~Has(etc.servers, id) /\ ~Has(etc.profiles, id)

\* An id is not given twice.
Unused(id) ==
  \A c \in {etc, staged, loaded, page} : ~Has(c.servers, id) /\ ~Has(c.profiles, id)

AddServer(id, fails) ==
  /\ Uncovered
  /\ Unused(id)
  /\ Spend({"section"} \cup Faults(fails))
  /\ Moved
  /\ SaveOver([page EXCEPT !.servers = Append(@, NewServer(id))], fails)

\* A slip in handleRemove: no guard.
RemoveAnyServer(id, fails) ==
  /\ Uncovered
  /\ Has(loaded.servers, id) /\ Has(page.servers, id)
  /\ Spend({"section"} \cup Faults(fails))
  /\ Moved
  /\ SaveOver([page EXCEPT !.servers = Without(@, id)], fails)

\* The active server is not deleted while there are others.
RemoveServer(id, fails) ==
  /\ Uncovered
  /\ Has(loaded.servers, id) /\ Has(page.servers, id)
  /\ ~(/\ NameOf(page.servers, id) # None
       /\ NameOf(page.servers, id) = page.endpoint
       /\ Len(page.servers) > 1)
  /\ Spend({"section"} \cup Faults(fails))
  /\ Moved
  /\ SaveOver([page EXCEPT !.servers = Without(@, id)], fails)

AddProfile(id, fails) ==
  /\ Uncovered
  /\ Unused(id)
  /\ Spend({"section"} \cup Faults(fails))
  /\ Moved
  /\ SaveOver([page EXCEPT !.profiles = Append(@, NewProfile(id))], fails)

RemoveProfile(id, fails) ==
  /\ Uncovered
  /\ Has(loaded.profiles, id) /\ Has(page.profiles, id)
  /\ Spend({"section"} \cup Faults(fails))
  /\ Moved
  /\ SaveOver([page EXCEPT !.profiles = Without(@, id)], fails)

-----------------------------------------------------------------------------
(* handleImport.                                                           *)

OpenImport(id) ==
  /\ import.stage = "closed"
  /\ Has(loaded.servers, id)
  /\ import' = [stage |-> "open", target |-> id]
  /\ UNCHANGED <<stored, page, loaded, form, view, budget, moves>>

PressImport ==
  /\ import.stage = "open"
  /\ Spend({"import"})
  /\ import' = [import EXCEPT !.stage = "waiting"]
  /\ UNCHANGED <<stored, page, loaded, form, view, moves>>

\* Closing the dialog does not call the import off.
CloseImport ==
  /\ import.stage \in {"open", "waiting"}
  /\ import' = IF import.stage = "open" THEN [stage |-> "closed"]
               ELSE [import EXCEPT !.stage = "behind"]
  /\ UNCHANGED <<stored, page, loaded, form, view, budget, moves>>

\* A slip in the import: the selection always moved to the imported server.
ImportedSelecting(p, id, d, host) ==
  LET i == Position(p.servers, id)
      name == IF p.servers[i].name = None THEN host ELSE p.servers[i].name
  IN [p EXCEPT !.servers[i].data = d, !.servers[i].name = name,
               !.endpoint = IF name # None THEN name ELSE @]

\* What an import makes of the cache: the fields of its server, the host as
\* its name if it has none, and the selection if it names no server.
Imported(p, id, d, host) ==
  LET i == Position(p.servers, id)
      name == IF p.servers[i].name = None THEN host ELSE p.servers[i].name
      q == [p EXCEPT !.servers[i].data = d, !.servers[i].name = name]
  IN IF HasActive(q) \/ name = None THEN q ELSE [q EXCEPT !.endpoint = name]

\* A slip in the button: an error of the backend never turned it back on.
ImportRefusedSilently ==
  /\ import.stage \in {"waiting", "behind"}
  /\ Spend({"fault"})
  /\ import' = [import EXCEPT !.stage = "disabled"]
  /\ UNCHANGED <<stored, page, loaded, form, view, moves>>

\* An error, of the backend or of the call: a notification, and the dialog as
\* before.
ImportRefused ==
  /\ import.stage \in {"waiting", "behind"}
  /\ Spend({"fault"})
  /\ import' = IF import.stage = "waiting" THEN [import EXCEPT !.stage = "open"]
               ELSE [stage |-> "closed"]
  /\ UNCHANGED <<stored, page, loaded, form, view, moves>>

\* The cache is staged as it is, whatever the fields hold; nobody waits for
\* that call, and the reload comes anyway.
ImportArrived(d, host, fails) ==
  /\ import.stage \in {"waiting", "behind"}
  /\ Spend(Faults(fails))
  /\ page' = IF Has(page.servers, import.target)
               THEN Imported(page, import.target, d, host) ELSE page
  /\ staged' = IF fails THEN staged ELSE page'
  /\ import' = [stage |-> "reload"]
  /\ Moved
  /\ UNCHANGED <<etc, loaded, form, view>>

\* The reload, the import's or the user's: what was typed is gone.
Reload ==
  /\ Document(staged)
  /\ UNCHANGED <<stored, budget>>

\* Apply, of Save & Apply or of the header; the document is loaded again.
Apply ==
  /\ Uncovered
  /\ etc' = staged
  /\ Document(staged)
  /\ UNCHANGED <<staged, budget>>

-----------------------------------------------------------------------------
(* handlePreview: what the preview of a profile's rules shows.             *)

\* Nothing for a section the document does not know, a hint for a profile
\* other than the active one, and else the rules under its mode.
Preview(id) ==
  IF ~Has(view.profiles, id) THEN "nothing"
  ELSE IF NameOf(view.profiles, id) # view.active THEN "not assigned"
  ELSE Section(view.profiles, id).mode

-----------------------------------------------------------------------------

Init ==
  /\ etc \in Starts
  /\ staged = etc
  /\ page = etc
  /\ loaded = etc
  /\ view = ViewOf(etc)
  /\ form = Fields(etc, ViewOf(etc).choices)
  /\ import = [stage |-> "closed"]
  /\ budget \in Budgets[etc]
  /\ moves = 0

Sections(fails) ==
  \/ \E id \in ServerIds : AddServer(id, fails) \/ RemoveServer(id, fails)
  \/ \E id \in ProfileIds : AddProfile(id, fails) \/ RemoveProfile(id, fails)

Typing ==
  \/ \E id \in ServerIds, n \in Names \cup {None} : EditName(id, n)
  \/ \E id \in ProfileIds, n \in Names \cup {None} : EditProfileName(id, n)
  \/ \E n \in Names \cup {None} : PickServer(n)
  \/ \E id \in ServerIds, n \in Names \cup {None} : AssignProfile(id, n)
  \/ \E id \in ProfileIds, mode \in {"vpn", "bypass"} : EditMode(id, mode)
  \/ \E v \in {Loopback, Everywhere} : EditProxy("address", v)
  \/ \E option \in {"username", "password"}, v \in Secrets \cup {None} :
       EditProxy(option, v)

Importing ==
  \/ \E id \in ServerIds : OpenImport(id)
  \/ PressImport
  \/ CloseImport
  \/ ImportRefused
  \/ \E d \in Data, host \in Names \cup {None}, fails \in BOOLEAN :
       ImportArrived(d, host, fails)

Next ==
  \/ \E fails \in BOOLEAN : Save(fails) \/ Sections(fails)
  \/ Typing
  \/ Importing
  \/ Reload
  \/ Apply

Spec == Init /\ [][Next]_vars

\* The call of an import is answered, and the page reloads itself.
ImportAnswer ==
  \/ ImportRefused
  \/ \E d \in Data, host \in Names \cup {None} : ImportArrived(d, host, FALSE)
  \/ import.stage = "reload" /\ Reload

FairSpec == Spec /\ WF_vars(ImportAnswer)

-----------------------------------------------------------------------------
(* Correctness.                                                            *)

Imports ==
  [stage : {"closed", "reload"}]
  \cup [stage : {"open", "waiting", "behind"}, target : ServerIds]

\* The values of every variable: whatever is stored, cached, loaded or typed
\* is a configuration, in which no section appears twice.
TypeOK ==
  /\ \A c \in {etc, staged, page, loaded, form} : c \in Config /\ Once(c)
  /\ import \in Imports
  /\ budget \in [Events -> Nat]
  /\ moves \in 0 .. 2

\* One change at a time: a save of a single change of names, selection or
\* sections in a freshly loaded document, or another button in one.
OneChange == moves = 0 \/ (moves = 1 /\ \E fails \in BOOLEAN : Save(fails))

\* What the rename follow-up, the guard of the delete button and the import's
\* healing are for: a selection that names a server goes on naming one, as
\* long as there is any, when one thing is changed at a time.
SelectionKept ==
  [][(OneChange /\ HasActive(staged) /\ staged'.servers # <<>>) =>
       HasActive(staged')]_vars

\* Without the reservation it is what the page means to promise.
SelectionNeverLost ==
  [][(HasActive(staged) /\ staged'.servers # <<>>) => HasActive(staged')]_vars

\* Two servers, or two profiles, never come to have one name by a change at a
\* time, an import's default name excepted.
NamesStayUnique ==
  [][(OneChange /\ UNCHANGED import /\ Unique(staged.servers) /\ Unique(staged.profiles)) =>
       Unique(staged'.servers) /\ Unique(staged'.profiles)]_vars

OtherServers(c, id) ==
  {<<s.id, s.name, s.data>> : s \in {t \in Entries(c.servers) : t.id # id}}

\* An import into a document in which nobody changed names or sections leaves
\* the name and the connection of every other server alone, never renames its
\* own, and never takes the selection from a server.  It is not the only thing
\* staged: what an earlier save left in the cache goes along.
ImportConfined ==
  [][(moves = 0 /\ \E d \in Data, host \in Names \cup {None}, fails \in BOOLEAN :
        ImportArrived(d, host, fails)) =>
       /\ OtherServers(staged', import.target) = OtherServers(staged, import.target)
       /\ NameOf(staged.servers, import.target) \in
            {None, NameOf(staged'.servers, import.target)}
       /\ HasActive(staged) => staged'.endpoint = staged.endpoint]_vars

\* The rules preview of a document of the applied settings shows verdicts for
\* the profile the scripts use, with its mode, and for no other: the page
\* looks for the first server of the active name and the scripts for the
\* last.  Names given once are assumed, and given at all.
PreviewIsInForce ==
  (/\ etc = page /\ view = ViewOf(etc)
   /\ Unique(etc.servers) /\ Unique(etc.profiles)) =>
    \A id \in ProfileIds :
      NameOf(view.profiles, id) # None =>
        Preview(id) = LET r == ProfileInForce(etc) IN
                      IF ~Has(etc.profiles, id) THEN "nothing"
                      ELSE IF r = None \/ r.id # id THEN "not assigned"
                      ELSE r.mode

\* The user name and the password are an on/off pair: with nothing else to
\* object to, a save goes through with both or neither of them typed, and with
\* half of the pair it does not.
PairTakenWhole ==
  (NamesValid(page) /\ (form.address = Loopback \/ form.username # None)) =>
    (AllValid(page) <=> (form.username = None <=> form.password = None))

\* An import in progress comes to an end: its button works again or the page
\* is loaded again.
ImportComesBack == []<>(import.stage \in {"closed", "open"})

=============================================================================
