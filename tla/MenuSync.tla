------------------------------ MODULE MenuSync ------------------------------
(***************************************************************************)
(* Restaurants, menu sections and food items, kept twice: as rows of       *)
(* PostgreSQL and as documents of Firestore.                               *)
(*   - A write through Prisma schedules a mirror of its result (setImmediate*)
(*     in PrismaService), which nobody awaits or retries.                  *)
(*   - The apps write documents; the listeners carry every change of a     *)
(*     document into the row, with the mirror switched off.                *)
(*   - Two scheduled jobs run over everything: one pulls documents into    *)
(*     rows, the other pushes rows over documents that differ and pulls    *)
(*     what has no row.                                                    *)
(*                                                                         *)
(* The content of a row or document is one value: the fields that mirrors, *)
(* pushes, listeners and pulls carry in both directions (a name, isActive, *)
(* isOpen, a price).  It is not a restaurant's status or wallet, which     *)
(* mirrors leave out (RestaurantStatus), nor a section's nameAr and        *)
(* sortOrder, an item's variants and images, which an administrator's pull *)
(* leaves out.  Rows and documents have the same ids, as the Prisma        *)
(* extension and the listeners see to it; an id is given once.             *)
(*                                                                         *)
(* The restaurants have a second listener and job, in                      *)
(* firebase/firebase-sync.service.ts.  Of a document that has its fields   *)
(* they write what the first ones write, each its versions in the same     *)
(* order, so one listener stands for both here.                            *)
(***************************************************************************)
EXTENDS Naturals, Sequences, Bags

CONSTANTS
  Restaurants, Sections, Items,
  Parent,       \* the restaurant of a section, the section of an item
  Contents,     \* positive numbers
  Scenarios     \* what an instance has: the inputs, what exists at the beginning on both
                \* sides, and bounds on the calls and app writes, on the failing mirrors
                \* and restarts, and on the jobs that start while something is on its way

Absent == 0
Objects == Restaurants \cup Sections \cup Items
Values == Contents \cup { Absent }

\* The three kinds of objects have tables of their own, and what is there at the beginning
\* obeys the foreign keys.
ASSUME MenuSyncAssumption ==
  /\ Contents # {} /\ Contents \subseteq Nat \ { Absent }
  /\ Objects # {} /\ { "job", "admin" } \cap Objects = {}
  /\ Restaurants \cap Sections = {} /\ Restaurants \cap Items = {} /\ Sections \cap Items = {}
  /\ Parent \in [ Sections \cup Items -> Restaurants \cup Sections ]
  /\ \A s \in Sections : Parent[s] \in Restaurants
  /\ \A i \in Items : Parent[i] \in Sections
  /\ Scenarios \subseteq
       [ operations : SUBSET { "api", "app", "admin", "jobs" }, existing : SUBSET Objects,
         inputs : Nat, faults : Nat, rushed : Nat ]
  /\ \A x \in Scenarios : \A o \in x.existing \ Restaurants : Parent[o] \in x.existing

\* The calls that have read and are about to write: a callback of the listener for each
\* document, the scheduled job, and an administrator.
Slots == Objects \cup { "job", "admin" }

VARIABLES
  scenario,   \* the member of Scenarios this behaviour is of
  rows, docs,   \* the content of each row and document
  given,      \* the ids that were given
  mirrors,    \* the writes to Firestore on their way, a bag
  inbox,      \* the versions of a document its listener has not been called with
  sync,       \* what a call has read and will write
  job,        \* the scheduled job: what it is doing, its snapshot, what is left to do
  report,     \* what the last comparison of an administrator found of each object
  inputs, faults, rushed,
  expected,   \* history: what the last inputs made of each object
  calm        \* history: every input and job found everything quiet, no fault happened

menuVars == << scenario, rows, docs, given, mirrors, inbox, sync, job, report, inputs, faults, rushed, expected, calm >>
history == << scenario, inputs, faults, rushed, expected, calm >>

\* A "set" writes the result of a statement, a "fresh" what it reads first.
Mirrors == [ op : { "set", "fresh", "delete" }, of : Objects, value : Values, resolved : BOOLEAN ]

SyncStates == [ pc : { "idle", "write", "clean" }, of : Objects, value : Values, existing : BOOLEAN ]

Todos == [ do : { "push", "pull" }, of : Objects, value : Contents ]

JobStates ==
  [ pc : { "idle", "restaurants", "sections", "items", "rows", "reconciling" },
    next : { "pull", "reconcile" }, docs : [ Objects -> Values ], todo : SUBSET Todos ]

MenuTypeOK ==
  /\ scenario \in Scenarios
  /\ rows \in [ Objects -> Values ]
  /\ docs \in [ Objects -> Values ]
  /\ given \subseteq Objects
  /\ BagToSet(mirrors) \subseteq Mirrors
  /\ inbox \in [ Objects -> Seq(Values) ]
  /\ sync \in [ Slots -> SyncStates ]
  /\ \A k \in Slots : sync[k].pc = "write" => sync[k].value # Absent
  /\ job \in JobStates
  /\ report \in [ Objects -> { "none", "missing_in_firestore", "missing_in_postgres", "mismatch" } ]
  /\ inputs \in 0 .. scenario.inputs
  /\ faults \in 0 .. scenario.faults
  /\ rushed \in 0 .. scenario.rushed
  /\ expected \in [ Objects -> Values ]
  /\ calm \in BOOLEAN

Nothing == [ o \in Objects |-> Absent ]

IdleSync == [ pc |-> "idle", of |-> CHOOSE o \in Objects : TRUE, value |-> Absent, existing |-> FALSE ]

IdleJob(next) == [ pc |-> "idle", next |-> next, docs |-> Nothing, todo |-> {} ]

MenuInit ==
  /\ scenario \in Scenarios
  /\ given = scenario.existing
  /\ rows = [ o \in Objects |-> IF o \in given THEN CHOOSE c \in Contents : TRUE ELSE Absent ]
  /\ docs = rows
  /\ report = [ o \in Objects |-> "none" ]
  /\ mirrors = EmptyBag
  /\ inbox = [ o \in Objects |-> << >> ]
  /\ sync = [ k \in Slots |-> IdleSync ]
  /\ job = IdleJob("pull")
  /\ inputs = 0 /\ faults = 0 /\ rushed = 0
  /\ expected = rows
  /\ calm = TRUE

(***************************************************************************)
(* Helpers                                                                 *)
(***************************************************************************)
ItemsOf(s) == { i \in Items : Parent[i] = s }

\* The rows a delete takes along: the foreign key of an item cascades.
Cascade(o) == { o } \cup (IF o \in Sections THEN ItemsOf(o) ELSE {})

\* What an input makes of one object.
Only(o, v) == [ x \in { o } |-> v ]

Without(f, objects) == [ o \in Objects |-> IF o \in objects THEN Absent ELSE f[o] ]

\* A row can be written only when the row it refers to is there.
ParentThere(o) == o \notin Restaurants => rows[Parent[o]] # Absent

\* What the extension schedules with the statement that writes a row.  The mirror of an
\* item looks its section up before it writes; that of a section looks up its restaurant,
\* and goes on with the id it has when there is none.
Mirror(op, o, v, resolved) == [ op |-> op, of |-> o, value |-> v, resolved |-> resolved ]
RestaurantMirror(r, v) == Mirror("set", r, v, TRUE)
SectionMirror(s, v) == Mirror("set", s, v, TRUE)
SectionDelete(s) == Mirror("delete", s, Absent, TRUE)
ItemMirror(i, v) == Mirror("set", i, v, FALSE)
ItemDelete(i) == Mirror("delete", i, Absent, FALSE)

\* syncFoodItemDirect, and syncToFirebase of a restaurant: they read the row first.
DirectMirror(i) == Mirror("fresh", i, Absent, FALSE)
RestaurantDirect(r) == Mirror("fresh", r, Absent, FALSE)

MirrorOf(o, v) ==
  CASE o \in Restaurants -> RestaurantMirror(o, v)
    [] o \in Sections -> SectionMirror(o, v)
    [] o \in Items -> ItemMirror(o, v)

Schedule(ms) == mirrors' = mirrors (+) SetToBag(ms)

\* A document gets a value, and its listener a version.
PutDoc(o, v) ==
  /\ docs' = [ docs EXCEPT ![o] = v ]
  /\ inbox' = [ inbox EXCEPT ![o] = Append(@, v) ]

\* Removing a document that is not there is no change.
RemoveDocs(objects) ==
  /\ docs' = Without(docs, objects)
  /\ inbox' = [ o \in Objects |->
       IF o \in objects /\ docs[o] # Absent THEN Append(inbox[o], Absent) ELSE inbox[o] ]

Quiet ==
  /\ mirrors = EmptyBag
  /\ job.pc = "idle"
  /\ \A o \in Objects : inbox[o] = << >>
  /\ \A k \in Slots : sync[k].pc = "idle"

\* A call of the API, of an administrator, or a write of an app makes of each object of
\* `intended` what the function says.
Input(operation, intended) ==
  /\ operation \in scenario.operations
  /\ inputs < scenario.inputs
  /\ inputs' = inputs + 1
  /\ calm' = (calm /\ Quiet)
  /\ expected' = [ o \in Objects |-> IF o \in DOMAIN intended THEN intended[o] ELSE expected[o] ]
  /\ UNCHANGED << scenario, faults, rushed >>

(***************************************************************************)
(* The API: FoodService and RestaurantsService                             *)
(***************************************************************************)

\* The id is the one the extension of Prisma gives to row and document.
Creates(o, v, ms) ==
  /\ o \notin given
  /\ ParentThere(o)
  /\ Input("api", Only(o, v))
  /\ rows' = [ rows EXCEPT ![o] = v ]
  /\ given' = given \cup { o }
  /\ Schedule(ms)
  /\ UNCHANGED << docs, inbox, sync, job, report >>

Updates(o, v, ms) ==
  /\ rows[o] \notin { Absent, v }
  /\ Input("api", Only(o, v))
  /\ rows' = [ rows EXCEPT ![o] = v ]
  /\ Schedule(ms)
  /\ UNCHANGED << docs, given, inbox, sync, job, report >>

CreateRestaurantRow(r, v) == Creates(r, v, { RestaurantMirror(r, v) })

CreateSection(s, v) == Creates(s, v, { SectionMirror(s, v) })

\* The rows of the variants come after the row of the item, whose document is then
\* written once more.
CreateFoodItem(i, v) == Creates(i, v, { ItemMirror(i, v), DirectMirror(i) })

\* The bulk is one transaction, with one batch after it.
CreateFoodItemsBulk(i, v) == Creates(i, v, { ItemMirror(i, v) })

UpdateSection(s, v) == Updates(s, v, { SectionMirror(s, v) })

UpdateFoodItem(i, v) == Updates(i, v, { ItemMirror(i, v), DirectMirror(i) })

ToggleAvailability(i, v) == Updates(i, v, { ItemMirror(i, v) })

\* update, updateDeliverySettings and toggleOpen.
UpdateRestaurant(r, v) == Updates(r, v, { RestaurantMirror(r, v), RestaurantDirect(r) })

Deletes(o, m) ==
  /\ rows[o] # Absent
  /\ Input("api", [ x \in Cascade(o) |-> Absent ])
  /\ rows' = Without(rows, Cascade(o))
  /\ Schedule({ m })
  /\ UNCHANGED << docs, given, inbox, sync, job, report >>

DeleteSection(s) == Deletes(s, SectionDelete(s))

DeleteFoodItem(i) == Deletes(i, ItemDelete(i))

(***************************************************************************)
(* The mirrors of PrismaService                                            *)
(***************************************************************************)

\* What a mirror reads before it writes.  It gives up when the row of a "fresh", or the
\* section of an item, is not there.
MirrorResolve(m) ==
  /\ m \in BagToSet(mirrors)
  /\ ~ m.resolved
  /\ LET v == IF m.op = "fresh" THEN rows[m.of] ELSE m.value
         gone == \/ m.op = "fresh" /\ rows[m.of] = Absent
                 \/ ~ ParentThere(m.of)
         op == IF m.op = "fresh" THEN "set" ELSE m.op
     IN mirrors' = (mirrors (-) SetToBag({ m }))
          (+) SetToBag(IF gone THEN {} ELSE { Mirror(op, m.of, v, TRUE) })
  /\ UNCHANGED << rows, docs, given, inbox, sync, job, report, history >>

MirrorWrite(m) ==
  /\ m \in BagToSet(mirrors)
  /\ m.resolved
  /\ mirrors' = mirrors (-) SetToBag({ m })
  /\ \/ m.op = "set" /\ PutDoc(m.of, m.value)
     \/ m.op = "delete" /\ RemoveDocs({ m.of })
  /\ UNCHANGED << rows, given, sync, job, report, history >>

\* The write fails; `.catch(() => {})` swallows it.
MirrorLost(m) ==
  /\ faults < scenario.faults
  /\ m \in BagToSet(mirrors)
  /\ m.resolved
  /\ mirrors' = mirrors (-) SetToBag({ m })
  /\ faults' = faults + 1
  /\ calm' = FALSE
  /\ UNCHANGED << rows, docs, given, inbox, sync, job, report, scenario, inputs, rushed, expected >>

(***************************************************************************)
(* The apps                                                                *)
(***************************************************************************)
AppSet(o, v) ==
  /\ docs[o] # v
  /\ o \in given => docs[o] # Absent
  /\ o \notin Restaurants => docs[Parent[o]] # Absent
  /\ Input("app", Only(o, v))
  /\ given' = given \cup { o }
  /\ PutDoc(o, v)
  /\ UNCHANGED << rows, mirrors, sync, job, report >>

\* Firestore leaves the items below a section it removes.
AppRemove(o) ==
  /\ o \notin Restaurants
  /\ docs[o] # Absent
  /\ Input("app", [ x \in Cascade(o) |-> Absent ])
  /\ RemoveDocs({ o })
  /\ UNCHANGED << rows, given, mirrors, sync, job, report >>

(***************************************************************************)
(* Documents into rows                                                     *)
(***************************************************************************)

\* What syncRestaurant, syncMenuSection and syncFoodItem have read when they write, unless
\* the row above is not there, or, for a section or an item, nothing differs: that stops a
\* mirror from coming back for ever.
Reading(o, v) == [ pc |-> "write", of |-> o, value |-> v, existing |-> rows[o] # Absent ]

SyncRestaurant(r, v) == Reading(r, v)

SyncMenuSection(s, v) == IF ~ ParentThere(s) \/ rows[s] = v THEN IdleSync ELSE Reading(s, v)

\* Mutant: no comparison.
SyncFoodItemAlways(i, v) == IF ~ ParentThere(i) THEN IdleSync ELSE Reading(i, v)

SyncFoodItem(i, v) == IF ~ ParentThere(i) \/ rows[i] = v THEN IdleSync ELSE Reading(i, v)

SyncDoc(o, v) ==
  CASE o \in Restaurants -> SyncRestaurant(o, v)
    [] o \in Sections -> SyncMenuSection(o, v)
    [] o \in Items -> SyncFoodItem(o, v)

\* The end of these three.  The update of a row that is gone, and the creation of one
\* that is there or has nothing above it, throw: the error is logged.
SyncWrite(k) ==
  LET c == sync[k]
      written == IF c.existing THEN rows[c.of] # Absent ELSE rows[c.of] = Absent /\ ParentThere(c.of)
  IN /\ k # "admin"
     /\ c.pc = "write"
     /\ sync' = [ sync EXCEPT ![k] = IdleSync ]
     /\ rows' = IF written THEN [ rows EXCEPT ![c.of] = c.value ] ELSE rows
     \* A listener runs with the mirror switched off, a job does not.
     /\ Schedule(IF written /\ k = "job" THEN { MirrorOf(c.of, c.value) } ELSE {})
     /\ UNCHANGED << docs, given, inbox, job, report, history >>

\* A listener is called with the next version of a document.  Bound: one call at a time
\* for each document.
Called(o) ==
  /\ inbox[o] # << >>
  /\ sync[o].pc = "idle"
  /\ inbox' = [ inbox EXCEPT ![o] = Tail(@) ]
  /\ UNCHANGED << docs, given, mirrors, job, report, history >>

\* The document was added or modified.
Changed(o) ==
  /\ Called(o)
  /\ Head(inbox[o]) # Absent
  /\ sync' = [ sync EXCEPT ![o] = SyncDoc(o, Head(inbox[o])) ]
  /\ UNCHANGED rows

\* A removed section takes its row along, and the rows of its items.
SectionRemoved(s) ==
  /\ Called(s)
  /\ Head(inbox[s]) = Absent
  /\ rows' = Without(rows, Cascade(s))
  /\ sync' = [ sync EXCEPT ![s] = [ IdleSync EXCEPT !.pc = "clean", !.of = s ] ]

\* Mutant: a removed item is left to the next reconciliation.
ItemRemovedLater(i) ==
  /\ Called(i)
  /\ Head(inbox[i]) = Absent
  /\ UNCHANGED << rows, sync >>

ItemRemoved(i) ==
  /\ Called(i)
  /\ Head(inbox[i]) = Absent
  /\ rows' = Without(rows, { i })
  /\ UNCHANGED sync

\* Mutant: the documents of the items stay.
LeaveItems(o) ==
  /\ sync[o].pc = "clean"
  /\ sync' = [ sync EXCEPT ![o] = IdleSync ]
  /\ UNCHANGED << rows, docs, inbox, given, mirrors, job, report, history >>

\* After the row of a removed section come the documents of its items.
CleanItems(o) ==
  /\ sync[o].pc = "clean"
  /\ RemoveDocs(ItemsOf(o))
  /\ sync' = [ sync EXCEPT ![o] = IdleSync ]
  /\ UNCHANGED << rows, given, mirrors, job, report, history >>

(***************************************************************************)
(* The scheduled jobs                                                      *)
(***************************************************************************)
LevelOf(o) == IF o \in Restaurants THEN 1 ELSE IF o \in Sections THEN 2 ELSE 3

\* Mutant: also what has no document.
PullsOfAll(objects) == { [ do |-> "pull", of |-> o, value |-> docs[o] ] : o \in objects }

Pulls(objects) == { [ do |-> "pull", of |-> o, value |-> docs[o] ] : o \in { x \in objects : docs[x] # Absent } }

\* The order within a job: pushes before pulls, restaurants before sections before items.
Before(t, u) == \/ t.do = "push" /\ u.do = "pull"
                \/ t.do = u.do /\ LevelOf(t.of) < LevelOf(u.of)

\* runPeriodicInitialSyncs at 3 and 15 h reads the documents of the restaurants first,
\* verifyAndReconcileDatabases at 4 h all of them.  Bounds: one job at a time, the two in
\* turn; they are an hour apart at least, and all but scenario.rushed of them find
\* everything settled.
InitialSyncRestaurants == [ job EXCEPT !.pc = "restaurants", !.todo = Pulls(Restaurants) ]

InitialSyncMenu == [ job EXCEPT !.pc = "sections", !.todo = Pulls(Sections) ]

JobStart ==
  /\ "jobs" \in scenario.operations
  /\ job.pc = "idle"
  /\ Quiet \/ rushed < scenario.rushed
  /\ rushed' = rushed + (IF Quiet THEN 0 ELSE 1)
  /\ job' = IF job.next = "pull" THEN InitialSyncRestaurants ELSE [ job EXCEPT !.pc = "rows", !.docs = docs ]
  /\ calm' = (calm /\ Quiet)
  /\ UNCHANGED << rows, docs, given, mirrors, inbox, sync, report, scenario, inputs, faults, expected >>

\* Mutant: a missing document is not written.
PushesOverDocs(snapshot) ==
  { [ do |-> "push", of |-> o, value |-> rows[o] ] :
      o \in { x \in Objects : snapshot[x] # Absent /\ rows[x] \notin { Absent, snapshot[x] } } }

\* The reconciliation reads the rows and compares: a row goes over a document that is
\* missing or differs.  It reads the documents of the three kinds one after the other, and
\* then the rows; here each side is read at once.
Pushes(snapshot) ==
  { [ do |-> "push", of |-> o, value |-> rows[o] ] : o \in { x \in Objects : rows[x] \notin { Absent, snapshot[x] } } }

\* The reverse check: a section's or an item's document without a row is pulled.
Missing(snapshot) ==
  { [ do |-> "pull", of |-> o, value |-> snapshot[o] ] :
      o \in { x \in Sections \cup Items : rows[x] = Absent /\ snapshot[x] # Absent } }

JobRows ==
  /\ job.pc = "rows"
  /\ job' = [ job EXCEPT !.pc = "reconciling", !.docs = Nothing, !.todo = Pushes(job.docs) \cup Missing(job.docs) ]
  /\ UNCHANGED << rows, docs, given, mirrors, inbox, sync, report, history >>

\* writeRestaurantToFirestore and writeSectionToFirestore write, writeItemToFirestore only
\* below a section that has a row.
WriteToFirestore(o, v) ==
  IF o \in Items /\ ~ ParentThere(o) THEN UNCHANGED << docs, inbox >> ELSE PutDoc(o, v)

\* One document or row after the other.
JobNext(t) ==
  /\ sync["job"].pc = "idle"
  /\ t \in job.todo
  /\ ~ \E u \in job.todo : Before(u, t)
  /\ job' = [ job EXCEPT !.todo = @ \ { t } ]
  /\ \/ /\ t.do = "pull"
        /\ sync' = [ sync EXCEPT !["job"] = SyncDoc(t.of, t.value) ]
        /\ UNCHANGED << docs, inbox >>
     \/ /\ t.do = "push"
        /\ WriteToFirestore(t.of, t.value)
        /\ UNCHANGED sync
  /\ UNCHANGED << rows, given, mirrors, report, history >>

\* The next kind of document, or the end.
JobAdvance ==
  /\ job.pc \notin { "idle", "rows" }
  /\ job.todo = {}
  /\ sync["job"].pc = "idle"
  /\ job' = CASE job.pc = "restaurants" -> InitialSyncMenu
              [] job.pc = "sections" -> [ job EXCEPT !.pc = "items", !.todo = Pulls(Items) ]
              [] job.pc = "items" -> IdleJob("reconcile")
              [] job.pc = "reconciling" -> IdleJob("pull")
  /\ UNCHANGED << rows, docs, given, mirrors, inbox, sync, report, history >>

(***************************************************************************)
(* An administrator compares, and settles what differed when he did        *)
(***************************************************************************)
Issue(o) ==
  CASE rows[o] # Absent /\ docs[o] = Absent -> "missing_in_firestore"
    [] rows[o] = Absent /\ docs[o] # Absent -> "missing_in_postgres"
    [] rows[o] # docs[o] -> "mismatch"
    [] OTHER -> "none"

CompareVendorSync ==
  /\ "admin" \in scenario.operations
  /\ report' = [ o \in Objects |-> IF o \in Restaurants THEN "none" ELSE Issue(o) ]
  /\ UNCHANGED << rows, docs, given, mirrors, inbox, sync, job, history >>

\* resolveVendorSync.  It knows no action for a section that differs, though the
\* comparison offers two.
Resolve(o, issues, intended) ==
  /\ report[o] \in issues
  /\ Input("admin", intended)
  /\ report' = [ x \in Objects |-> "none" ]
  /\ UNCHANGED << given, job >>

\* push_section_to_firestore, push_item_to_firestore and sync_item_to_firestore.
AdminPush(o) ==
  /\ Resolve(o, { "missing_in_firestore" } \cup (IF o \in Items THEN { "mismatch" } ELSE {}), Only(o, rows[o]))
  /\ rows[o] # Absent
  /\ mirrors' = mirrors (+) SetToBag({ Mirror("set", o, rows[o], TRUE) })
  /\ UNCHANGED << rows, docs, inbox, sync >>

\* pull_section_to_postgres, up to its last statement.
PullSection(s) ==
  /\ Resolve(s, { "missing_in_postgres" }, Only(s, docs[s]))
  /\ sync["admin"].pc = "idle"
  /\ docs[s] # Absent
  /\ sync' = [ sync EXCEPT !["admin"] = [ pc |-> "write", of |-> s, value |-> docs[s], existing |-> FALSE ] ]
  /\ UNCHANGED << rows, docs, mirrors, inbox >>

\* pull_item_to_postgres and sync_item_to_postgres likewise; the item brings its section,
\* with the content the document has.
PullItem(i) ==
  /\ Resolve(i, { "missing_in_postgres", "mismatch" }, Only(i, docs[i]))
  /\ sync["admin"].pc = "idle"
  /\ docs[i] # Absent
  /\ docs[Parent[i]] # Absent
  /\ rows' = IF ParentThere(i) THEN rows ELSE [ rows EXCEPT ![Parent[i]] = docs[Parent[i]] ]
  /\ sync' = [ sync EXCEPT !["admin"] = [ pc |-> "write", of |-> i, value |-> docs[i], existing |-> FALSE ] ]
  /\ UNCHANGED << docs, mirrors, inbox >>

\* The last statement: a section is created, an item upserted.
AdminWrite ==
  LET c == sync["admin"]
  IN /\ c.pc = "write"
     /\ sync' = [ sync EXCEPT !["admin"] = IdleSync ]
     /\ rows' = IF ParentThere(c.of) /\ (c.of \in Items \/ rows[c.of] = Absent)
               THEN [ rows EXCEPT ![c.of] = c.value ] ELSE rows
     /\ UNCHANGED << docs, given, mirrors, inbox, job, report, history >>

\* delete_section_from_firestore, which removes the items first, and
\* delete_item_from_firestore.
AdminRemove(o) ==
  /\ Resolve(o, { "missing_in_postgres" }, [ x \in Cascade(o) |-> Absent ])
  /\ RemoveDocs(Cascade(o))
  /\ UNCHANGED << rows, mirrors, sync >>

\* The server stops and starts: what was on its way is gone, and the listeners skip the
\* first snapshot, with the changes in it.
Restart ==
  /\ faults < scenario.faults
  /\ ~ Quiet
  /\ mirrors' = EmptyBag
  /\ inbox' = [ o \in Objects |-> << >> ]
  /\ sync' = [ k \in Slots |-> IdleSync ]
  /\ job' = IdleJob(job.next)
  /\ faults' = faults + 1
  /\ calm' = FALSE
  /\ UNCHANGED << rows, docs, given, report, scenario, inputs, rushed, expected >>

Calls ==
  \/ \E r \in Restaurants, v \in Contents : CreateRestaurantRow(r, v) \/ UpdateRestaurant(r, v)
  \/ \E s \in Sections, v \in Contents : CreateSection(s, v) \/ UpdateSection(s, v)
  \/ \E i \in Items, v \in Contents :
       CreateFoodItem(i, v) \/ CreateFoodItemsBulk(i, v) \/ UpdateFoodItem(i, v) \/ ToggleAvailability(i, v)
  \/ \E s \in Sections : DeleteSection(s)
  \/ \E i \in Items : DeleteFoodItem(i)

AppWrites == \E o \in Objects : AppRemove(o) \/ \E v \in Contents : AppSet(o, v)

Admin ==
  \/ CompareVendorSync
  \/ \E o \in Sections \cup Items : AdminPush(o) \/ AdminRemove(o)
  \/ \E s \in Sections : PullSection(s)
  \/ \E i \in Items : PullItem(i)

MirrorStep(o) == \E m \in BagToSet(mirrors) : m.of = o /\ (MirrorResolve(m) \/ MirrorWrite(m))

Listener(o) ==
  \/ Changed(o) \/ SyncWrite(o)
  \/ o \in Sections /\ (SectionRemoved(o) \/ CleanItems(o))
  \/ o \in Items /\ ItemRemoved(o)

JobStep == JobStart \/ JobRows \/ (\E t \in job.todo : JobNext(t)) \/ JobAdvance \/ SyncWrite("job")

MenuNext ==
  \/ Calls \/ AppWrites \/ Admin
  \/ \E o \in Objects : MirrorStep(o) \/ Listener(o)
  \/ \E m \in BagToSet(mirrors) : MirrorLost(m)
  \/ JobStep \/ AdminWrite \/ Restart

\* The event loop runs what was scheduled, Firestore calls its listeners, the jobs come
\* again every day.  Calls, app writes, administrators and faults need not come.
MenuSpec ==
  /\ MenuInit /\ [][MenuNext]_menuVars
  /\ \A o \in Objects : WF_menuVars(MirrorStep(o)) /\ WF_menuVars(Listener(o))
  /\ WF_menuVars(JobStep) /\ WF_menuVars(AdminWrite)

(***************************************************************************)
(* Properties                                                              *)
(***************************************************************************)
\* The document of an item whose section has no row is out of the menu.
Agrees(o) == rows[o] = docs[o] \/ (rows[o] = Absent /\ ~ ParentThere(o))

\* What may be without a row though it has a document, because it came before the row above
\* it and its listener dropped it: an item, a section of a restaurant that is new.
MayLackRow(o) == o \in Items \/ (o \in Sections /\ Parent[o] \notin scenario.existing)

\* However calls, app writes, mirrors, listeners and jobs interleave: when everything on
\* its way has arrived and none was lost, no row differs from its document, and only what
\* came too early lacks its row.
\* An administrator's pull writes what it read, unmirrored, and can break this.
Converged ==
  Quiet /\ faults = 0 /\ "admin" \notin scenario.operations =>
    \A o \in Objects : rows[o] = docs[o] \/ (MayLackRow(o) /\ rows[o] = Absent)

\* When each call, each write of an app and each run of a job comes after everything
\* before it has settled, the last call or app write stands on both sides, in the fields
\* that both carry: no echo, job or clean-up undoes it, and nothing is left below a
\* removed section.
LastInputWins ==
  Quiet /\ calm => \A o \in Objects : rows[o] = expected[o] /\ docs[o] = expected[o]

\* Lost mirrors, restarts and overlapping calls notwithstanding, the jobs bring rows and
\* documents to agree, and no later run disturbs it.
EventuallyAgree == "jobs" \in scenario.operations => <>[](\A o \in Objects : Agrees(o))

\* A mirror does not come back through the listener for ever.
EventuallyMenuQuiet == <>[](\A m \in BagToSet(mirrors) : m.of \in Restaurants)

\* What the two sides say of each object is a menu, and in quiet the same one.
MenuInv == MenuTypeOK /\ Converged

\* The two sides agree in the end, and stop answering each other.
EventuallySettled == EventuallyAgree /\ EventuallyMenuQuiet
=============================================================================
