--------------------------- MODULE AccountsProofs ---------------------------
(***************************************************************************)
(* Theorems about Accounts, for any number of sessions and any scenarios.  *)
(***************************************************************************)
EXTENDS Accounts, DataTheorems, TLAPS

(***************************************************************************)
(* Types                                                                   *)
(***************************************************************************)

DataType ==
  /\ row \in Rows
  /\ doc \in [ Ids -> Docs ]
  /\ IsABag(mirrors) /\ BagToSet(mirrors) \subseteq Mirrors
  /\ inbox \in [ Ids -> Seq(Docs) ]
  /\ callback \in [ Ids -> Callbacks ]

TokenType ==
  /\ supabase \in Roles \cup { "none" }
  /\ auth \in BOOLEAN
  /\ restaurant \in Ids \cup { "none", "unset" }
  /\ access \subseteq Roles
  /\ refresh \subseteq Roles

\* A sign-in has a Supabase account before it looks for the row, and an id before it links.
SessionType(x) ==
  /\ x \in SessionStates
  /\ x.pc \in { "find", "create" } => x.kind \in { "login", "social", "oauth" } /\ supabase # "none"
  /\ x.pc \in { "linkRow", "doc" } => x.uid \in Ids

SessionsType == session \in [ Sessions -> SessionStates ] /\ \A s \in Sessions : SessionType(session[s])

AdminStates == [ pc : { "idle", "row", "doc" }, link : Ids \cup { "none" }, status : Statuses ]

OthersType == admin \in AdminStates /\ job \in JobStates /\ (job.pc = "write" => job.of \in Ids)

Expectations == [ role : Roles, status : Statuses, link : Ids \cup { "none" } ]

HistoryType ==
  /\ scenario \in Scenarios
  /\ inputs \in 0 .. scenario.inputs
  /\ faults \in 0 .. scenario.faults
  /\ rushed \in 0 .. scenario.rushed
  /\ expected \in Expectations
  /\ sure \subseteq Fields \cup { "agree" }

TypeInv == DataType /\ TokenType /\ SessionsType /\ OthersType /\ HistoryType

LEMMA TypesOK == ASSUME TypeInv PROVE TypeOK
BY DEF TypeInv, TypeOK, DataType, TokenType, SessionsType, OthersType, AdminStates, HistoryType, Expectations

LEMMA ScenarioType ==
  ASSUME HistoryType
  PROVE  /\ scenario.inputs \in Nat /\ scenario.faults \in Nat /\ scenario.rushed \in Nat
         /\ scenario.role \in Roles /\ scenario.restaurant \in { "none", "unset", "shop" }
BY AccountsAssumption DEF HistoryType

\* Nothing makes row and document agree for sure again, once that was in doubt.
NoSurer == "agree" \in sure' => "agree" \in sure

LEMMA NoNewsKeeps == ASSUME HistoryType, NoNews PROVE HistoryType' /\ NoSurer
BY DEF HistoryType, NoNews, NoSurer

LEMMA CertainKeeps == ASSUME HistoryType, NEW fields, Certain(fields) PROVE HistoryType' /\ NoSurer
BY DEF HistoryType, Certain, NoSurer

LEMMA OvertakenKeeps == ASSUME HistoryType, CertainButOvertaken PROVE HistoryType' /\ NoSurer
BY CertainKeeps DEF CertainButOvertaken

LEMMA InputKeeps ==
  ASSUME HistoryType, NEW values \in Expectations, NEW fields, Input(values, fields)
  PROVE  HistoryType' /\ NoSurer
<1>1. scenario.inputs \in Nat
  BY ScenarioType
<1>2. /\ inputs < scenario.inputs /\ inputs' = inputs + 1 /\ expected' = values
      /\ sure' = sure \cap (fields \cup { "agree" }) /\ UNCHANGED << scenario, faults, rushed >>
  BY DEF Input
<1> QED
  BY <1>1, <1>2 DEF HistoryType, NoSurer

LEMMA FaultKeeps == ASSUME HistoryType, NEW lost, Fault(lost) PROVE HistoryType' /\ NoSurer /\ faults' # 0
<1>1. scenario.faults \in Nat
  BY ScenarioType
<1>2. /\ faults < scenario.faults /\ faults' = faults + 1 /\ sure' \subseteq sure
      /\ UNCHANGED << scenario, inputs, rushed, expected >>
  BY DEF Fault
<1> QED
  BY <1>1, <1>2 DEF HistoryType, NoSurer

LEMMA GoKeeps ==
  ASSUME SessionsType, NEW s \in Sessions, NEW x, Go(s, x), SessionType(x)', supabase # "none" => supabase' # "none"
  PROVE  SessionsType'
<1>1. /\ session' \in [ Sessions -> SessionStates ] /\ session'[s] = x
      /\ \A t \in Sessions : t # s => session'[t] = session[t]
  BY DEF Go, SessionsType, SessionType
<1>2. ASSUME NEW t \in Sessions PROVE SessionType(session[t])'
  <2>1. CASE t = s
    BY <2>1, <1>1
  <2>2. CASE t # s
    <3>1. SessionType(session[t]) /\ session'[t] = session[t]
      BY <2>2, <1>1 DEF SessionsType
    <3> QED
      BY <3>1 DEF SessionType
  <2> QED
    BY <2>1, <2>2
<1> QED
  BY <1>1, <1>2 DEF SessionsType

LEMMA SessionsStay ==
  ASSUME SessionsType, session' = session, supabase # "none" => supabase' # "none"
  PROVE  SessionsType'
BY DEF SessionsType, SessionType

\* A call that goes on to a step where it looks at nothing but its row.
LEMMA StepKeeps ==
  ASSUME SessionsType, NEW s \in Sessions, NEW pc, Step(s, pc), supabase # "none" => supabase' # "none",
         \/ pc \in { "tokens", "password", "resolve", "check", "update" }
         \/ pc = "doc" /\ session[s].pc = "linkRow"
  PROVE  SessionsType'
<1>1. session'= [ session EXCEPT ![s] = [ session[s] EXCEPT !.pc = pc ] ]
  BY DEF Step
<1>2. PICK x : x = [ session[s] EXCEPT !.pc = pc ]
  OBVIOUS
<1>3. session[s] \in SessionStates /\ (session[s].pc = "linkRow" => session[s].uid \in Ids)
  BY DEF SessionsType, SessionType
<1>4. x \in SessionStates /\ x.pc = pc /\ x.uid = session[s].uid
  BY <1>2, <1>3 DEF SessionStates
<1>5. SessionType(x)'
  BY <1>3, <1>4 DEF SessionType
<1>6. Go(s, x)
  BY <1>1, <1>2 DEF Go
<1> QED
  BY <1>5, <1>6, GoKeeps

LEMMA FinishKeeps ==
  ASSUME SessionsType, NEW s \in Sessions, Finish(s), supabase # "none" => supabase' # "none"
  PROVE  SessionsType'
<1>1. SessionType(IdleSession)'
  BY DEF SessionType, IdleSession, SessionStates, NoRow, Rows, Roles, Statuses, Ids
<1> QED
  BY <1>1, GoKeeps DEF Finish

LEMMA BeginKeeps ==
  ASSUME SessionsType, NEW s \in Sessions, NEW pc, NEW kind, NEW user \in Rows, Begin(s, pc, kind, user),
         supabase # "none" => supabase' # "none",
         \/ pc = "find" /\ kind \in { "login", "social", "oauth" } /\ supabase' # "none"
         \/ /\ pc \in { "registerCreate", "check", "resolve", "password", "skeleton" }
            /\ kind \in { "register", "refresh", "profile", "password" }
  PROVE  SessionsType'
<1> DEFINE x == [ pc |-> pc, kind |-> kind, user |-> user, uid |-> "none" ]
<1>1. SessionType(x)'
  BY DEF SessionType, SessionStates, Ids
<1>2. Go(s, x)
  BY DEF Begin
<1> HIDE DEF x
<1> QED
  BY <1>1, <1>2, GoKeeps

(***************************************************************************)
(* What a step does to row, documents and callbacks                        *)
(***************************************************************************)

\* The row is written and a mirror is on its way.
RowStep ==
  \E r \in Rows : Write(r) /\ (row.there => r.there) /\ UNCHANGED << documents, callback >>

\* A document is written and the listener will be called.
DocStep ==
  \E d \in Ids, v \in Docs :
    PutDoc(d, v) /\ (v.there \/ d = "auth") /\ UNCHANGED << account, callback >>

SameData == UNCHANGED << account, documents, callback >>

Plain == RowStep \/ DocStep \/ SameData

LEMMA MirrorType == ASSUME NEW r \in Rows PROVE MirrorOf(r) \in Mirrors
BY DEF MirrorOf, Mirrors, Rows, Ids

LEMMA WriteType ==
  ASSUME DataType, NEW r, Write(r), r \in Rows
  PROVE  row' \in Rows /\ IsABag(mirrors') /\ BagToSet(mirrors') \subseteq Mirrors /\ mirrors' # EmptyBag
<1>1. /\ IsABag(mirrors) /\ BagToSet(mirrors) \subseteq Mirrors
      /\ row' = r /\ mirrors' = mirrors (+) SetToBag({ MirrorOf(r) })
  BY DEF DataType, Write
<1>2. IsABag(mirrors') /\ BagToSet(mirrors') = BagToSet(mirrors) \cup { MirrorOf(r) }
  BY <1>1, BagPlus
<1>3. mirrors' # EmptyBag
  BY <1>2, BagNone
<1> QED
  BY <1>1, <1>2, <1>3, MirrorType

LEMMA PutDocType ==
  ASSUME DataType, NEW d \in Ids, NEW v \in Docs, PutDoc(d, v)
  PROVE  /\ doc' \in [ Ids -> Docs ] /\ doc'[d] = v /\ \A e \in Ids : e # d => doc'[e] = doc[e]
         /\ inbox' \in [ Ids -> Seq(Docs) ] /\ inbox'[d] = Append(inbox[d], v)
         /\ \A e \in Ids : e # d => inbox'[e] = inbox[e]
<1>1. inbox[d] \in Seq(Docs)
  BY DEF DataType
<1>2. Append(inbox[d], v) \in Seq(Docs)
  BY <1>1
<1> QED
  BY <1>2 DEF DataType, PutDoc

LEMMA PlainKeeps == ASSUME DataType, Plain PROVE DataType'
<1>1. CASE RowStep
  <2>1. PICK r \in Rows : Write(r) /\ (row.there => r.there) /\ UNCHANGED << documents, callback >>
    BY <1>1 DEF RowStep
  <2> QED
    BY <2>1, WriteType DEF DataType, documents
<1>2. CASE DocStep
  <2>1. PICK d \in Ids, v \in Docs :
          PutDoc(d, v) /\ (v.there \/ d = "auth") /\ UNCHANGED << account, callback >>
    BY <1>2 DEF DocStep
  <2> QED
    BY <2>1, PutDocType DEF DataType, account
<1>3. CASE SameData
  BY <1>3 DEF SameData, DataType, account, documents
<1> QED
  BY <1>1, <1>2, <1>3 DEF Plain

LEMMA TokensStay == ASSUME TokenType, UNCHANGED << tokens, external >> PROVE TokenType'
BY DEF TokenType, tokens, external

LEMMA OthersStay == ASSUME OthersType, UNCHANGED << admin, job >> PROVE OthersType'
BY DEF OthersType

\* What every action but those of the mirrors, of the listener, of the job's bans and of a
\* restart keeps.
Keeps == TypeInv' /\ NoSurer /\ Plain

LEMMA Together ==
  ASSUME TypeInv, Plain, NoSurer, TokenType', SessionsType', OthersType', HistoryType'
  PROVE  Keeps
BY PlainKeeps DEF Keeps, TypeInv

LEMMA NewRowType ==
  ASSUME NEW role \in Roles, NEW status \in Statuses, NEW link \in Ids \cup { "none" }, NEW linked \in BOOLEAN
  PROVE  NewRow(role, status, link, linked) \in Rows /\ NewRow(role, status, link, linked).there
BY DEF NewRow, Rows

LEMMA RowKept ==
  ASSUME DataType, NEW r \in Rows, Write(r), row.there => r.there, UNCHANGED << documents, callback >>
  PROVE  Plain
BY DEF Plain, RowStep

LEMMA DocKept ==
  ASSUME DataType, NEW d \in Ids, NEW v \in Docs, PutDoc(d, v), v.there \/ d = "auth",
         UNCHANGED << account, callback >>
  PROVE  Plain
BY DEF Plain, DocStep

LEMMA CreateRowKeeps ==
  ASSUME TypeInv, NEW s \in Sessions, NEW r \in Rows,
         NEW next \in { "tokens", "registerLink", "check", "password" },
         CreateRow(s, r, next), UNCHANGED << documents, callback, supabase >>
  PROVE  SessionsType' /\ HistoryType' /\ NoSurer /\ Plain
<1>0. DataType /\ SessionsType /\ HistoryType /\ session[s] \in SessionStates
  BY DEF TypeInv, SessionsType
<1>1. CASE row.there
  <2>1. Finish(s) /\ UNCHANGED account /\ NoNews
    BY <1>1 DEF CreateRow
  <2>2. SessionsType'
    BY <1>0, <2>1, FinishKeeps
  <2>3. HistoryType' /\ NoSurer
    BY <1>0, <2>1, NoNewsKeeps
  <2>4. Plain
    BY <2>1 DEF Plain, SameData
  <2> QED
    BY <2>2, <2>3, <2>4
<1>2. CASE ~row.there
  <2>1. /\ Write(r)
        /\ Go(s, [ session[s] EXCEPT !.pc = next, !.user = r ])
        /\ expected' = [ role |-> r.role, status |-> r.status, link |-> MirrorOf(r).id ]
        /\ sure' \subseteq sure
        /\ UNCHANGED << scenario, inputs, faults, rushed >>
    BY <1>2 DEF CreateRow
  <2>2. PICK x : x = [ session[s] EXCEPT !.pc = next, !.user = r ]
    OBVIOUS
  <2>3. x \in SessionStates /\ x.pc = next
    BY <1>0, <2>2 DEF SessionStates
  <2>4. SessionType(x)'
    BY <2>3 DEF SessionType
  <2>5. SessionsType'
    <3>1. Go(s, x)
      BY <2>1, <2>2 DEF Go
    <3> QED
      BY <1>0, <2>4, <3>1, GoKeeps
  <2>6. expected' \in Expectations
    BY <2>1, MirrorType DEF Expectations, Mirrors, Rows
  <2>7. HistoryType' /\ NoSurer
    BY <1>0, <2>1, <2>6 DEF HistoryType, NoSurer
  <2>8. Plain
    BY <1>0, <1>2, <2>1, RowKept
  <2> QED
    BY <2>5, <2>7, <2>8
<1> QED
  BY <1>1, <1>2

(***************************************************************************)
(* The sessions                                                            *)
(***************************************************************************)

LEMMA EmailRegisterKeeps == ASSUME TypeInv, NEW s \in Sessions, EmailRegister(s) PROVE Keeps
<1>0. TokenType /\ SessionsType /\ OthersType /\ HistoryType
  BY DEF TypeInv
<1>1. PICK role \in Roles :
        supabase' = role /\ Begin(s, "registerCreate", "register", NewRow(role, "ACTIVE", "none", TRUE))
  BY DEF EmailRegister
<1>2. UNCHANGED << account, documents, tokens, auth, restaurant, callback, admin, job >> /\ NoNews
  BY DEF EmailRegister
<1>3. supabase' \in Roles /\ supabase' # "none"
  BY <1>1 DEF Roles
<1>4. SessionsType'
  <2>1. NewRow(role, "ACTIVE", "none", TRUE) \in Rows
    BY NewRowType DEF Statuses
  <2> QED
    BY <1>0, <1>1, <1>3, <2>1, BeginKeeps
<1>5. TokenType' /\ OthersType'
  BY <1>0, <1>2, <1>3, OthersStay DEF TokenType, tokens
<1>6. Plain
  BY <1>2 DEF Plain, SameData
<1> QED
  BY <1>0, <1>2, <1>4, <1>5, <1>6, NoNewsKeeps, Together

LEMMA RegisterCreateKeeps == ASSUME TypeInv, NEW s \in Sessions, RegisterCreate(s) PROVE Keeps
<1>0. TokenType /\ OthersType /\ session[s].user \in Rows
  BY DEF TypeInv, SessionsType, SessionStates
<1>1. UNCHANGED << documents, tokens, external, callback, admin, job >>
  BY DEF RegisterCreate
<1>2. PICK next \in { "tokens", "registerLink", "check", "password" } : CreateRow(s, session[s].user, next)
  BY DEF RegisterCreate
<1>3. SessionsType' /\ HistoryType' /\ NoSurer /\ Plain
  BY <1>0, <1>1, <1>2, CreateRowKeeps DEF external
<1> QED
  BY <1>0, <1>1, <1>3, TokensStay, OthersStay, Together

\* A new link.
LEMMA LinkedType ==
  ASSUME DataType, NEW d \in Ids
  PROVE  [ row EXCEPT !.link = d ] \in Rows /\ [ row EXCEPT !.link = d ].there = row.there
BY DEF DataType, Rows

LEMMA RegisterLinkKeeps == ASSUME TypeInv, NEW s \in Sessions, RegisterLink(s) PROVE Keeps
<1>0. DataType /\ TokenType /\ SessionsType /\ OthersType /\ HistoryType
  BY DEF TypeInv
<1>1. Step(s, "tokens") /\ UNCHANGED << documents, tokens, supabase, restaurant, callback, admin, job >>
  BY DEF RegisterLink
<1>2. SessionsType'
  BY <1>0, <1>1, StepKeeps
<1>3. OthersType'
  BY <1>0, <1>1, OthersStay
<1>4. CASE auth' = TRUE /\ Write([ row EXCEPT !.link = "auth" ]) /\ Certain(((Fields \cup { "agree" }) \ { "link" }) \ Overtaken)
  <2>1. HistoryType' /\ NoSurer
    BY <1>0, <1>4, CertainKeeps
  <2>2. TokenType'
    BY <1>0, <1>1, <1>4 DEF TokenType, tokens
  <2>3. Plain
    BY <1>0, <1>1, <1>4, LinkedType, RowKept DEF Ids
  <2> QED
    BY <1>2, <1>3, <2>1, <2>2, <2>3, Together
<1>5. CASE auth' \in { auth, TRUE } /\ UNCHANGED account /\ Fault({})
  <2>1. HistoryType' /\ NoSurer
    BY <1>0, <1>5, FaultKeeps
  <2>2. TokenType'
    BY <1>0, <1>1, <1>5 DEF TokenType, tokens
  <2>3. Plain
    BY <1>1, <1>5 DEF Plain, SameData
  <2> QED
    BY <1>2, <1>3, <2>1, <2>2, <2>3, Together
<1> QED
  BY <1>4, <1>5 DEF RegisterLink

LEMMA NoRowType == NoRow \in Rows
BY DEF NoRow, Rows, Roles, Statuses

LEMMA EmailLoginKeeps == ASSUME TypeInv, NEW s \in Sessions, EmailLogin(s) PROVE Keeps
<1>0. DataType /\ TokenType /\ SessionsType /\ OthersType /\ HistoryType
  BY DEF TypeInv
<1>1. Begin(s, "find", "login", NoRow) /\ UNCHANGED << documents, tokens, callback, admin, job >>
  BY DEF EmailLogin
<1>2. OthersType'
  BY <1>0, <1>1, OthersStay
<1>3. CASE supabase # "none" /\ UNCHANGED << account, external >> /\ NoNews
  <2>1. HistoryType' /\ NoSurer
    BY <1>0, <1>3, NoNewsKeeps
  <2>2. TokenType'
    BY <1>0, <1>1, <1>3, TokensStay
  <2>3. Plain
    BY <1>1, <1>3 DEF Plain, SameData
  <2>4. SessionsType'
    BY <1>0, <1>1, <1>3, NoRowType, BeginKeeps DEF external
  <2> QED
    BY <1>2, <2>1, <2>2, <2>3, <2>4, Together
<1>4. CASE /\ supabase' = row.role /\ Write([ row EXCEPT !.supabase = TRUE ]) /\ CertainButOvertaken
           /\ UNCHANGED << auth, restaurant >>
  <2>1. HistoryType' /\ NoSurer
    BY <1>0, <1>4, OvertakenKeeps
  <2>2. supabase' \in Roles /\ supabase' # "none"
    BY <1>0, <1>4 DEF DataType, Rows, Roles
  <2>3. TokenType'
    BY <1>0, <1>1, <1>4, <2>2 DEF TokenType, tokens
  <2>4. Plain
    <3>1. [ row EXCEPT !.supabase = TRUE ] \in Rows /\ [ row EXCEPT !.supabase = TRUE ].there = row.there
      BY <1>0 DEF DataType, Rows
    <3> QED
      BY <1>0, <1>1, <1>4, <3>1, RowKept
  <2>5. SessionsType'
    BY <1>0, <1>1, <2>2, NoRowType, BeginKeeps
  <2> QED
    BY <1>2, <2>1, <2>3, <2>4, <2>5, Together
<1> QED
  BY <1>3, <1>4 DEF EmailLogin

LEMMA SignInKeeps ==
  ASSUME TypeInv, NEW s \in Sessions, SocialSignIn(s) \/ HandleOAuthCallback(s)
  PROVE  Keeps
<1>0. DataType /\ TokenType /\ SessionsType /\ OthersType /\ HistoryType
  BY DEF TypeInv
<1>1. PICK kind \in { "social", "oauth" } :
        /\ supabase' = IF supabase = "none" THEN "CUSTOMER" ELSE supabase
        /\ Begin(s, "find", kind, NoRow)
        /\ UNCHANGED << account, documents, tokens, auth, restaurant, callback, admin, job >>
        /\ NoNews
  BY DEF SocialSignIn, HandleOAuthCallback
<1>2. supabase' \in Roles /\ supabase' # "none"
  BY <1>0, <1>1 DEF TokenType, Roles
<1>3. SessionsType'
  BY <1>0, <1>1, <1>2, NoRowType, BeginKeeps
<1>4. TokenType' /\ OthersType'
  BY <1>0, <1>1, <1>2, OthersStay DEF TokenType, tokens
<1>5. Plain
  BY <1>1 DEF Plain, SameData
<1> QED
  BY <1>0, <1>1, <1>3, <1>4, <1>5, NoNewsKeeps, Together

LEMMA FindUserKeeps == ASSUME TypeInv, NEW s \in Sessions, FindUser(s) PROVE Keeps
<1>0. DataType /\ TokenType /\ SessionsType /\ OthersType /\ HistoryType /\ row \in Rows
  BY DEF TypeInv, DataType
<1>1. UNCHANGED << account, documents, tokens, external, callback, admin, job >> /\ NoNews
  BY DEF FindUser
<1>2. PICK pc \in { "create", "check", "update" } : Go(s, [ session[s] EXCEPT !.user = row, !.pc = pc ])
  BY DEF FindUser
<1>3. PICK x : x = [ session[s] EXCEPT !.user = row, !.pc = pc ]
  OBVIOUS
<1>4. /\ session[s] \in SessionStates
      /\ session[s].kind \in { "login", "social", "oauth" } /\ supabase # "none"
  BY <1>0 DEF SessionsType, SessionType, FindUser
<1>5. x \in SessionStates /\ x.pc = pc /\ x.kind = session[s].kind
  BY <1>0, <1>3, <1>4 DEF SessionStates
<1>6. supabase' # "none"
  BY <1>1, <1>4 DEF external
<1>7. SessionType(x)'
  BY <1>4, <1>5, <1>6 DEF SessionType
<1>8. SessionsType'
  <2>1. Go(s, x)
    BY <1>2, <1>3 DEF Go
  <2> QED
    BY <1>0, <1>6, <1>7, <2>1, GoKeeps
<1>9. Plain
  BY <1>1 DEF Plain, SameData
<1> QED
  BY <1>0, <1>1, <1>8, <1>9, NoNewsKeeps, TokensStay, OthersStay, Together

LEMMA CreateFoundKeeps == ASSUME TypeInv, NEW s \in Sessions, CreateFound(s) PROVE Keeps
<1>0. TokenType /\ SessionsType /\ OthersType /\ HistoryType
  BY DEF TypeInv
<1>1. UNCHANGED << documents, tokens, external, callback, admin, job >>
  BY DEF CreateFound
<1>2. session[s].kind \in { "login", "social", "oauth" } /\ supabase # "none"
  BY <1>0 DEF SessionsType, SessionType, CreateFound
<1>3. PICK role \in RolesAtSignIn(session[s].kind) :
        CreateRow(s, NewRow(role, "ACTIVE", "none", TRUE), AfterSignIn(session[s].kind))
  BY DEF CreateFound
<1>4. role \in Roles
  BY <1>0, <1>2, <1>3, ScenarioType DEF RolesAtSignIn, TokenType, Roles
<1>5. NewRow(role, "ACTIVE", "none", TRUE) \in Rows
  BY <1>4, NewRowType DEF Statuses
<1>6. AfterSignIn(session[s].kind) \in { "tokens", "registerLink", "check", "password" }
  BY DEF AfterSignIn
<1>7. SessionsType' /\ HistoryType' /\ NoSurer /\ Plain
  BY <1>1, <1>3, <1>5, <1>6, CreateRowKeeps DEF external
<1> QED
  BY <1>0, <1>1, <1>7, TokensStay, OthersStay, Together

LEMMA UpdateFoundKeeps == ASSUME TypeInv, NEW s \in Sessions, UpdateFound(s) PROVE Keeps
<1>0. DataType /\ TokenType /\ SessionsType /\ OthersType /\ HistoryType /\ row \in Rows
  BY DEF TypeInv, DataType
<1>1. PICK r : r = [ row EXCEPT !.supabase = TRUE ]
  OBVIOUS
<1>2. /\ Write(r) /\ Go(s, [ session[s] EXCEPT !.user = r, !.pc = AfterSignIn(session[s].kind) ])
      /\ CertainButOvertaken /\ UNCHANGED << documents, tokens, external, callback, admin, job >>
  BY <1>1 DEF UpdateFound
<1>3. r \in Rows /\ r.there = row.there
  BY <1>0, <1>1 DEF Rows
<1>4. PICK x : x = [ session[s] EXCEPT !.user = r, !.pc = AfterSignIn(session[s].kind) ]
  OBVIOUS
<1>5. session[s] \in SessionStates
  BY <1>0 DEF SessionsType
<1>6. x \in SessionStates /\ x.pc \in { "check", "tokens" }
  BY <1>3, <1>4, <1>5 DEF SessionStates, AfterSignIn
<1>7. SessionType(x)'
  BY <1>6 DEF SessionType
<1>8. SessionsType'
  <2>1. Go(s, x)
    BY <1>2, <1>4 DEF Go
  <2> QED
    BY <1>0, <1>2, <1>7, <2>1, GoKeeps DEF external
<1>9. Plain
  BY <1>0, <1>2, <1>3, RowKept
<1> QED
  BY <1>0, <1>2, <1>8, <1>9, OvertakenKeeps, TokensStay, OthersStay, Together

LEMMA BeginAgainKeeps ==
  ASSUME TypeInv, NEW s \in Sessions, RefreshToken(s) \/ GetCurrentUser(s) \/ FirebaseSyncPassword(s)
  PROVE  Keeps
<1>0. DataType /\ TokenType /\ SessionsType /\ OthersType /\ HistoryType /\ row \in Rows
  BY DEF TypeInv, DataType
<1>1. PICK pc \in { "check", "resolve", "password", "skeleton" }, kind \in { "refresh", "profile", "password" } :
        /\ Begin(s, pc, kind, row)
        /\ UNCHANGED << account, documents, tokens, external, callback, admin, job >> /\ NoNews
  BY DEF RefreshToken, GetCurrentUser, FirebaseSyncPassword
<1>2. SessionsType'
  BY <1>0, <1>1, BeginKeeps DEF external
<1>3. Plain
  BY <1>1 DEF Plain, SameData
<1> QED
  BY <1>0, <1>1, <1>2, <1>3, NoNewsKeeps, TokensStay, OthersStay, Together

LEMMA TokensKeep ==
  ASSUME TypeInv, NEW s \in Sessions, CheckBan(s) \/ IssueTokens(s)
  PROVE  Keeps
<1>0. TokenType /\ SessionsType /\ OthersType /\ HistoryType /\ session[s].user.role \in Roles
  BY DEF TypeInv, SessionsType, SessionStates, Rows
<1>1. /\ UNCHANGED tokens \/ GenerateTokens(session[s].user)
      /\ Finish(s) \/ Step(s, "resolve")
      /\ UNCHANGED << account, documents, external, callback, admin, job >> /\ NoNews
  BY DEF CheckBan, IssueTokens
<1>2. TokenType'
  <2>1. access' \subseteq Roles /\ refresh' \subseteq Roles
    BY <1>0, <1>1 DEF TokenType, GenerateTokens, tokens
  <2> QED
    BY <1>0, <1>1, <2>1 DEF TokenType, external
<1>3. SessionsType'
  BY <1>0, <1>1, FinishKeeps, StepKeeps DEF external
<1>4. Plain
  BY <1>1 DEF Plain, SameData
<1> QED
  BY <1>0, <1>1, <1>2, <1>3, <1>4, NoNewsKeeps, OthersStay, Together

LEMMA IdType == ASSUME TypeInv, NEW user \in Rows PROVE ResolvedId(user) \in Ids
BY DEF ResolvedId, OwnId, Rows, Ids

LEMMA ResolveIdKeeps == ASSUME TypeInv, NEW s \in Sessions, ResolveId(s) PROVE Keeps
<1>0. /\ TokenType /\ SessionsType /\ OthersType /\ HistoryType
      /\ session[s] \in SessionStates /\ session[s].user \in Rows
  BY DEF TypeInv, SessionsType, SessionStates
<1>1. PICK uid : uid = ResolvedId(session[s].user)
  OBVIOUS
<1>2. uid \in Ids
  BY <1>0, <1>1, IdType
<1>3. UNCHANGED << account, documents, tokens, supabase, auth, callback, admin, job >>
  BY DEF ResolveId
<1>4. OthersType' /\ Plain
  BY <1>0, <1>3, OthersStay DEF Plain, SameData
<1>5. restaurant' \in { restaurant, uid }
  BY <1>1 DEF ResolveId
<1>6. TokenType'
  BY <1>0, <1>2, <1>3, <1>5 DEF TokenType, tokens
<1>7. CASE session[s].user.role = "CUSTOMER"
  <2>1. Finish(s) /\ NoNews
    BY <1>7 DEF ResolveId
  <2> QED
    BY <1>0, <1>3, <1>4, <1>6, <2>1, FinishKeeps, NoNewsKeeps, Together
<1>8. CASE session[s].user.role # "CUSTOMER"
  <2>1. PICK pc \in { "linkRow", "doc" } : Go(s, [ session[s] EXCEPT !.uid = uid, !.pc = pc ])
    BY <1>1, <1>8 DEF ResolveId
  <2>2. /\ expected' = [ expected EXCEPT !.link = uid ] /\ sure' \subseteq sure
        /\ UNCHANGED << scenario, inputs, faults, rushed >>
    BY <1>1, <1>8 DEF ResolveId
  <2>3. PICK x : x = [ session[s] EXCEPT !.uid = uid, !.pc = pc ]
    OBVIOUS
  <2>4. x \in SessionStates /\ x.pc = pc /\ x.uid = uid
    BY <1>0, <1>2, <2>1, <2>3 DEF SessionStates
  <2>5. SessionType(x)'
    BY <1>2, <2>1, <2>4 DEF SessionType
  <2>6. SessionsType'
    <3>1. Go(s, x)
      BY <2>1, <2>3 DEF Go
    <3> QED
      BY <1>0, <1>3, <2>5, <3>1, GoKeeps
  <2>7. expected' \in Expectations
    BY <1>0, <1>2, <2>2 DEF HistoryType, Expectations
  <2>8. HistoryType' /\ NoSurer
    BY <1>0, <2>2, <2>7 DEF HistoryType, NoSurer
  <2> QED
    BY <1>4, <1>6, <2>6, <2>8, Together
<1> QED
  BY <1>7, <1>8

LEMMA LinkRowKeeps == ASSUME TypeInv, NEW s \in Sessions, LinkRow(s) PROVE Keeps
<1>0. DataType /\ TokenType /\ SessionsType /\ OthersType /\ HistoryType
  BY DEF TypeInv
<1>1. /\ session[s].pc = "linkRow" /\ Write([ row EXCEPT !.link = session[s].uid ]) /\ Step(s, "doc")
      /\ UNCHANGED << documents, tokens, external, callback, admin, job >>
  BY DEF LinkRow
<1>2. session[s].uid \in Ids
  BY <1>0, <1>1 DEF SessionsType, SessionType
<1>3. Plain
  BY <1>0, <1>1, <1>2, LinkedType, RowKept
<1>4. SessionsType'
  BY <1>0, <1>1, StepKeeps DEF external
<1>5. HistoryType' /\ NoSurer
  BY <1>0, CertainKeeps DEF LinkRow
<1> QED
  BY <1>0, <1>1, <1>3, <1>4, <1>5, TokensStay, OthersStay, Together

LEMMA DocType ==
  ASSUME NEW role \in Roles, NEW status \in Statuses \cup { "none" }
  PROVE  Doc(role, status) \in Docs /\ Doc(role, status).there
BY DEF Doc, Docs

LEMMA WriteUsersDocKeeps == ASSUME TypeInv, NEW s \in Sessions, WriteUsersDoc(s) PROVE Keeps
<1>0. /\ DataType /\ TokenType /\ SessionsType /\ OthersType /\ HistoryType
      /\ session[s].user.role \in Roles
  BY DEF TypeInv, SessionsType, SessionStates, Rows
<1>1. PICK d : d = session[s].uid
  OBVIOUS
<1>2. /\ session[s].pc = "doc" /\ PutDoc(d, Doc(session[s].user.role, doc[d].status)) /\ Finish(s)
      /\ UNCHANGED << account, tokens, external, callback, admin, job >>
  BY <1>1 DEF WriteUsersDoc
<1>3. d \in Ids
  BY <1>0, <1>1, <1>2 DEF SessionsType, SessionType
<1>4. doc[d].status \in Statuses \cup { "none" }
  BY <1>0, <1>3 DEF DataType, Docs
<1>5. Plain
  BY <1>0, <1>2, <1>3, <1>4, DocType, DocKept
<1>6. HistoryType' /\ NoSurer
  BY <1>0, NoNewsKeeps, CertainKeeps DEF WriteUsersDoc
<1>7. SessionsType'
  BY <1>0, <1>2, FinishKeeps DEF external
<1> QED
  BY <1>0, <1>2, <1>5, <1>6, <1>7, TokensStay, OthersStay, Together

LEMMA CreateSkeletonKeeps == ASSUME TypeInv, NEW s \in Sessions, CreateSkeleton(s) PROVE Keeps
<1>0. TokenType /\ OthersType
  BY DEF TypeInv
<1>1. /\ CreateRow(s, NewRow("VENDOR", "ACTIVE", "auth", FALSE), "password")
      /\ UNCHANGED << documents, tokens, external, callback, admin, job >>
  BY DEF CreateSkeleton
<1>2. NewRow("VENDOR", "ACTIVE", "auth", FALSE) \in Rows
  BY NewRowType DEF Roles, Statuses, Ids
<1>3. SessionsType' /\ HistoryType' /\ NoSurer /\ Plain
  BY <1>1, <1>2, CreateRowKeeps DEF external
<1> QED
  BY <1>0, <1>1, <1>3, TokensStay, OthersStay, Together

LEMMA SyncPasswordKeeps == ASSUME TypeInv, NEW s \in Sessions, SyncPassword(s) PROVE Keeps
<1>0. /\ DataType /\ TokenType /\ SessionsType /\ OthersType /\ HistoryType
      /\ session[s].user.role \in Roles
  BY DEF TypeInv, SessionsType, SessionStates, Rows
<1>1. Finish(s) /\ UNCHANGED << documents, tokens, auth, restaurant, callback, admin, job >>
  BY DEF SyncPassword
<1>2. OthersType'
  BY <1>0, <1>1, OthersStay
<1>3. CASE UNCHANGED << account, supabase >> /\ NoNews
  <2>1. SessionsType'
    BY <1>0, <1>1, <1>3, FinishKeeps
  <2>2. TokenType'
    BY <1>0, <1>1, <1>3 DEF TokenType, tokens
  <2>3. Plain
    BY <1>1, <1>3 DEF Plain, SameData
  <2> QED
    BY <1>0, <1>2, <1>3, <2>1, <2>2, <2>3, NoNewsKeeps, Together
<1>4. CASE /\ supabase' = IF supabase = "none" THEN session[s].user.role ELSE supabase
           /\ Write([ row EXCEPT !.supabase = TRUE, !.link = "auth" ])
           /\ expected' = [ expected EXCEPT !.link = "auth" ]
           /\ sure' = (IF Settled /\ Alone(s) THEN sure ELSE sure \ { "link" }) \ Overtaken
           /\ UNCHANGED << scenario, inputs, faults, rushed >>
  <2>1. supabase' \in Roles /\ supabase' # "none"
    BY <1>0, <1>4 DEF TokenType, Roles
  <2>2. SessionsType'
    BY <1>0, <1>1, <2>1, FinishKeeps
  <2>3. TokenType'
    BY <1>0, <1>1, <2>1 DEF TokenType, tokens
  <2>4. Plain
    <3>1. PICK r : r = [ row EXCEPT !.supabase = TRUE, !.link = "auth" ]
      OBVIOUS
    <3>2. r \in Rows /\ r.there = row.there
      BY <1>0, <3>1 DEF DataType, Rows, Ids
    <3> QED
      BY <1>0, <1>1, <1>4, <3>1, <3>2, RowKept
  <2>5. HistoryType' /\ NoSurer
    <3>1. expected' \in Expectations
      BY <1>0, <1>4 DEF HistoryType, Expectations, Ids
    <3>2. sure' \subseteq sure
      BY <1>4
    <3> QED
      BY <1>0, <1>4, <3>1, <3>2 DEF HistoryType, NoSurer
  <2> QED
    BY <1>2, <2>2, <2>3, <2>4, <2>5, Together
<1> QED
  BY <1>3, <1>4 DEF SyncPassword

LEMMA ExpireKeeps ==
  ASSUME TypeInv, NEW role \in Roles, AccessExpires(role) \/ RefreshExpires(role)
  PROVE  Keeps
<1>0. TokenType /\ SessionsType /\ OthersType /\ HistoryType
  BY DEF TypeInv
<1>1. /\ access' \in { access, access \ { role } } /\ refresh' \in { refresh, refresh \ { role } }
      /\ UNCHANGED << account, documents, external, callback, session, admin, job >> /\ NoNews
  BY DEF AccessExpires, RefreshExpires
<1>2. TokenType'
  BY <1>0, <1>1 DEF TokenType, external
<1>3. SessionsType'
  BY <1>0, <1>1, SessionsStay DEF external
<1>4. Plain
  BY <1>1 DEF Plain, SameData
<1> QED
  BY <1>0, <1>1, <1>2, <1>3, <1>4, NoNewsKeeps, OthersStay, Together

(***************************************************************************)
(* Administrators, applications, mirrors, the listener and the job         *)
(***************************************************************************)

LEMMA ExpectedType ==
  ASSUME HistoryType, NEW role \in Roles, NEW status \in Statuses, NEW link \in Ids
  PROVE  /\ [ expected EXCEPT !.role = role ] \in Expectations
         /\ [ expected EXCEPT !.status = status ] \in Expectations
         /\ [ role |-> role, status |-> status, link |-> link ] \in Expectations
         /\ expected \in Expectations
BY DEF HistoryType, Expectations

LEMMA RowChanged ==
  ASSUME DataType, NEW role \in Roles, NEW status \in Statuses
  PROVE  /\ [ row EXCEPT !.role = role ] \in Rows /\ [ row EXCEPT !.role = role ].there = row.there
         /\ [ row EXCEPT !.status = status ] \in Rows /\ [ row EXCEPT !.status = status ].there = row.there
         /\ [ row EXCEPT !.deleted = TRUE ] \in Rows /\ [ row EXCEPT !.deleted = TRUE ].there = row.there
BY DEF DataType, Rows

LEMMA DecideKeeps == ASSUME TypeInv, Decide PROVE Keeps
<1>0. /\ DataType /\ TokenType /\ SessionsType /\ OthersType /\ HistoryType /\ scenario.role \in Roles
      /\ "CUSTOMER" \in Roles /\ "auth" \in Ids /\ "BANNED" \in Statuses
  BY ScenarioType DEF TypeInv, Roles, Ids, Statuses
<1>1. ASSUME NEW status \in Statuses, UpdateUserStatus(status) PROVE Keeps
  <2>1. HistoryType' /\ NoSurer
    BY <1>0, <1>1, ExpectedType, InputKeeps DEF UpdateUserStatus
  <2>2. UNCHANGED << account, documents, tokens, external, callback, session, job >>
    BY <1>1 DEF UpdateUserStatus
  <2>3. OthersType'
    BY <1>0, <1>1, <2>2 DEF OthersType, UpdateUserStatus, AdminStates, TypeInv, DataType, Rows
  <2>4. Plain /\ SessionsType'
    BY <1>0, <2>2, SessionsStay DEF Plain, SameData, external
  <2> QED
    BY <1>0, <2>1, <2>2, <2>3, <2>4, TokensStay, Together
<1>2. ASSUME NEW role \in { scenario.role, "CUSTOMER" }, UpdateUserRole(role) \/ UpdateProfile(role) PROVE Keeps
  <2>0. role \in Roles
    BY <1>0, <1>2
  <2>1. /\ Write([ row EXCEPT !.role = role ]) /\ Input([ expected EXCEPT !.role = role ], Undisturbed)
        /\ UNCHANGED << documents, tokens, external, callback, session, admin, job >>
    BY <1>2 DEF UpdateUserRole, UpdateProfile
  <2>2. HistoryType' /\ NoSurer
    BY <1>0, <2>0, <2>1, ExpectedType, InputKeeps
  <2>3. Plain
    BY <1>0, <2>0, <2>1, RowChanged, RowKept
  <2>4. SessionsType'
    BY <1>0, <2>1, SessionsStay DEF external
  <2> QED
    BY <1>0, <2>1, <2>2, <2>3, <2>4, TokensStay, OthersStay, Together
<1>3. ASSUME DeleteUser PROVE Keeps
  <2>1. /\ Write([ row EXCEPT !.deleted = TRUE ]) /\ Input(expected, Fields \ Overtaken)
        /\ UNCHANGED << documents, tokens, external, callback, session, admin, job >>
    BY <1>3 DEF DeleteUser
  <2>2. HistoryType' /\ NoSurer
    BY <1>0, <2>1, ExpectedType, InputKeeps
  <2>3. Plain
    BY <1>0, <2>1, RowChanged, RowKept
  <2>4. SessionsType'
    BY <1>0, <2>1, SessionsStay DEF external
  <2> QED
    BY <1>0, <2>1, <2>2, <2>3, <2>4, TokensStay, OthersStay, Together
<1>4. ASSUME NEW role \in { scenario.role, "CUSTOMER" }, NEW status \in Statuses, AppSet(role, status) PROVE Keeps
  <2>0. role \in Roles
    BY <1>0, <1>4
  <2>1. /\ auth' = TRUE /\ PutDoc("auth", Doc(role, status))
        /\ UNCHANGED << account, tokens, supabase, restaurant, callback, session, admin, job >>
    BY <1>4 DEF AppSet
  <2>2. HistoryType' /\ NoSurer
    BY <1>0, <1>4, <2>0, ExpectedType, InputKeeps DEF AppSet
  <2>3. Plain
    BY <1>0, <2>0, <2>1, DocType, DocKept
  <2>4. SessionsType'
    BY <1>0, <2>1, SessionsStay
  <2>5. TokenType'
    BY <1>0, <2>1 DEF TokenType, tokens
  <2> QED
    BY <1>0, <2>1, <2>2, <2>3, <2>4, <2>5, OthersStay, Together
<1>5. ASSUME AppRemove PROVE Keeps
  <2>1. /\ auth' \in { auth, FALSE } /\ PutDoc("auth", NoDoc)
        /\ UNCHANGED << account, tokens, supabase, restaurant, callback, session, admin, job >>
    BY <1>5 DEF AppRemove
  <2>2. HistoryType' /\ NoSurer
    BY <1>0, <1>5, ExpectedType, InputKeeps DEF AppRemove
  <2>3. Plain
    <3>1. NoDoc \in Docs
      BY DEF NoDoc, Docs
    <3> QED
      BY <1>0, <2>1, <3>1, DocKept
  <2>4. SessionsType'
    BY <1>0, <2>1, SessionsStay
  <2>5. TokenType'
    BY <1>0, <2>1 DEF TokenType, tokens
  <2> QED
    BY <1>0, <2>1, <2>2, <2>3, <2>4, <2>5, OthersStay, Together
<1> QED
  BY <1>1, <1>2, <1>3, <1>4, <1>5 DEF Decide

LEMMA StatusToRowKeeps == ASSUME TypeInv, StatusToRow PROVE Keeps
<1>0. DataType /\ TokenType /\ SessionsType /\ OthersType /\ HistoryType /\ admin.status \in Statuses
  BY DEF TypeInv, OthersType, AdminStates
<1>1. /\ Write([ row EXCEPT !.status = admin.status ]) /\ admin' = [ admin EXCEPT !.pc = "doc" ]
      /\ UNCHANGED << documents, tokens, external, callback, session, job >>
  BY DEF StatusToRow
<1>2. HistoryType' /\ NoSurer
  BY <1>0, NoNewsKeeps, CertainKeeps DEF StatusToRow
<1>3. Plain
  <2>1. PICK status \in Statuses : status = admin.status
    BY <1>0
  <2>2. PICK r : r = [ row EXCEPT !.status = status ]
    OBVIOUS
  <2>3. r \in Rows /\ r.there = row.there
    BY <1>0, <2>2 DEF DataType, Rows
  <2>4. Write(r)
    BY <1>1, <2>1, <2>2
  <2> QED
    BY <1>0, <1>1, <2>3, <2>4, RowKept
<1>4. SessionsType'
  BY <1>0, <1>1, SessionsStay DEF external
<1>5. OthersType'
  BY <1>0, <1>1 DEF OthersType, AdminStates
<1> QED
  BY <1>0, <1>1, <1>2, <1>3, <1>4, <1>5, TokensStay, Together

LEMMA StatusToDocKeeps == ASSUME TypeInv, StatusToDoc PROVE Keeps
<1>0. /\ DataType /\ TokenType /\ SessionsType /\ OthersType /\ HistoryType
      /\ admin.status \in Statuses /\ admin.link \in Ids \cup { "none" }
  BY DEF TypeInv, OthersType, AdminStates
<1>1. /\ admin' = IdleAdmin /\ UNCHANGED << account, tokens, external, callback, session, job >>
  BY DEF StatusToDoc
<1>2. HistoryType' /\ NoSurer
  BY <1>0, NoNewsKeeps, FaultKeeps DEF StatusToDoc
<1>3. Plain
  <2>1. CASE UNCHANGED documents
    BY <1>1, <2>1 DEF Plain, SameData
  <2>2. CASE /\ admin.link # "none" /\ doc[admin.link].there
             /\ PutDoc(admin.link, [ doc[admin.link] EXCEPT !.status = admin.status ])
    <3>1. PICK d \in Ids : d = admin.link
      BY <1>0, <2>2
    <3>2. PICK v : v = [ doc[d] EXCEPT !.status = admin.status ]
      OBVIOUS
    <3>3. v \in Docs /\ v.there
      BY <1>0, <2>2, <3>1, <3>2 DEF DataType, Docs
    <3> QED
      BY <1>0, <1>1, <2>2, <3>1, <3>2, <3>3, DocKept
  <2> QED
    BY <2>1, <2>2 DEF StatusToDoc
<1>4. SessionsType'
  BY <1>0, <1>1, SessionsStay DEF external
<1>5. OthersType'
  BY <1>0, <1>1 DEF OthersType, AdminStates, IdleAdmin, Statuses
<1> QED
  BY <1>0, <1>1, <1>2, <1>3, <1>4, <1>5, TokensStay, Together

\* What a document is carried into.
LEMMA CarriedType ==
  ASSUME NEW r \in Rows, NEW d \in Ids, NEW v \in Docs
  PROVE  /\ Carried(r, d, v) \in Rows /\ Carried(r, d, v).there = r.there
         /\ Carried(r, d, v).link = d
         /\ v.role \in { "none", Carried(r, d, v).role } /\ v.status \in { "none", Carried(r, d, v).status }
         /\ CarriedNew(d, v) \in Rows /\ CarriedNew(d, v).there /\ CarriedNew(d, v).link = d
         /\ v.role \in { "none", CarriedNew(d, v).role } /\ v.status \in { "none", CarriedNew(d, v).status }
<1>1. ASSUME NEW q \in Rows
      PROVE  /\ Carried(q, d, v) \in Rows /\ Carried(q, d, v).there = q.there
             /\ Carried(q, d, v).link = d
             /\ v.role \in { "none", Carried(q, d, v).role } /\ v.status \in { "none", Carried(q, d, v).status }
  <2>1. /\ Carried(q, d, v) \in Rows
        /\ Carried(q, d, v).role = IF v.role = "none" THEN q.role ELSE v.role
        /\ Carried(q, d, v).status = IF v.status = "none" THEN q.status ELSE v.status
    BY DEF Carried, Rows, Docs
  <2>2. Carried(q, d, v).there = q.there
    BY Zenon DEF Carried, Rows
  <2>3. Carried(q, d, v).link = d
    BY DEF Carried, Rows
  <2> QED
    BY <2>1, <2>2, <2>3
<1>2. PICK q : q = NewRow("CUSTOMER", "ACTIVE", d, FALSE)
  OBVIOUS
<1>3. q \in Rows /\ q.there
  BY <1>2, NewRowType DEF Roles, Statuses
<1>4. CarriedNew(d, v) = Carried(q, d, v)
  BY <1>2 DEF CarriedNew
<1> QED
  BY <1>1, <1>3, <1>4

LEMMA SyncedRowType ==
  ASSUME DataType, NEW existing \in BOOLEAN, NEW d \in Ids, NEW v \in Docs
  PROVE  SyncedRow(existing, d, v) \in Rows /\ (row.there => SyncedRow(existing, d, v).there)
<1>1. row \in Rows
  BY DEF DataType
<1> QED
  BY <1>1, CarriedType DEF SyncedRow

LEMMA JobStartKeeps == ASSUME TypeInv, JobStart PROVE Keeps
<1>0. DataType /\ TokenType /\ SessionsType /\ OthersType /\ HistoryType
  BY DEF TypeInv
<1>1. UNCHANGED << account, documents, tokens, external, callback, session, admin >>
  BY DEF JobStart
<1>2. IdleJob \in JobStates
  BY DEF IdleJob, JobStates, Docs, NoDoc
<1>3. PICK found : found = { d \in Ids : doc[d].there }
  OBVIOUS
<1>4. \/ job' = [ IdleJob EXCEPT !.pc = "users", !.snapshot = doc, !.todo = found, !.active = found ]
      \/ job' = [ IdleJob EXCEPT !.pc = "users" ]
  BY <1>3 DEF JobStart
<1>5. OthersType'
  <2>1. found \in SUBSET Ids /\ doc \in [ Ids -> Docs ]
    BY <1>0, <1>3 DEF DataType
  <2>2. PICK idle \in JobStates : idle = IdleJob
    BY <1>2
  <2>3. \/ job' = [ idle EXCEPT !.pc = "users", !.snapshot = doc, !.todo = found, !.active = found ]
        \/ job' = [ idle EXCEPT !.pc = "users" ]
    BY <1>4, <2>2
  <2>4. job' \in JobStates /\ job'.pc = "users"
    BY <2>1, <2>3 DEF JobStates
  <2> QED
    BY <1>0, <1>1, <2>4 DEF OthersType
<1>6. rushed' \in { rushed, rushed + 1 } /\ (rushed' # rushed => rushed < scenario.rushed)
  BY DEF JobStart
<1>7. /\ UNCHANGED << scenario, inputs, expected >> /\ sure' \subseteq sure
      /\ faults' \in { faults, faults + 1 } /\ (faults' # faults => faults < scenario.faults)
  BY DEF JobStart
<1>8. HistoryType' /\ NoSurer
  BY <1>0, <1>6, <1>7, ScenarioType DEF HistoryType, NoSurer
<1>9. Plain
  BY <1>1 DEF Plain, SameData
<1> QED
  BY <1>0, <1>1, <1>5, <1>8, <1>9, SessionsStay, TokensStay, Together DEF external

LEMMA JobReadKeeps == ASSUME TypeInv, NEW d \in Ids, JobRead(d) PROVE Keeps
<1>0. DataType /\ TokenType /\ SessionsType /\ OthersType /\ HistoryType /\ row.there \in BOOLEAN
  BY DEF TypeInv, DataType, Rows
<1>1. /\ job' = [ job EXCEPT !.pc = "write", !.of = d, !.existing = row.there, !.todo = @ \ { d } ]
      /\ UNCHANGED << account, documents, tokens, external, callback, session, admin >> /\ NoNews
  BY DEF JobRead
<1>2. OthersType'
  <2>1. job' \in JobStates /\ job'.of = d
    BY <1>0, <1>1 DEF JobStates, OthersType
  <2> QED
    BY <1>0, <1>1, <2>1 DEF OthersType
<1>3. Plain
  BY <1>1 DEF Plain, SameData
<1> QED
  BY <1>0, <1>1, <1>2, <1>3, NoNewsKeeps, SessionsStay, TokensStay, Together DEF external

LEMMA JobWriteKeeps == ASSUME TypeInv, JobWrite PROVE Keeps
<1>0. DataType /\ TokenType /\ SessionsType /\ OthersType /\ HistoryType
  BY DEF TypeInv
<1>1. /\ job.pc = "write" /\ job' = [ job EXCEPT !.pc = "users" ]
      /\ UNCHANGED << documents, tokens, external, callback, session, admin >> /\ NoNews
  BY DEF JobWrite
<1>2. job.existing \in BOOLEAN /\ job.of \in Ids /\ job.snapshot[job.of] \in Docs
  BY <1>0, <1>1 DEF OthersType, JobStates
<1>3. OthersType'
  BY <1>0, <1>1 DEF OthersType, JobStates
<1>4. Plain
  <2>1. PICK r : r = SyncedRow(job.existing, job.of, job.snapshot[job.of])
    OBVIOUS
  <2>2. r \in Rows /\ (row.there => r.there)
    BY <1>0, <1>2, <2>1, SyncedRowType
  <2>3. Write(r) \/ UNCHANGED account
    BY <2>1 DEF JobWrite
  <2> QED
    BY <1>0, <1>1, <2>2, <2>3, RowKept DEF Plain, SameData
<1> QED
  BY <1>0, <1>1, <1>3, <1>4, NoNewsKeeps, SessionsStay, TokensStay, Together DEF external

LEMMA JobListKeeps == ASSUME TypeInv, JobList PROVE Keeps
<1>0. DataType /\ TokenType /\ SessionsType /\ OthersType /\ HistoryType
  BY DEF TypeInv
<1>1. PICK listed \in BOOLEAN :
        /\ job' \in { [ job EXCEPT !.pc = "ban", !.active = job.active \cup (IF auth /\ listed THEN { "auth" } ELSE {}) ],
                      IdleJob }
        /\ \/ NoNews
           \/ /\ faults < scenario.faults /\ faults' = faults + 1 /\ sure' = {}
              /\ UNCHANGED << scenario, inputs, rushed, expected >>
  BY DEF JobList
<1>2. UNCHANGED << account, documents, tokens, external, callback, session, admin >>
  BY DEF JobList
<1>3. OthersType'
  <2>1. IdleJob \in JobStates /\ IdleJob.pc = "idle"
    BY DEF IdleJob, JobStates, Docs, NoDoc
  <2>2. job.active \cup (IF auth /\ listed THEN { "auth" } ELSE {}) \in SUBSET Ids
    BY <1>0 DEF OthersType, JobStates, Ids
  <2>3. job' \in JobStates /\ job'.pc # "write"
    BY <1>0, <1>1, <2>1, <2>2 DEF OthersType, JobStates
  <2> QED
    BY <1>0, <1>2, <2>3 DEF OthersType
<1>4. HistoryType' /\ NoSurer
  <2>1. CASE NoNews
    BY <1>0, <2>1, NoNewsKeeps
  <2>2. CASE /\ faults < scenario.faults /\ faults' = faults + 1 /\ sure' = {}
             /\ UNCHANGED << scenario, inputs, rushed, expected >>
    BY <1>0, <2>2, ScenarioType DEF HistoryType, NoSurer
  <2> QED
    BY <1>1, <2>1, <2>2
<1>5. Plain
  BY <1>2 DEF Plain, SameData
<1> QED
  BY <1>0, <1>2, <1>3, <1>4, <1>5, SessionsStay, TokensStay, Together DEF external

LEMMA BannedType == ASSUME DataType PROVE Banned(row) \in Rows /\ Banned(row).there = row.there /\ Banned(row).link = row.link
<1>1. PICK r \in Rows : r = row
  BY DEF DataType
<1>2. [ r EXCEPT !.status = "BANNED", !.deleted = TRUE ] \in Rows
  BY DEF Rows, Statuses
<1>3. /\ [ r EXCEPT !.status = "BANNED", !.deleted = TRUE ].there = r.there
      /\ [ r EXCEPT !.status = "BANNED", !.deleted = TRUE ].link = r.link
  BY Zenon DEF Rows
<1> QED
  BY <1>1, <1>2, <1>3 DEF Banned

\* What the actions below leave alone.
LEMMA OutsideStays ==
  ASSUME TypeInv, UNCHANGED << tokens, external, session, admin >>, DataType', HistoryType',
         job' = job \/ job' = IdleJob
  PROVE  TypeInv'
<1>0. TokenType /\ SessionsType /\ OthersType
  BY DEF TypeInv
<1>1. TokenType'
  BY <1>0, TokensStay
<1>2. SessionsType'
  BY <1>0, SessionsStay DEF external
<1>3. OthersType'
  <2>1. IdleJob \in JobStates /\ IdleJob.pc = "idle"
    BY DEF IdleJob, JobStates, Docs, NoDoc
  <2> QED
    BY <1>0, <2>1 DEF OthersType
<1> QED
  BY <1>1, <1>2, <1>3 DEF TypeInv

LEMMA MirrorWriteKeeps == ASSUME TypeInv, NEW m \in BagToSet(mirrors), MirrorWrite(m) PROVE TypeInv' /\ NoSurer
<1>0. DataType /\ HistoryType /\ m \in Mirrors
  BY DEF TypeInv, DataType
<1>1. /\ mirrors' = mirrors (-) SetToBag({ m }) /\ PutDoc(m.id, Doc(m.role, m.status))
      /\ UNCHANGED << row, tokens, external, callback, session, admin, job >> /\ NoNews
  BY DEF MirrorWrite
<1>2. Doc(m.role, m.status) \in Docs /\ m.id \in Ids
  BY <1>0, DocType DEF Mirrors
<1>3. IsABag(mirrors') /\ BagToSet(mirrors') \subseteq Mirrors
  BY <1>0, <1>1, BagMinus DEF DataType
<1>4. doc' \in [ Ids -> Docs ] /\ inbox' \in [ Ids -> Seq(Docs) ]
  BY <1>0, <1>1, <1>2, PutDocType
<1>5. DataType'
  BY <1>0, <1>1, <1>3, <1>4 DEF DataType
<1> QED
  BY <1>0, <1>1, <1>5, NoNewsKeeps, OutsideStays

LEMMA MirrorLostKeeps ==
  ASSUME TypeInv, NEW m \in BagToSet(mirrors), MirrorLost(m)
  PROVE  TypeInv' /\ "agree" \notin sure'
<1>0. DataType /\ HistoryType
  BY DEF TypeInv
<1>1. /\ mirrors' = mirrors (-) SetToBag({ m }) /\ Fault({ "role", "link", "agree" })
      /\ UNCHANGED << row, documents, tokens, external, callback, session, admin, job >>
  BY DEF MirrorLost
<1>2. IsABag(mirrors') /\ BagToSet(mirrors') \subseteq Mirrors
  BY <1>0, <1>1, BagMinus DEF DataType
<1>3. DataType'
  BY <1>0, <1>1, <1>2 DEF DataType, documents
<1>4. "agree" \notin sure'
  BY <1>1 DEF Fault
<1> QED
  BY <1>0, <1>1, <1>3, <1>4, FaultKeeps, OutsideStays

LEMMA CalledKeeps == ASSUME TypeInv, NEW d \in Ids, Called(d) PROVE TypeInv' /\ NoSurer
<1>0. DataType /\ HistoryType /\ inbox[d] \in Seq(Docs) /\ inbox[d] # << >> /\ row.there \in BOOLEAN
  BY DEF TypeInv, DataType, Called, Rows
<1>1. /\ inbox' = [ inbox EXCEPT ![d] = Tail(@) ]
      /\ UNCHANGED << doc, mirrors, tokens, external, session, admin, job >> /\ NoNews
  BY DEF Called
<1>2. Tail(inbox[d]) \in Seq(Docs) /\ Head(inbox[d]) \in Docs
  BY <1>0, TailLast
<1>3. inbox' \in [ Ids -> Seq(Docs) ]
  BY <1>0, <1>1, <1>2 DEF DataType
<1>4. row' \in Rows
  BY <1>0, BannedType DEF Called, DataType
<1>5. callback' \in [ Ids -> Callbacks ]
  <2>1. PICK c : c = [ pc |-> "write", existing |-> row.there, doc |-> Head(inbox[d]) ]
    OBVIOUS
  <2>2. c \in Callbacks
    BY <1>0, <1>2, <2>1 DEF Callbacks
  <2>3. callback' = callback \/ callback' = [ callback EXCEPT ![d] = c ]
    BY <2>1 DEF Called
  <2> QED
    BY <1>0, <2>2, <2>3 DEF DataType
<1>6. DataType'
  BY <1>0, <1>1, <1>3, <1>4, <1>5 DEF DataType
<1> QED
  BY <1>0, <1>1, <1>6, NoNewsKeeps, OutsideStays

LEMMA IdleCallbackType == IdleCallback \in Callbacks /\ IdleCallback.pc = "idle"
BY DEF IdleCallback, Callbacks, Docs, NoDoc

LEMMA SyncUserKeeps == ASSUME TypeInv, NEW d \in Ids, SyncUserToPostgres(d) PROVE TypeInv' /\ NoSurer
<1>0. DataType /\ HistoryType /\ callback[d] \in Callbacks
  BY DEF TypeInv, DataType
<1>1. /\ row' = SyncedRow(callback[d].existing, d, callback[d].doc) /\ mirrors' = mirrors
      /\ callback' = [ callback EXCEPT ![d] = IdleCallback ]
      /\ UNCHANGED << documents, tokens, external, session, admin, job >> /\ NoNews
  BY DEF SyncUserToPostgres, WriteBypassed
<1>2. row' \in Rows
  BY <1>0, <1>1, SyncedRowType DEF Callbacks
<1>3. DataType'
  BY <1>0, <1>1, <1>2, IdleCallbackType DEF DataType, documents
<1> QED
  BY <1>0, <1>1, <1>3, NoNewsKeeps, OutsideStays

LEMMA JobBanKeeps == ASSUME TypeInv, JobBan PROVE TypeInv' /\ NoSurer
<1>0. DataType /\ HistoryType
  BY DEF TypeInv
<1>1. /\ row' = Banned(row) /\ mirrors' = mirrors /\ job' = IdleJob
      /\ UNCHANGED << documents, tokens, external, callback, session, admin, scenario, inputs, faults, rushed >>
      /\ expected' \in { expected, [ expected EXCEPT !.status = "BANNED" ] } /\ sure' \subseteq sure
  BY DEF JobBan, WriteBypassed
<1>2. DataType'
  BY <1>0, <1>1, BannedType DEF DataType, documents
<1>3. HistoryType' /\ NoSurer
  <2>1. expected' \in Expectations
    BY <1>0, <1>1 DEF HistoryType, Expectations, Statuses
  <2> QED
    BY <1>0, <1>1, <2>1 DEF HistoryType, NoSurer
<1> QED
  BY <1>1, <1>2, <1>3, OutsideStays

LEMMA RestartKeeps == ASSUME TypeInv, Restart PROVE TypeInv' /\ "agree" \notin sure'
<1>0. DataType /\ TokenType /\ SessionsType /\ OthersType /\ HistoryType
  BY DEF TypeInv
<1>1. /\ Fault(Fields \cup { "agree" }) /\ mirrors' = EmptyBag /\ inbox' = [ d \in Ids |-> << >> ]
      /\ callback' = [ d \in Ids |-> IdleCallback ] /\ session' = [ s \in Sessions |-> IdleSession ]
      /\ admin' = IdleAdmin /\ job' = IdleJob /\ UNCHANGED << row, doc, tokens, external >>
  BY DEF Restart
<1>2. HistoryType'
  BY <1>0, <1>1, FaultKeeps
<1>3. "agree" \notin sure'
  BY <1>1 DEF Fault
<1>4. DataType'
  BY <1>0, <1>1, BagNone, IdleCallbackType DEF DataType
<1>5. SessionsType'
  <2>1. IdleSession \in SessionStates /\ IdleSession.pc = "idle"
    BY DEF IdleSession, SessionStates, NoRow, Rows, Roles, Statuses, Ids
  <2>2. SessionType(IdleSession)'
    BY <2>1 DEF SessionType
  <2> QED
    BY <1>1, <2>1, <2>2 DEF SessionsType
<1>6. OthersType'
  BY <1>1 DEF OthersType, IdleAdmin, AdminStates, IdleJob, JobStates, Statuses, Docs, NoDoc
<1> QED
  BY <1>0, <1>1, <1>2, <1>3, <1>4, <1>5, <1>6, TokensStay DEF TypeInv

\* Every action is one of those of the lemmas above.
Others ==
  \/ \E m \in BagToSet(mirrors) : MirrorWrite(m) \/ MirrorLost(m)
  \/ \E d \in Ids : Called(d) \/ SyncUserToPostgres(d)
  \/ JobBan \/ Restart

LEMMA NextKeeps == ASSUME TypeInv, Next PROVE Keeps \/ Others
<1>1. ASSUME NEW s \in Sessions, Start(s) PROVE Keeps
  BY <1>1, EmailRegisterKeeps, EmailLoginKeeps, SignInKeeps, BeginAgainKeeps DEF Start
<1>2. ASSUME NEW s \in Sessions, Continue(s) PROVE Keeps
  BY <1>2, RegisterCreateKeeps, RegisterLinkKeeps, FindUserKeeps, CreateFoundKeeps, UpdateFoundKeeps,
     TokensKeep, ResolveIdKeeps, LinkRowKeeps, WriteUsersDocKeeps, CreateSkeletonKeeps, SyncPasswordKeeps
     DEF Continue
<1>3. ASSUME JobContinue PROVE Keeps \/ JobBan
  BY <1>3, JobReadKeeps, JobWriteKeeps, JobListKeeps DEF JobContinue
<1> QED
  BY <1>1, <1>2, <1>3, ExpireKeeps, DecideKeeps, StatusToRowKeeps, StatusToDocKeeps, JobStartKeeps DEF Next, Others

LEMMA OthersKeep == ASSUME TypeInv, Others PROVE TypeInv'
BY MirrorWriteKeeps, MirrorLostKeeps, CalledKeeps, SyncUserKeeps, JobBanKeeps, RestartKeeps DEF Others

LEMMA IdleKeeps == ASSUME TypeInv, UNCHANGED vars PROVE Keeps
<1>0. TokenType /\ SessionsType /\ OthersType /\ HistoryType
  BY DEF TypeInv
<1>1. UNCHANGED << account, documents, callback, tokens, external, session, admin, job >> /\ NoNews
  BY DEF vars, account, documents, tokens, external, NoNews
<1>2. Plain
  BY <1>1 DEF Plain, SameData
<1> QED
  BY <1>0, <1>1, <1>2, NoNewsKeeps, SessionsStay, TokensStay, OthersStay, Together DEF external

LEMMA TypeStep == ASSUME TypeInv, [Next]_vars PROVE TypeInv'
BY NextKeeps, OthersKeep, IdleKeeps DEF Keeps

LEMMA TypeInit == ASSUME Init PROVE TypeInv
<1>1. scenario \in Scenarios /\ scenario.role \in Roles /\ scenario.restaurant \in { "none", "unset", "shop" }
      /\ scenario.inputs \in Nat /\ scenario.faults \in Nat /\ scenario.rushed \in Nat
  BY AccountsAssumption DEF Init
<1>2. PICK r \in Roles : r = scenario.role
  BY <1>1
<1>3. "CUSTOMER" \in Roles /\ "ACTIVE" \in Statuses /\ "auth" \in Ids /\ "row" \in Ids
  BY DEF Roles, Statuses, Ids
<1>4. row \in { NewRow(r, "ACTIVE", "auth", TRUE), NewRow("CUSTOMER", "ACTIVE", "row", TRUE), NoRow }
  BY <1>2 DEF Init
<1>5. row \in Rows
  BY <1>3, <1>4, NewRowType, NoRowType
<1>6. /\ Doc(r, "ACTIVE") \in Docs /\ Doc("CUSTOMER", "ACTIVE") \in Docs /\ NoDoc \in Docs
  BY <1>3, DocType DEF NoDoc, Docs
<1>7. doc \in [ Ids -> Docs ]
  <2>1. doc = [ d \in Ids |->
                  IF (scenario.begin \in { "linked", "signedUp" } /\ d = "auth") \/ (scenario.begin = "customer" /\ d = "row")
                    THEN Doc(IF scenario.begin = "customer" THEN "CUSTOMER" ELSE r, "ACTIVE") ELSE NoDoc ]
    BY <1>2 DEF Init
  <2> QED
    BY <1>6, <2>1
<1>8. inbox \in [ Ids -> Seq(Docs) ]
  <2>1. \A d \in Ids : << >> \in Seq(Docs) /\ << doc[d] >> \in Seq(Docs)
    BY <1>7
  <2> QED
    BY <2>1 DEF Init
<1>9. DataType
  <2>1. callback = [ d \in Ids |-> IdleCallback ] /\ mirrors = EmptyBag
    BY DEF Init
  <2> QED
    BY <1>5, <1>7, <1>8, <2>1, BagNone, IdleCallbackType DEF DataType
<1>10. TokenType
  <2>1. supabase \in { row.role, "none" } /\ restaurant = scenario.restaurant /\ access = {} /\ refresh = {}
    BY DEF Init
  <2>2. auth = (scenario.begin \in { "linked", "signedUp" })
    BY Zenon DEF Init
  <2>3. auth \in BOOLEAN
    <3>1. CASE scenario.begin \in { "linked", "signedUp" }
      BY <2>2, <3>1
    <3>2. CASE scenario.begin \notin { "linked", "signedUp" }
      BY <2>2, <3>2
    <3> QED
      BY <3>1, <3>2
  <2> QED
    BY <1>1, <1>5, <2>1, <2>3 DEF TokenType, Rows, Ids
<1>11. SessionsType
  <2>1. IdleSession \in SessionStates /\ IdleSession.pc = "idle"
    BY DEF IdleSession, SessionStates, NoRow, Rows, Roles, Statuses, Ids
  <2>2. session = [ s \in Sessions |-> IdleSession ]
    BY DEF Init
  <2> QED
    BY <2>1, <2>2 DEF SessionsType, SessionType
<1>12. OthersType
  <2>1. admin = IdleAdmin /\ job = IdleJob
    BY DEF Init
  <2> QED
    BY <2>1 DEF OthersType, IdleAdmin, AdminStates, IdleJob, JobStates, Statuses, Docs, NoDoc
<1>13. HistoryType
  <2>1. /\ expected = [ role |-> IF scenario.begin = "customer" THEN "CUSTOMER" ELSE r, status |-> "ACTIVE",
                        link |-> IF scenario.begin = "customer" THEN "row" ELSE "auth" ]
        /\ inputs = 0 /\ faults = 0 /\ rushed = 0 /\ sure = Fields \cup { "agree" }
    BY <1>2 DEF Init
  <2>2. expected \in Expectations
    BY <1>3, <2>1 DEF Expectations
  <2> QED
    BY <1>1, <2>1, <2>2 DEF HistoryType
<1> QED
  BY <1>9, <1>10, <1>11, <1>12, <1>13 DEF TypeInv

\* Row, documents, tokens, calls and job are of their kinds.
THEOREM TypeCorrect == Spec => []TypeOK
<1>1. Init => TypeInv
  BY TypeInit
<1>2. TypeInv /\ [Next]_vars => TypeInv'
  BY TypeStep
<1> QED
  BY <1>1, <1>2, TypesOK, PTL DEF Spec

(***************************************************************************)
(* The versions of a document, and what brings row and document together   *)
(***************************************************************************)

\* The last version on its way is the document as it is; only removals of the document of
\* Firebase Auth are on their way; a callback has a version, and a row it has found stays.
VersionsInv(d) ==
  /\ inbox[d] # << >> => inbox[d][Len(inbox[d])] = doc[d]
  /\ inbox[d] = << >> /\ callback[d].pc = "write" => callback[d].doc = doc[d]
  /\ callback[d].pc = "write" => callback[d].doc.there
  /\ callback[d].pc = "write" /\ callback[d].existing => row.there
  /\ d # "auth" => \A n \in 1 .. Len(inbox[d]) : inbox[d][n].there

\* Something on its way will carry a document into the row.
Pending ==
  \/ mirrors # EmptyBag
  \/ \E d \in Ids : \E n \in 1 .. Len(inbox[d]) : inbox[d][n].there
  \/ \E d \in Ids : callback[d].pc = "write" /\ callback[d].existing

\* As long as nothing is lost, row and document agree or will be brought together.
AgreeInv == "agree" \in sure => Pending \/ Agree

CarriedInv == (\A d \in Ids : VersionsInv(d)) /\ AgreeInv

LEMMA VersionsStay ==
  ASSUME NEW d \in Ids, VersionsInv(d), doc'[d] = doc[d], inbox'[d] = inbox[d], callback'[d] = callback[d],
         row.there => row'.there
  PROVE  VersionsInv(d)'
BY DEF VersionsInv

\* A document that is written: the version comes last.
LEMMA VersionsAppended ==
  ASSUME DataType, NEW d \in Ids, NEW v \in Docs, PutDoc(d, v), v.there \/ d = "auth",
         UNCHANGED << row, callback >>, \A e \in Ids : VersionsInv(e)
  PROVE  \A e \in Ids : VersionsInv(e)'
<1>0. /\ doc'[d] = v /\ inbox'[d] = Append(inbox[d], v)
      /\ \A e \in Ids : e # d => doc'[e] = doc[e] /\ inbox'[e] = inbox[e]
  BY PutDocType
<1>1. inbox[d] \in Seq(Docs)
  BY DEF DataType
<1>2. /\ inbox'[d] # << >> /\ inbox'[d][Len(inbox'[d])] = v
      /\ \A n \in 1 .. Len(inbox'[d]) : inbox'[d][n] = v \/ (n \in 1 .. Len(inbox[d]) /\ inbox'[d][n] = inbox[d][n])
  BY <1>0, <1>1, AppendLast
<1>3. VersionsInv(d)'
  <2>1. VersionsInv(d) /\ UNCHANGED << row, callback >>
    OBVIOUS
  <2> QED
    BY <1>0, <1>2, <2>1 DEF VersionsInv
<1>4. ASSUME NEW e \in Ids, e # d PROVE VersionsInv(e)'
  <2>1. VersionsInv(e) /\ UNCHANGED << row, callback >>
    OBVIOUS
  <2> QED
    BY <1>0, <1>4, <2>1, VersionsStay
<1> QED
  BY <1>3, <1>4

\* Once a version that is there is written, it is on its way.
LEMMA WrittenPending ==
  ASSUME DataType, NEW d \in Ids, NEW v \in Docs, PutDoc(d, v), v.there
  PROVE  Pending'
<1>0. inbox'[d] = Append(inbox[d], v) /\ inbox[d] \in Seq(Docs)
  BY PutDocType DEF DataType
<1>1. Len(inbox'[d]) \in 1 .. Len(inbox'[d]) /\ inbox'[d][Len(inbox'[d])] = v
  BY <1>0, AppendLast
<1> QED
  BY <1>1 DEF Pending

\* Steps of the calls, of administrators and applications, and of the job.
LEMMA PlainCarries ==
  ASSUME DataType, Plain, NoSurer, CarriedInv
  PROVE  CarriedInv'
<1>0. /\ \A d \in Ids : VersionsInv(d)
      /\ "agree" \in sure' => Pending \/ Agree
  BY DEF CarriedInv, AgreeInv, NoSurer
<1>1. CASE RowStep
  <2>1. PICK r \in Rows : Write(r) /\ (row.there => r.there) /\ UNCHANGED << documents, callback >>
    BY <1>1 DEF RowStep
  <2>2. mirrors' # EmptyBag /\ row' = r
    BY <2>1, WriteType DEF Write
  <2>3. ASSUME NEW d \in Ids PROVE VersionsInv(d)'
    BY <1>0, <2>1, <2>2, VersionsStay DEF documents
  <2>4. AgreeInv'
    BY <2>2 DEF AgreeInv, Pending
  <2> QED
    BY <2>3, <2>4 DEF CarriedInv
<1>2. CASE DocStep
  <2>1. PICK d \in Ids, v \in Docs :
          PutDoc(d, v) /\ (v.there \/ d = "auth") /\ UNCHANGED << account, callback >>
    BY <1>2 DEF DocStep
  <2>2. \A e \in Ids : VersionsInv(e)'
    BY <1>0, <2>1, VersionsAppended DEF account
  <2>3. CASE v.there
    BY <2>1, <2>2, <2>3, WrittenPending DEF CarriedInv, AgreeInv
  <2>4. CASE ~v.there
    <3>1. /\ doc'[d] = v /\ inbox'[d] = Append(inbox[d], v) /\ inbox[d] \in Seq(Docs)
          /\ \A e \in Ids : e # d => doc'[e] = doc[e] /\ inbox'[e] = inbox[e]
      BY <2>1, PutDocType DEF DataType
    <3>2. \A n \in 1 .. Len(inbox[d]) : n \in 1 .. Len(inbox'[d]) /\ inbox'[d][n] = inbox[d][n]
      BY <3>1, AppendLast
    <3>3. Pending => Pending'
      BY <2>1, <3>1, <3>2 DEF Pending, account
    <3>4. ASSUME Agree PROVE Agree'
      <4>1. row' = row /\ row \in Rows
        BY <2>1 DEF account, DataType
      <4>2. row.link = d => ~doc'[row.link].there
        BY <2>4, <3>1
      <4>3. row.link \in Ids /\ row.link # d => doc'[row.link] = doc[row.link]
        BY <3>1
      <4>4. row.link \in Ids \/ row.link = "none"
        BY <4>1 DEF Rows
      <4> QED
        BY <3>4, <4>1, <4>2, <4>3, <4>4 DEF Agree
    <3> QED
      BY <1>0, <2>2, <3>3, <3>4 DEF CarriedInv, AgreeInv
  <2> QED
    BY <2>3, <2>4
<1>3. CASE SameData
  <2>1. UNCHANGED << row, mirrors, doc, inbox, callback >>
    BY <1>3 DEF SameData, account, documents
  <2>2. ASSUME NEW d \in Ids PROVE VersionsInv(d)'
    BY <1>0, <2>1, VersionsStay
  <2>3. (Pending => Pending') /\ (Agree => Agree')
    BY <2>1 DEF Pending, Agree
  <2> QED
    BY <1>0, <2>2, <2>3 DEF CarriedInv, AgreeInv
<1> QED
  BY <1>1, <1>2, <1>3 DEF Plain

LEMMA MirrorWriteCarries ==
  ASSUME TypeInv, NEW m \in BagToSet(mirrors), MirrorWrite(m), CarriedInv
  PROVE  CarriedInv'
<1>0. DataType /\ m \in Mirrors /\ \A d \in Ids : VersionsInv(d)
  BY DEF TypeInv, DataType, CarriedInv
<1>1. PutDoc(m.id, Doc(m.role, m.status)) /\ UNCHANGED << row, callback >>
  BY DEF MirrorWrite
<1>2. Doc(m.role, m.status) \in Docs /\ Doc(m.role, m.status).there /\ m.id \in Ids
  BY <1>0, DocType DEF Mirrors
<1>3. \A e \in Ids : VersionsInv(e)'
  BY <1>0, <1>1, <1>2, VersionsAppended
<1>4. Pending'
  BY <1>0, <1>1, <1>2, WrittenPending
<1> QED
  BY <1>3, <1>4 DEF CarriedInv, AgreeInv

LEMMA MirrorLostCarries ==
  ASSUME TypeInv, NEW m \in BagToSet(mirrors), MirrorLost(m), CarriedInv
  PROVE  CarriedInv'
<1>0. \A d \in Ids : VersionsInv(d)
  BY DEF CarriedInv
<1>1. UNCHANGED << row, doc, inbox, callback >>
  BY DEF MirrorLost, documents
<1>2. ASSUME NEW d \in Ids PROVE VersionsInv(d)'
  BY <1>0, <1>1, VersionsStay
<1>3. "agree" \notin sure'
  BY MirrorLostKeeps
<1> QED
  BY <1>2, <1>3 DEF CarriedInv, AgreeInv

LEMMA RestartCarries == ASSUME TypeInv, Restart, CarriedInv PROVE CarriedInv'
<1>1. /\ "agree" \notin sure' /\ inbox' = [ d \in Ids |-> << >> ]
      /\ callback' = [ d \in Ids |-> IdleCallback ]
  BY RestartKeeps DEF Restart
<1>2. ASSUME NEW d \in Ids PROVE VersionsInv(d)'
  <2>1. inbox'[d] = << >> /\ callback'[d].pc = "idle" /\ Len(inbox'[d]) = 0
    BY <1>1, IdleCallbackType
  <2> QED
    BY <2>1 DEF VersionsInv
<1> QED
  BY <1>1, <1>2 DEF CarriedInv, AgreeInv

LEMMA JobBanCarries == ASSUME TypeInv, JobBan, CarriedInv PROVE CarriedInv'
<1>0. DataType /\ \A d \in Ids : VersionsInv(d)
  BY DEF TypeInv, CarriedInv
<1>1. row' = Banned(row) /\ UNCHANGED << doc, inbox, callback >>
  BY DEF JobBan, WriteBypassed, documents
<1>2. row'.there = row.there /\ row'.link = row.link
  BY <1>0, <1>1, BannedType
<1>3. ASSUME NEW d \in Ids PROVE VersionsInv(d)'
  BY <1>0, <1>1, <1>2, VersionsStay
<1>4. sure' = {} \/ (row.link \in Ids => ~doc[row.link].there)
  BY DEF JobBan
<1>5. "agree" \in sure' => Agree'
  BY <1>0, <1>1, <1>2, <1>4 DEF Agree, DataType, Rows
<1> QED
  BY <1>3, <1>5 DEF CarriedInv, AgreeInv

\* The listener takes a version: the callback has it, or the row is banned at once.
LEMMA CalledCarries == ASSUME TypeInv, NEW d \in Ids, Called(d), CarriedInv PROVE CarriedInv'
<1>0. /\ DataType /\ HistoryType /\ inbox[d] \in Seq(Docs) /\ inbox[d] # << >> /\ row \in Rows /\ row.there \in BOOLEAN
      /\ \A e \in Ids : VersionsInv(e)
      /\ doc[d] \in Docs
  BY DEF TypeInv, DataType, Called, Rows, CarriedInv
<1>1. PICK v : v = Head(inbox[d])
  OBVIOUS
<1>2. /\ inbox' = [ inbox EXCEPT ![d] = Tail(@) ] /\ UNCHANGED << doc, mirrors >> /\ NoNews
      /\ callback[d].pc = "idle"
      /\ IF v.there
         THEN /\ callback' = [ callback EXCEPT ![d] = [ pc |-> "write", existing |-> row.there, doc |-> v ] ]
              /\ UNCHANGED row
         ELSE /\ row' = IF row.there /\ d \in { row.link, "row" } THEN Banned(row) ELSE row
              /\ UNCHANGED callback
  BY <1>1 DEF Called
<1>3. inbox'[d] = Tail(inbox[d]) /\ \A e \in Ids : e # d => inbox'[e] = inbox[e]
  BY <1>0, <1>2 DEF DataType
<1>4. /\ v \in Docs /\ v = inbox[d][1] /\ 1 \in 1 .. Len(inbox[d])
      /\ inbox'[d] # << >> => inbox'[d][Len(inbox'[d])] = inbox[d][Len(inbox[d])] /\ Len(inbox'[d]) \in 1 .. Len(inbox'[d])
      /\ inbox'[d] = << >> => v = inbox[d][Len(inbox[d])]
      /\ \A n \in 1 .. Len(inbox'[d]) : n + 1 \in 1 .. Len(inbox[d]) /\ inbox'[d][n] = inbox[d][n + 1]
      /\ \A n \in 1 .. Len(inbox[d]) : inbox[d][n] = v \/ (n - 1 \in 1 .. Len(inbox'[d]) /\ inbox[d][n] = inbox'[d][n - 1])
  BY <1>0, <1>1, <1>3, TailLast
<1>5. row'.there = row.there /\ row'.link = row.link
  BY <1>0, <1>2, BannedType
<1>6. /\ callback'[d].pc = "write" => callback'[d].existing = row.there /\ callback'[d].doc = v /\ v.there
      /\ v.there => callback'[d].pc = "write"
      /\ \A e \in Ids : e # d => callback'[e] = callback[e]
  BY <1>0, <1>2 DEF DataType
<1>7. inbox[d][Len(inbox[d])] = doc[d]
  BY <1>0 DEF VersionsInv
<1>8. ASSUME NEW e \in Ids PROVE VersionsInv(e)'
  <2>1. CASE e # d
    <3>1. doc'[e] = doc[e] /\ inbox'[e] = inbox[e] /\ callback'[e] = callback[e] /\ (row.there => row'.there)
      BY <1>2, <1>3, <1>5, <1>6, <2>1
    <3> QED
      BY <1>0, <3>1, VersionsStay
  <2>2. CASE e = d
    <3>1. inbox'[d] # << >> => inbox'[d][Len(inbox'[d])] = doc'[d]
      BY <1>2, <1>4, <1>7
    <3>2. inbox'[d] = << >> /\ callback'[d].pc = "write" => callback'[d].doc = doc'[d]
      BY <1>2, <1>4, <1>6, <1>7
    <3>3. callback'[d].pc = "write" => callback'[d].doc.there
      BY <1>6
    <3>4. callback'[d].pc = "write" /\ callback'[d].existing => row'.there
      BY <1>5, <1>6
    <3>5. d # "auth" => \A n \in 1 .. Len(inbox'[d]) : inbox'[d][n].there
      <4>1. d # "auth" => \A n \in 1 .. Len(inbox[d]) : inbox[d][n].there
        BY <1>0 DEF VersionsInv
      <4> QED
        BY <1>4, <4>1
    <3> QED
      BY <2>2, <3>1, <3>2, <3>3, <3>4, <3>5 DEF VersionsInv
  <2> QED
    BY <2>1, <2>2
<1>9. ASSUME "agree" \in sure' PROVE Pending' \/ Agree'
  <2>1. Pending \/ Agree
    BY <1>2, <1>9 DEF NoNews, CarriedInv, AgreeInv
  <2>2. CASE ~row.there
    BY <1>5, <2>2 DEF Agree
  <2>3. CASE row.there /\ Pending
    <3>1. CASE mirrors # EmptyBag
      BY <1>2, <3>1 DEF Pending
    <3>2. ASSUME NEW e \in Ids, NEW n \in 1 .. Len(inbox[e]), inbox[e][n].there PROVE Pending'
      <4>1. CASE e # d
        BY <1>3, <3>2, <4>1 DEF Pending
      <4>2. CASE e = d /\ inbox[d][n] = v
        BY <1>6, <2>3, <3>2, <4>2 DEF Pending
      <4>3. CASE e = d /\ n - 1 \in 1 .. Len(inbox'[d]) /\ inbox[d][n] = inbox'[d][n - 1]
        BY <3>2, <4>3 DEF Pending
      <4> QED
        BY <1>4, <3>2, <4>1, <4>2, <4>3
    <3>3. ASSUME NEW e \in Ids, callback[e].pc = "write", callback[e].existing PROVE Pending'
      <4>1. e # d
        BY <1>2, <3>3
      <4> QED
        BY <1>6, <3>3, <4>1 DEF Pending
    <3> QED
      BY <2>3, <3>1, <3>2, <3>3 DEF Pending
  <2>4. CASE Agree /\ (v.there \/ row' = row)
    <3>1. row' = row /\ doc' = doc
      BY <1>2, <2>4
    <3> QED
      BY <2>4, <3>1 DEF Agree
  <2>5. CASE ~v.there /\ row' # row
    <3>1. d = "auth"
      BY <1>0, <1>4, <2>5 DEF VersionsInv
    <3>2. row.link = d
      BY <1>2, <2>5, <3>1
    <3>3. CASE inbox'[d] # << >>
      <4>1. inbox'[d][Len(inbox'[d])] = doc[d] /\ Len(inbox'[d]) \in 1 .. Len(inbox'[d])
        BY <1>4, <1>7, <3>3
      <4>2. CASE doc[d].there
        BY <4>1, <4>2 DEF Pending
      <4>3. CASE ~doc[d].there
        BY <1>2, <1>5, <3>2, <4>3 DEF Agree
      <4> QED
        BY <4>2, <4>3
    <3>4. CASE inbox'[d] = << >>
      <4>1. ~doc'[d].there
        BY <1>2, <1>4, <1>7, <2>5, <3>4
      <4> QED
        BY <1>5, <3>2, <4>1 DEF Agree
    <3> QED
      BY <3>3, <3>4
  <2> QED
    BY <2>1, <2>2, <2>3, <2>4, <2>5, <1>0
<1> QED
  BY <1>8, <1>9 DEF CarriedInv, AgreeInv

\* The callback carries its version into the row; when none has come since, the row is as
\* the document says.
LEMMA SyncUserCarries == ASSUME TypeInv, NEW d \in Ids, SyncUserToPostgres(d), CarriedInv PROVE CarriedInv'
<1>0. /\ DataType /\ HistoryType /\ callback[d] \in Callbacks /\ callback[d].existing \in BOOLEAN /\ row \in Rows
      /\ row.there \in BOOLEAN /\ callback[d].doc \in Docs /\ \A e \in Ids : VersionsInv(e)
      /\ inbox[d] \in Seq(Docs) /\ callback[d].pc = "write"
  BY DEF TypeInv, DataType, Callbacks, Rows, CarriedInv, SyncUserToPostgres
<1>1. PICK v \in Docs : v = callback[d].doc
  BY <1>0
<1>2. /\ row' = SyncedRow(callback[d].existing, d, v) /\ mirrors' = mirrors
      /\ callback' = [ callback EXCEPT ![d] = IdleCallback ] /\ UNCHANGED << doc, inbox >> /\ NoNews
  BY <1>1 DEF SyncUserToPostgres, WriteBypassed, documents
<1>3. /\ row.there => row'.there
      /\ callback'[d].pc = "idle" /\ \A e \in Ids : e # d => callback'[e] = callback[e]
  BY <1>0, <1>2, SyncedRowType, IdleCallbackType DEF DataType
<1>4. ASSUME NEW e \in Ids PROVE VersionsInv(e)'
  <2>1. VersionsInv(e)
    BY <1>0
  <2>2. CASE e # d
    <3>1. doc'[e] = doc[e] /\ inbox'[e] = inbox[e] /\ callback'[e] = callback[e] /\ (row.there => row'.there)
      BY <1>2, <1>3, <2>2
    <3> QED
      BY <2>1, <3>1, VersionsStay
  <2>3. CASE e = d
    BY <1>2, <1>3, <2>1, <2>3 DEF VersionsInv
  <2> QED
    BY <2>2, <2>3
<1>5. ASSUME "agree" \in sure' PROVE Pending' \/ Agree'
  <2>1. Pending \/ Agree
    BY <1>2, <1>5 DEF NoNews, CarriedInv, AgreeInv
  <2>2. CASE ~callback[d].existing /\ row.there
    <3>1. row' = row
      BY <1>2, <2>2 DEF SyncedRow
    <3>2. Agree => Agree'
      BY <1>2, <3>1 DEF Agree
    <3>3. Pending => Pending'
      <4>1. ASSUME NEW e \in Ids, callback[e].pc = "write", callback[e].existing PROVE callback'[e] = callback[e]
        BY <1>3, <2>2, <4>1
      <4> QED
        BY <1>2, <4>1 DEF Pending
    <3> QED
      BY <2>1, <3>2, <3>3
  <2>3. CASE callback[d].existing \/ ~row.there
    <3>1. row'.link = d /\ v.role \in { "none", row'.role } /\ v.status \in { "none", row'.status }
      BY <1>0, <1>2, <2>3, CarriedType DEF SyncedRow
    <3>2. CASE inbox[d] = << >>
      <4>1. doc'[d] = v
        BY <1>0, <1>1, <1>2, <3>2 DEF VersionsInv
      <4> QED
        BY <3>1, <4>1 DEF Agree
    <3>3. CASE inbox[d] # << >>
      <4>1. inbox'[d][Len(inbox'[d])] = doc'[d]
        BY <1>0, <1>2, <3>3 DEF VersionsInv
      <4>2. Len(inbox'[d]) \in 1 .. Len(inbox'[d])
        BY <1>0, <1>2, <3>3
      <4>3. CASE doc'[d].there
        BY <4>1, <4>2, <4>3 DEF Pending
      <4>4. CASE ~doc'[d].there
        BY <3>1, <4>4 DEF Agree
      <4> QED
        BY <4>3, <4>4
    <3> QED
      BY <3>2, <3>3
  <2> QED
    BY <2>2, <2>3, <1>0
<1> QED
  BY <1>4, <1>5 DEF CarriedInv, AgreeInv

LEMMA CarriedStep == ASSUME TypeInv, CarriedInv, [Next]_vars PROVE CarriedInv'
<1>0. DataType
  BY DEF TypeInv
<1>1. ASSUME Keeps PROVE CarriedInv'
  BY <1>0, <1>1, PlainCarries DEF Keeps
<1>2. ASSUME Others PROVE CarriedInv'
  BY <1>2, MirrorWriteCarries, MirrorLostCarries, CalledCarries, SyncUserCarries, JobBanCarries, RestartCarries
     DEF Others
<1> QED
  BY <1>1, <1>2, NextKeeps, IdleKeeps

LEMMA CarriedInit == ASSUME Init PROVE CarriedInv
<1>1. PICK r : r = scenario.role
  OBVIOUS
<1>2. /\ doc = [ d \in Ids |->
                   IF (scenario.begin \in { "linked", "signedUp" } /\ d = "auth") \/ (scenario.begin = "customer" /\ d = "row")
                     THEN Doc(IF scenario.begin = "customer" THEN "CUSTOMER" ELSE r, "ACTIVE") ELSE NoDoc ]
      /\ inbox = [ d \in Ids |-> IF scenario.begin = "signedUp" /\ d = "auth" THEN << doc[d] >> ELSE << >> ]
      /\ callback = [ d \in Ids |-> IdleCallback ]
  BY <1>1 DEF Init
<1>3. ASSUME NEW d \in Ids PROVE VersionsInv(d)
  <2>1. callback[d].pc = "idle"
    BY <1>2, IdleCallbackType
  <2>2. CASE inbox[d] = << >>
    <3>1. Len(inbox[d]) = 0
      BY <2>2
    <3> QED
      BY <2>1, <2>2, <3>1 DEF VersionsInv
  <2>3. CASE inbox[d] = << doc[d] >> /\ d = "auth"
    <3>1. inbox[d][Len(inbox[d])] = doc[d]
      BY <2>3
    <3> QED
      BY <2>1, <2>3, <3>1 DEF VersionsInv
  <2> QED
    BY <1>2, <2>2, <2>3
<1>4. Agree
  <2>1. CASE scenario.begin = "linked"
    <3>1. row = NewRow(r, "ACTIVE", "auth", TRUE)
      BY <1>1, <2>1 DEF Init
    <3>2. doc["auth"] = Doc(r, "ACTIVE")
      BY <1>2, <2>1 DEF Ids
    <3> QED
      BY <3>1, <3>2 DEF Agree, NewRow, Doc
  <2>2. CASE scenario.begin = "customer"
    <3>1. row = NewRow("CUSTOMER", "ACTIVE", "row", TRUE)
      BY <2>2 DEF Init
    <3>2. doc["row"] = Doc("CUSTOMER", "ACTIVE")
      BY <1>2, <2>2 DEF Ids
    <3> QED
      BY <3>1, <3>2 DEF Agree, NewRow, Doc
  <2>3. CASE scenario.begin \notin { "linked", "customer" }
    <3>1. row = NoRow
      BY <2>3 DEF Init
    <3> QED
      BY <3>1 DEF Agree, NoRow
  <2> QED
    BY <2>1, <2>2, <2>3
<1> QED
  BY <1>3, <1>4 DEF CarriedInv, AgreeInv

LEMMA CarriedConverges == ASSUME TypeInv, CarriedInv PROVE Converged
<1> SUFFICES ASSUME Quiet, "agree" \in sure PROVE Agree
  BY DEF Converged
<1>1. mirrors = EmptyBag /\ \A d \in Ids : inbox[d] = << >> /\ callback[d].pc = "idle"
  BY DEF Quiet, Settled, Still
<1>2. \A d \in Ids : Len(inbox[d]) = 0
  BY <1>1
<1>3. ~Pending
  BY <1>1, <1>2 DEF Pending
<1> QED
  BY <1>3 DEF CarriedInv, AgreeInv

\* Row, documents, tokens, calls and job are of their kinds, and in quiet row and document
\* agree unless a write was lost, in whatever order administrators, applications, devices,
\* mirrors, listener and job came.
THEOREM AccountsAgree == Spec => []AccountsInv
<1>1. Init => TypeInv /\ CarriedInv
  BY TypeInit, CarriedInit
<1>2. TypeInv /\ CarriedInv /\ [Next]_vars => (TypeInv /\ CarriedInv)'
  <2> SUFFICES ASSUME TypeInv, CarriedInv, [Next]_vars PROVE TypeInv' /\ CarriedInv'
    OBVIOUS
  <2> QED
    BY TypeStep, CarriedStep
<1>3. TypeInv /\ CarriedInv => AccountsInv
  BY TypesOK, CarriedConverges DEF AccountsInv
<1> QED
  BY <1>1, <1>2, <1>3, PTL DEF Spec
(***************************************************************************)
(* What is on its way                                                      *)
(***************************************************************************)

\* The versions of d that are there: on their way to the listener; those and the one it has
\* taken; and those that will be written into a row that is there.
Versions(d) == { v \in { inbox[d][n] : n \in 1 .. Len(inbox[d]) } : v.there }
Carries(d) == Versions(d) \cup (IF callback[d].pc = "write" THEN { callback[d].doc } ELSE {})
Coming(d) ==
  Versions(d) \cup (IF callback[d].pc = "write" /\ callback[d].existing THEN { callback[d].doc } ELSE {})

\* The removal of a document is on its way.
Removing == \E n \in 1 .. Len(inbox["auth"]) : ~inbox["auth"][n].there

MirrorTo(d) == \E m \in BagToSet(mirrors) : m.id = d

LEMMA FlowStays ==
  ASSUME UNCHANGED << inbox, callback >>
  PROVE  /\ \A d \in Ids : Carries(d)' = Carries(d) /\ Coming(d)' = Coming(d)
         /\ Removing' = Removing
BY DEF Carries, Coming, Versions, Removing

LEMMA FlowPut ==
  ASSUME DataType, NEW d \in Ids, NEW v \in Docs, PutDoc(d, v), UNCHANGED callback
  PROVE  /\ doc'[d] = v
         /\ \A e \in Ids : e # d => doc'[e] = doc[e] /\ Carries(e)' = Carries(e) /\ Coming(e)' = Coming(e)
         /\ v.there => Carries(d)' = Carries(d) \cup { v } /\ Coming(d)' = Coming(d) \cup { v }
         /\ ~v.there => Carries(d)' = Carries(d) /\ Coming(d)' = Coming(d)
         /\ v.there \/ d # "auth" => Removing' = Removing
         /\ ~v.there /\ d = "auth" => Removing'
<1>1. /\ doc'[d] = v /\ inbox'[d] = Append(inbox[d], v) /\ inbox[d] \in Seq(Docs)
      /\ \A e \in Ids : e # d => doc'[e] = doc[e] /\ inbox'[e] = inbox[e]
  BY PutDocType DEF DataType
<1>2. /\ \A n \in 1 .. Len(inbox'[d]) : inbox'[d][n] = v \/ (n \in 1 .. Len(inbox[d]) /\ inbox'[d][n] = inbox[d][n])
      /\ \A n \in 1 .. Len(inbox[d]) : n \in 1 .. Len(inbox'[d]) /\ inbox'[d][n] = inbox[d][n]
      /\ Len(inbox'[d]) \in 1 .. Len(inbox'[d]) /\ inbox'[d][Len(inbox'[d])] = v
  BY <1>1, AppendLast
<1>3. \A e \in Ids : e # d => Versions(e)' = Versions(e)
  BY <1>1 DEF Versions
<1>4. v.there => Versions(d)' = Versions(d) \cup { v }
  <2> SUFFICES ASSUME v.there PROVE Versions(d)' = Versions(d) \cup { v }
    OBVIOUS
  <2>1. ASSUME NEW w \in Versions(d)' PROVE w \in Versions(d) \cup { v }
    <3>1. PICK n \in 1 .. Len(inbox'[d]) : w = inbox'[d][n] /\ w.there
      BY DEF Versions
    <3> QED
      BY <3>1, <1>2 DEF Versions
  <2>2. ASSUME NEW w \in Versions(d) PROVE w \in Versions(d)'
    <3>1. PICK n \in 1 .. Len(inbox[d]) : w = inbox[d][n] /\ w.there
      BY DEF Versions
    <3>2. n \in 1 .. Len(inbox'[d]) /\ inbox'[d][n] = w
      BY <3>1, <1>2
    <3> QED
      BY <3>1, <3>2 DEF Versions
  <2>3. v \in Versions(d)'
    BY <1>2 DEF Versions
  <2> QED
    BY <2>1, <2>2, <2>3
<1>5. ~v.there => Versions(d)' = Versions(d)
  <2> SUFFICES ASSUME ~v.there PROVE Versions(d)' = Versions(d)
    OBVIOUS
  <2>1. ASSUME NEW w \in Versions(d)' PROVE w \in Versions(d)
    <3>1. PICK n \in 1 .. Len(inbox'[d]) : w = inbox'[d][n] /\ w.there
      BY DEF Versions
    <3> QED
      BY <3>1, <1>2 DEF Versions
  <2>2. ASSUME NEW w \in Versions(d) PROVE w \in Versions(d)'
    <3>1. PICK n \in 1 .. Len(inbox[d]) : w = inbox[d][n] /\ w.there
      BY DEF Versions
    <3>2. n \in 1 .. Len(inbox'[d]) /\ inbox'[d][n] = w
      BY <3>1, <1>2
    <3> QED
      BY <3>1, <3>2 DEF Versions
  <2> QED
    BY <2>1, <2>2
<1>6. v.there \/ d # "auth" => Removing' = Removing
  <2>1. CASE d # "auth"
    BY <1>1, <2>1 DEF Removing, Ids
  <2>2. CASE d = "auth" /\ v.there
    <3>1. Removing => Removing'
      BY <1>2, <2>2 DEF Removing
    <3>2. Removing' => Removing
      BY <1>2, <2>2 DEF Removing
    <3> QED
      BY <3>1, <3>2 DEF Removing
  <2> QED
    BY <2>1, <2>2
<1>7. ~v.there /\ d = "auth" => Removing'
  BY <1>2 DEF Removing
<1> QED
  BY <1>1, <1>3, <1>4, <1>5, <1>6, <1>7 DEF Carries, Coming

\* The listener takes a version.
LEMMA FlowCalled ==
  ASSUME DataType, NEW d \in Ids, Called(d)
  PROVE  /\ \A e \in Ids : Carries(e)' = Carries(e)
         /\ row.there => \A e \in Ids : Coming(e)' = Coming(e)
         /\ Removing' => Removing
         /\ Removing /\ ~Removing' => d = "auth" /\ ~Head(inbox["auth"]).there
<1>0. /\ inbox[d] \in Seq(Docs) /\ inbox[d] # << >> /\ callback[d].pc = "idle"
      /\ callback \in [ Ids -> Callbacks ] /\ inbox \in [ Ids -> Seq(Docs) ] /\ row.there \in BOOLEAN
  BY DEF DataType, Called, Rows
<1>1. PICK v : v = Head(inbox[d])
  OBVIOUS
<1>2. /\ inbox'[d] = Tail(inbox[d]) /\ \A e \in Ids : e # d => inbox'[e] = inbox[e] /\ callback'[e] = callback[e]
      /\ v.there => callback'[d].pc = "write" /\ callback'[d].existing = row.there /\ callback'[d].doc = v
      /\ ~v.there => callback'[d] = callback[d]
  BY <1>0, <1>1 DEF Called
<1>3. /\ \A n \in 1 .. Len(inbox'[d]) : n + 1 \in 1 .. Len(inbox[d]) /\ inbox'[d][n] = inbox[d][n + 1]
      /\ \A n \in 1 .. Len(inbox[d]) : inbox[d][n] = v \/ (n - 1 \in 1 .. Len(inbox'[d]) /\ inbox[d][n] = inbox'[d][n - 1])
      /\ 1 \in 1 .. Len(inbox[d]) /\ v = inbox[d][1]
  BY <1>0, <1>1, <1>2, TailLast
<1>4. \A e \in Ids : e # d => Versions(e)' = Versions(e)
  BY <1>2 DEF Versions
<1>5. Versions(d) = Versions(d)' \cup (IF v.there THEN { v } ELSE {})
  <2>1. ASSUME NEW w \in Versions(d)' PROVE w \in Versions(d)
    <3>1. PICK n \in 1 .. Len(inbox'[d]) : w = inbox'[d][n] /\ w.there
      BY DEF Versions
    <3>2. n + 1 \in 1 .. Len(inbox[d]) /\ inbox[d][n + 1] = w
      BY <3>1, <1>3
    <3> QED
      BY <3>1, <3>2 DEF Versions
  <2>2. ASSUME NEW w \in Versions(d) PROVE w \in Versions(d)' \cup { v } /\ w.there
    <3>1. PICK n \in 1 .. Len(inbox[d]) : w = inbox[d][n] /\ w.there
      BY DEF Versions
    <3>2. w = v \/ (n - 1 \in 1 .. Len(inbox'[d]) /\ inbox'[d][n - 1] = w)
      BY <3>1, <1>3
    <3> QED
      BY <3>1, <3>2 DEF Versions
  <2>3. v.there => v \in Versions(d)
    BY <1>3 DEF Versions
  <2> QED
    BY <2>1, <2>2, <2>3
<1>6. \A e \in Ids : Carries(e)' = Carries(e)
  BY <1>0, <1>2, <1>4, <1>5 DEF Carries
<1>7. row.there => \A e \in Ids : Coming(e)' = Coming(e)
  BY <1>0, <1>2, <1>4, <1>5 DEF Coming
<1>8. Removing' => Removing
  <2>1. CASE d = "auth"
    BY <1>3, <2>1 DEF Removing
  <2>2. CASE d # "auth"
    BY <1>2, <2>2 DEF Removing, Ids
  <2> QED
    BY <2>1, <2>2
<1>9. Removing /\ ~Removing' => d = "auth" /\ ~v.there
  <2> SUFFICES ASSUME Removing, ~Removing' PROVE d = "auth" /\ ~v.there
    OBVIOUS
  <2>1. d = "auth"
    BY <1>2 DEF Removing, Ids
  <2>2. PICK n \in 1 .. Len(inbox["auth"]) : ~inbox["auth"][n].there
    BY DEF Removing
  <2> QED
    BY <1>3, <2>1, <2>2 DEF Removing
<1> QED
  BY <1>1, <1>6, <1>7, <1>8, <1>9

\* The listener has written the version it had.
LEMMA FlowSynced ==
  ASSUME DataType, NEW d \in Ids, SyncUserToPostgres(d), VersionsInv(d)
  PROVE  /\ \A e \in Ids : e # d => Carries(e)' = Carries(e) /\ Coming(e)' = Coming(e)
         /\ Carries(d) = Carries(d)' \cup { callback[d].doc }
         /\ Coming(d) = Coming(d)' \cup (IF callback[d].existing THEN { callback[d].doc } ELSE {})
         /\ Removing' = Removing
         /\ doc[d].there => doc[d] \in Coming(d)' \/ doc[d] = callback[d].doc
         /\ callback[d].doc.there
<1>0. /\ callback[d].pc = "write" /\ callback'[d].pc = "idle" /\ inbox' = inbox
      /\ \A e \in Ids : e # d => callback'[e] = callback[e]
  BY IdleCallbackType DEF DataType, SyncUserToPostgres, documents
<1>1. \A e \in Ids : Versions(e)' = Versions(e)
  BY <1>0 DEF Versions
<1>2. Coming(d)' = Versions(d) /\ Carries(d)' = Versions(d)
  BY <1>0, <1>1 DEF Coming, Carries
<1>3. inbox[d] # << >> => Len(inbox[d]) \in 1 .. Len(inbox[d])
  BY DEF DataType
<1>4. doc[d].there => doc[d] \in Versions(d) \/ doc[d] = callback[d].doc
  BY <1>0, <1>3 DEF VersionsInv, Versions
<1> QED
  BY <1>0, <1>1, <1>2, <1>4 DEF Carries, Coming, Removing, VersionsInv

\* A mirror is added, or taken away.
LEMMA MirrorAdded ==
  ASSUME DataType, NEW r, Write(r)
  PROVE  row' = r /\ BagToSet(mirrors') = BagToSet(mirrors) \cup { MirrorOf(r) } /\ mirrors' # EmptyBag
<1>1. IsABag(mirrors) /\ row' = r /\ mirrors' = mirrors (+) SetToBag({ MirrorOf(r) })
  BY DEF DataType, Write
<1>2. BagToSet(mirrors') = BagToSet(mirrors) \cup { MirrorOf(r) }
  BY <1>1, BagPlus
<1> QED
  BY <1>1, <1>2, BagNone

LEMMA MirrorTaken ==
  ASSUME DataType, NEW m \in BagToSet(mirrors), mirrors' = mirrors (-) SetToBag({ m })
  PROVE  BagToSet(mirrors') \subseteq BagToSet(mirrors) /\ BagToSet(mirrors) \ { m } \subseteq BagToSet(mirrors')
BY BagMinus DEF DataType

LEMMA NoMirror == ASSUME mirrors = EmptyBag PROVE BagToSet(mirrors) = {}
BY BagNone

\* When nothing is on its way.
LEMMA StillFlow ==
  ASSUME Still
  PROVE  /\ mirrors = EmptyBag /\ BagToSet(mirrors) = {} /\ ~Removing
         /\ \A d \in Ids : Carries(d) = {} /\ Coming(d) = {}
<1>1. mirrors = EmptyBag /\ \A d \in Ids : inbox[d] = << >> /\ callback[d].pc = "idle"
  BY DEF Still
<1>2. \A d \in Ids : Len(inbox[d]) = 0
  BY <1>1
<1>3. "auth" \in Ids
  BY DEF Ids
<1> QED
  BY <1>1, <1>2, <1>3, BagNone DEF Carries, Coming, Versions, Removing

(***************************************************************************)
(* What is known of the row and the documents whatever happened            *)
(***************************************************************************)

\* A call at one of these has found or made the row, which nothing takes away again.
Rowed == { "registerLink", "update", "check", "password", "resolve", "linkRow", "doc" }

SessionKnown(x) ==
  /\ x.pc \in Rowed => row.there
  /\ x.pc = "registerCreate" => x.user.there

KnownInv ==
  /\ ~row.there => row.link = "none" /\ expected.link = "auth"
  /\ expected.link \in Ids
  /\ \A d \in Ids : ~doc[d].there => doc[d].status = "none"
  /\ admin.pc # "idle" => row.there
  /\ job.pc = "write" /\ job.existing => row.there
  /\ \A s \in Sessions : SessionKnown(session[s])

(***************************************************************************)
(* What the statements of a call do                                        *)
(***************************************************************************)

\* It changes neither row nor documents.
Looks(s) ==
  /\ UNCHANGED << account, documents, expected >> /\ sure' \subseteq sure /\ (faults # 0 => faults' # 0)
  /\ session[s].pc \notin { "linkRow", "doc" } /\ session'[s].pc \notin { "linkRow", "doc" }
  /\ session'[s].pc \in { "check", "resolve" } =>
       \/ session'[s].user.link = row.link
       \/ session[s].pc \in { "check", "resolve" } /\ session'[s].user.link = session[s].user.link

\* It has resolved the id.
Resolves(s) ==
  /\ UNCHANGED << account, documents, faults >> /\ session[s].pc = "resolve"
  /\ sure' \subseteq sure /\ ("link" \in sure' => Settled /\ Alone(s))
  /\ session'[s].uid \in Ids /\ session'[s].user = session[s].user
  /\ \/ session'[s].pc = "linkRow"
     \/ session'[s].pc = "doc" /\ session'[s].user.link = session'[s].uid
  /\ expected' = [ expected EXCEPT !.link = session'[s].uid ]

\* It writes the row, and may link it.
WritesRow(s, r) ==
  /\ Write(r) /\ row.there /\ r.there /\ r.role = row.role /\ r.status = row.status
  /\ UNCHANGED << documents, faults >> /\ sure' \subseteq sure \ Overtaken
  /\ \/ /\ session[s].pc = "linkRow" /\ expected' = expected /\ r.link = session[s].uid
        /\ session'[s].pc = "doc" /\ session'[s].uid = session[s].uid
        /\ "link" \in sure' => Settled /\ Alone(s)
     \/ /\ session[s].pc \notin { "linkRow", "doc" } /\ expected' = expected /\ r.link = row.link
        /\ session'[s].pc \notin { "linkRow", "doc" }
        /\ session'[s].pc \in { "check", "resolve" } => session'[s].user.link = row.link
     \/ /\ session[s].pc \notin { "linkRow", "doc" } /\ expected' = expected /\ "link" \notin sure'
        /\ session'[s].pc = "tokens"
     \/ /\ session[s].pc \notin { "linkRow", "doc" } /\ expected' = [ expected EXCEPT !.link = "auth" ]
        /\ r.link = "auth" /\ session'[s].pc = "idle"
        /\ "link" \in sure' => Settled /\ Alone(s)

Writes(s) == \E r \in Rows : WritesRow(s, r)

\* It creates the row.
CreatesRow(s, r) ==
  /\ Write(r) /\ ~row.there /\ r.there /\ UNCHANGED << documents, faults >>
  /\ expected' = [ role |-> r.role, status |-> r.status, link |-> MirrorOf(r).id ]
  /\ sure' \subseteq sure
  /\ sure' \cap Fields # {} => Settled /\ \A d \in Ids : ~doc[d].there
  /\ session[s].pc \notin { "linkRow", "doc" }
  /\ session'[s].pc \in { "tokens", "registerLink", "check", "password" } /\ session'[s].user = r

Creates(s) == \E r \in Rows : CreatesRow(s, r)

\* It writes the document of the id it has resolved.
PutsDoc(s, v) ==
  /\ session[s].pc = "doc" /\ session[s].uid \in Ids
  /\ PutDoc(session[s].uid, v) /\ v.there /\ v.status = doc[session[s].uid].status
  /\ UNCHANGED << account, expected, faults >> /\ sure' \subseteq sure
  /\ "role" \in sure' => v.role = expected.role
  /\ session'[s].pc = "idle"

Puts(s) == \E v \in Docs : PutsDoc(s, v)

Call(s) ==
  /\ UNCHANGED << callback, admin, job >>
  /\ \A t \in Sessions \ { s } : session'[t] = session[t]
  /\ SessionKnown(session[s])'
  /\ Looks(s) \/ Resolves(s) \/ Writes(s) \/ Creates(s) \/ Puts(s)

LEMMA GoIs ==
  ASSUME SessionsType, NEW s \in Sessions, NEW x, Go(s, x)
  PROVE  session'[s] = x /\ \A t \in Sessions \ { s } : session'[t] = session[t]
BY DEF Go, SessionsType

LEMMA FinishIs ==
  ASSUME SessionsType, NEW s \in Sessions, Finish(s)
  PROVE  session'[s].pc = "idle" /\ \A t \in Sessions \ { s } : session'[t] = session[t]
BY GoIs DEF Finish, IdleSession

LEMMA StepIs ==
  ASSUME SessionsType, NEW s \in Sessions, NEW pc, Step(s, pc)
  PROVE  /\ session'[s].pc = pc /\ session'[s].user = session[s].user /\ session'[s].uid = session[s].uid
         /\ \A t \in Sessions \ { s } : session'[t] = session[t]
BY DEF Step, SessionsType, SessionStates

LEMMA BeginIs ==
  ASSUME SessionsType, NEW s \in Sessions, NEW pc, NEW kind, NEW user, Begin(s, pc, kind, user)
  PROVE  /\ session'[s].pc = pc /\ session'[s].user = user
         /\ \A t \in Sessions \ { s } : session'[t] = session[t]
BY GoIs DEF Begin

LEMMA NothingIs ==
  ASSUME NoNews
  PROVE  expected' = expected /\ sure' \subseteq sure /\ faults' = faults
BY DEF NoNews

LEMMA CertainIs ==
  ASSUME NEW fields, Certain(fields)
  PROVE  expected' = expected /\ sure' = sure \cap fields /\ faults' = faults
BY DEF Certain

LEMMA FaultIs ==
  ASSUME HistoryType, NEW lost, Fault(lost)
  PROVE  expected' = expected /\ sure' \subseteq sure \ lost /\ faults' # 0 /\ (faults # 0 => sure' = {})
BY FaultKeeps DEF Fault

LEMMA StartLooks ==
  ASSUME TypeInv, KnownInv, NEW s \in Sessions,
         EmailRegister(s) \/ SocialSignIn(s) \/ HandleOAuthCallback(s) \/ RefreshToken(s)
           \/ GetCurrentUser(s) \/ FirebaseSyncPassword(s)
  PROVE  Call(s)
<1>0. SessionsType
  BY DEF TypeInv
<1>1. UNCHANGED << account, documents, callback, admin, job >> /\ NoNews /\ session[s].pc = "idle"
  BY DEF EmailRegister, SocialSignIn, HandleOAuthCallback, RefreshToken, GetCurrentUser, FirebaseSyncPassword, external, Starts
<1>2. UNCHANGED << row, callback, admin, job, expected, faults >> /\ sure' \subseteq sure
  BY <1>1, NothingIs DEF account
<1>3. PICK pc, kind, user :
        /\ Begin(s, pc, kind, user)
        /\ \/ pc = "registerCreate" /\ user.there
           \/ pc \in { "find", "skeleton" }
           \/ pc \in { "check", "resolve", "password" } /\ row.there /\ user = row
  <2>1. CASE EmailRegister(s)
    <3>1. PICK user : user.there /\ Begin(s, "registerCreate", "register", user)
      BY <2>1 DEF EmailRegister, NewRow
    <3> QED
      BY <3>1
  <2>2. CASE SocialSignIn(s)
    BY <2>2 DEF SocialSignIn
  <2>3. CASE HandleOAuthCallback(s)
    BY <2>3 DEF HandleOAuthCallback
  <2>4. CASE RefreshToken(s)
    BY <2>4 DEF RefreshToken
  <2>5. CASE GetCurrentUser(s)
    BY <2>5 DEF GetCurrentUser
  <2>6. CASE FirebaseSyncPassword(s)
    BY <2>6 DEF FirebaseSyncPassword
  <2> QED
    BY <2>1, <2>2, <2>3, <2>4, <2>5, <2>6
<1>4. /\ session'[s].pc = pc /\ session'[s].user = user
      /\ \A t \in Sessions \ { s } : session'[t] = session[t]
  BY <1>0, <1>3, BeginIs
<1>5. Looks(s)
  BY <1>1, <1>2, <1>3, <1>4 DEF Looks
<1>6. SessionKnown(session[s])'
  BY <1>2, <1>3, <1>4 DEF SessionKnown, Rowed
<1> QED
  BY <1>2, <1>4, <1>5, <1>6 DEF Call

LEMMA EmailLoginCalls == ASSUME TypeInv, KnownInv, NEW s \in Sessions, EmailLogin(s) PROVE Call(s)
<1>0. SessionsType /\ row \in Rows /\ UNCHANGED << documents, callback, admin, job >> /\ session[s].pc = "idle"
  BY DEF TypeInv, DataType, EmailLogin, Starts
<1>1. session'[s].pc = "find" /\ \A t \in Sessions \ { s } : session'[t] = session[t]
  BY <1>0, BeginIs DEF EmailLogin
<1>2. SessionKnown(session[s])'
  BY <1>1 DEF SessionKnown, Rowed
<1>3. CASE UNCHANGED << account, external >> /\ NoNews
  <2>1. UNCHANGED << account, expected, faults >> /\ sure' \subseteq sure
    BY <1>3, NothingIs
  <2>2. Looks(s)
    BY <1>0, <1>1, <2>1 DEF Looks
  <2> QED
    BY <1>0, <1>1, <1>2, <2>2 DEF Call
<1>4. CASE row.there /\ Write([ row EXCEPT !.supabase = TRUE ]) /\ CertainButOvertaken
  <2>1. PICK r : r = [ row EXCEPT !.supabase = TRUE ]
    OBVIOUS
  <2>2. r \in Rows /\ r.there = row.there /\ r.role = row.role /\ r.status = row.status /\ r.link = row.link
    BY <1>0, <2>1 DEF Rows
  <2>3. expected' = expected /\ faults' = faults /\ sure' \subseteq sure \ Overtaken
    BY <1>4, CertainIs DEF CertainButOvertaken
  <2>4. WritesRow(s, r)
    BY <1>0, <1>1, <1>4, <2>1, <2>2, <2>3 DEF WritesRow
  <2> QED
    BY <1>0, <1>1, <1>2, <2>2, <2>4 DEF Call, Writes
<1> QED
  BY <1>3, <1>4 DEF EmailLogin

LEMMA CreateRowCalls ==
  ASSUME TypeInv, KnownInv, NEW s \in Sessions, NEW r \in Rows, r.there,
         NEW next \in { "tokens", "registerLink", "check", "password" },
         CreateRow(s, r, next), UNCHANGED << documents, callback, admin, job >>,
         session[s].pc \notin { "linkRow", "doc" }
  PROVE  Call(s)
<1>0. SessionsType /\ session[s] \in SessionStates /\ DataType
  BY DEF TypeInv, SessionsType
<1>1. CASE row.there
  <2>1. Finish(s) /\ UNCHANGED account /\ NoNews
    BY <1>1 DEF CreateRow
  <2>2. session'[s].pc = "idle" /\ \A t \in Sessions \ { s } : session'[t] = session[t]
    BY <1>0, <2>1, FinishIs
  <2>3. UNCHANGED << account, expected, faults >> /\ sure' \subseteq sure
    BY <2>1, NothingIs
  <2>4. Looks(s) /\ SessionKnown(session[s])'
    BY <2>2, <2>3 DEF Looks, SessionKnown, Rowed
  <2> QED
    BY <2>2, <2>4 DEF Call
<1>2. CASE ~row.there
  <2>1. /\ Write(r) /\ Go(s, [ session[s] EXCEPT !.pc = next, !.user = r ])
        /\ expected' = [ role |-> r.role, status |-> r.status, link |-> MirrorOf(r).id ]
        /\ sure' = IF Settled /\ \A d \in Ids : ~doc[d].there THEN sure ELSE sure \ Fields
        /\ UNCHANGED faults
    BY <1>2 DEF CreateRow
  <2>2. PICK x : x = [ session[s] EXCEPT !.pc = next, !.user = r ]
    OBVIOUS
  <2>3. x.pc = next /\ x.user = r
    BY <1>0, <2>2 DEF SessionStates
  <2>4. session'[s] = x /\ \A t \in Sessions \ { s } : session'[t] = session[t]
    BY <1>0, <2>1, <2>2, GoIs
  <2>5. sure' \subseteq sure /\ (sure' \cap Fields # {} => Settled /\ \A d \in Ids : ~doc[d].there)
    BY <2>1
  <2>6. CreatesRow(s, r)
    BY <1>2, <2>1, <2>3, <2>4, <2>5 DEF CreatesRow
  <2>7. row' = r
    BY <2>1 DEF Write
  <2>8. SessionKnown(session[s])'
    BY <2>3, <2>4, <2>7 DEF SessionKnown
  <2> QED
    BY <2>4, <2>6, <2>8 DEF Call, Creates
<1> QED
  BY <1>1, <1>2

LEMMA CreateCalls ==
  ASSUME TypeInv, KnownInv, NEW s \in Sessions, RegisterCreate(s) \/ CreateFound(s) \/ CreateSkeleton(s)
  PROVE  Call(s)
<1>0. /\ session[s].user \in Rows /\ TokenType /\ HistoryType
      /\ session[s].pc = "create" => session[s].kind \in { "login", "social", "oauth" } /\ supabase # "none"
      /\ session[s].pc = "registerCreate" => session[s].user.there
  BY DEF TypeInv, SessionsType, SessionType, SessionStates, KnownInv, SessionKnown
<1>1. CASE RegisterCreate(s)
  <2>1. PICK next \in { "tokens", "registerLink", "check", "password" } : CreateRow(s, session[s].user, next)
    BY <1>1 DEF RegisterCreate
  <2> QED
    BY <1>0, <1>1, <2>1, CreateRowCalls DEF RegisterCreate
<1>2. CASE CreateFound(s)
  <2>1. PICK role \in RolesAtSignIn(session[s].kind) :
          CreateRow(s, NewRow(role, "ACTIVE", "none", TRUE), AfterSignIn(session[s].kind))
    BY <1>2 DEF CreateFound
  <2>2. session[s].pc = "create" /\ UNCHANGED << documents, callback, admin, job >>
    BY <1>2 DEF CreateFound
  <2>3. role \in Roles
    BY <1>0, <2>1, <2>2, ScenarioType DEF RolesAtSignIn, TokenType, Roles
  <2>4. PICK r : r = NewRow(role, "ACTIVE", "none", TRUE)
    OBVIOUS
  <2>5. r \in Rows /\ r.there
    BY <2>3, <2>4, NewRowType DEF Statuses
  <2>6. AfterSignIn(session[s].kind) \in { "tokens", "registerLink", "check", "password" }
    BY DEF AfterSignIn
  <2> QED
    BY <2>1, <2>2, <2>4, <2>5, <2>6, CreateRowCalls
<1>3. CASE CreateSkeleton(s)
  <2>1. PICK r : r = NewRow("VENDOR", "ACTIVE", "auth", FALSE)
    OBVIOUS
  <2>2. r \in Rows /\ r.there
    BY <2>1, NewRowType DEF Roles, Statuses, Ids
  <2> QED
    BY <1>3, <2>1, <2>2, CreateRowCalls DEF CreateSkeleton
<1> QED
  BY <1>1, <1>2, <1>3

LEMMA RegisterLinkCalls == ASSUME TypeInv, KnownInv, NEW s \in Sessions, RegisterLink(s) PROVE Call(s)
<1>0. SessionsType /\ row \in Rows /\ HistoryType /\ UNCHANGED << documents, callback, admin, job >> /\ session[s].pc = "registerLink"
  BY DEF TypeInv, DataType, RegisterLink
<1>1. session'[s].pc = "tokens" /\ \A t \in Sessions \ { s } : session'[t] = session[t]
  BY <1>0, StepIs DEF RegisterLink
<1>2. SessionKnown(session[s])' /\ row.there
  BY <1>0, <1>1 DEF SessionKnown, Rowed, KnownInv
<1>3. CASE UNCHANGED account /\ Fault({})
  <2>1. UNCHANGED << account, expected >> /\ sure' \subseteq sure /\ faults' # 0
    BY <1>0, <1>3, FaultIs
  <2>2. Looks(s)
    BY <1>0, <1>1, <2>1 DEF Looks
  <2> QED
    BY <1>0, <1>1, <1>2, <2>2 DEF Call
<1>4. CASE Write([ row EXCEPT !.link = "auth" ]) /\ Certain(((Fields \cup { "agree" }) \ { "link" }) \ Overtaken)
  <2>1. PICK r : r = [ row EXCEPT !.link = "auth" ]
    OBVIOUS
  <2>2. r \in Rows /\ r.there = row.there /\ r.role = row.role /\ r.status = row.status
    BY <1>0, <2>1 DEF Rows, Ids
  <2>3. expected' = expected /\ faults' = faults /\ sure' \subseteq sure \ Overtaken /\ "link" \notin sure'
    BY <1>4, CertainIs
  <2>4. WritesRow(s, r)
    BY <1>0, <1>1, <1>2, <1>4, <2>1, <2>2, <2>3 DEF WritesRow
  <2> QED
    BY <1>0, <1>1, <1>2, <2>2, <2>4 DEF Call, Writes
<1> QED
  BY <1>3, <1>4 DEF RegisterLink

LEMMA FindUserCalls == ASSUME TypeInv, KnownInv, NEW s \in Sessions, FindUser(s) PROVE Call(s)
<1>0. /\ SessionsType /\ session[s] \in SessionStates /\ session[s].pc = "find"
      /\ UNCHANGED << account, documents, callback, admin, job >> /\ NoNews
  BY DEF TypeInv, SessionsType, FindUser
<1>1. PICK pc : /\ Go(s, [ session[s] EXCEPT !.user = row, !.pc = pc ])
                /\ pc = "create" \/ (row.there /\ pc \in { "check", "update" })
  BY DEF FindUser
<1>2. PICK x : x = [ session[s] EXCEPT !.user = row, !.pc = pc ]
  OBVIOUS
<1>3. x.pc = pc /\ x.user = row
  BY <1>0, <1>2 DEF SessionStates
<1>4. session'[s] = x /\ \A t \in Sessions \ { s } : session'[t] = session[t]
  BY <1>0, <1>1, <1>2, GoIs
<1>5. UNCHANGED << row, expected, faults >> /\ sure' \subseteq sure
  BY <1>0, NothingIs DEF account
<1>6. Looks(s)
  BY <1>0, <1>1, <1>3, <1>4, <1>5 DEF Looks
<1>7. SessionKnown(session[s])'
  BY <1>1, <1>3, <1>4, <1>5 DEF SessionKnown, Rowed
<1> QED
  BY <1>0, <1>4, <1>6, <1>7 DEF Call

LEMMA UpdateFoundCalls == ASSUME TypeInv, KnownInv, NEW s \in Sessions, UpdateFound(s) PROVE Call(s)
<1>0. /\ SessionsType /\ session[s] \in SessionStates /\ row \in Rows /\ UNCHANGED << documents, callback, admin, job >>
      /\ session[s].pc = "update" /\ CertainButOvertaken
  BY DEF TypeInv, DataType, SessionsType, UpdateFound
<1>1. PICK r : r = [ row EXCEPT !.supabase = TRUE ]
  OBVIOUS
<1>2. Write(r) /\ Go(s, [ session[s] EXCEPT !.user = r, !.pc = AfterSignIn(session[s].kind) ])
  BY <1>1 DEF UpdateFound
<1>3. r \in Rows /\ r.there = row.there /\ r.role = row.role /\ r.status = row.status /\ r.link = row.link
  BY <1>0, <1>1 DEF Rows
<1>4. PICK x : x = [ session[s] EXCEPT !.user = r, !.pc = AfterSignIn(session[s].kind) ]
  OBVIOUS
<1>5. x.pc \in { "check", "tokens" } /\ x.user = r
  BY <1>0, <1>4 DEF SessionStates, AfterSignIn
<1>6. session'[s] = x /\ \A t \in Sessions \ { s } : session'[t] = session[t]
  BY <1>0, <1>2, <1>4, GoIs
<1>7. expected' = expected /\ faults' = faults /\ sure' \subseteq sure \ Overtaken
  BY <1>0, CertainIs DEF CertainButOvertaken
<1>8. row.there /\ row' = r
  BY <1>0, <1>2 DEF KnownInv, SessionKnown, Rowed, Write
<1>9. WritesRow(s, r)
  BY <1>0, <1>2, <1>3, <1>5, <1>6, <1>7, <1>8 DEF WritesRow
<1>10. SessionKnown(session[s])'
  BY <1>3, <1>5, <1>6, <1>8 DEF SessionKnown, Rowed
<1> QED
  BY <1>0, <1>3, <1>6, <1>9, <1>10 DEF Call, Writes

LEMMA TokensCall ==
  ASSUME TypeInv, KnownInv, NEW s \in Sessions, CheckBan(s) \/ IssueTokens(s)
  PROVE  Call(s)
<1>0. /\ SessionsType /\ session[s].pc \in { "check", "tokens" }
      /\ UNCHANGED << account, documents, callback, admin, job >> /\ NoNews
  BY DEF TypeInv, CheckBan, IssueTokens
<1>1. UNCHANGED << row, expected, faults >> /\ sure' \subseteq sure
  BY <1>0, NothingIs DEF account
<1>2. CASE Finish(s)
  <2>1. session'[s].pc = "idle" /\ \A t \in Sessions \ { s } : session'[t] = session[t]
    BY <1>0, <1>2, FinishIs
  <2>2. Looks(s) /\ SessionKnown(session[s])'
    BY <1>0, <1>1, <2>1 DEF Looks, SessionKnown, Rowed
  <2> QED
    BY <1>0, <2>1, <2>2 DEF Call
<1>3. CASE session[s].pc = "check" /\ Step(s, "resolve")
  <2>1. /\ session'[s].pc = "resolve" /\ session'[s].user = session[s].user
        /\ \A t \in Sessions \ { s } : session'[t] = session[t]
    BY <1>0, <1>3, StepIs
  <2>2. row.there
    BY <1>3 DEF KnownInv, SessionKnown, Rowed
  <2>3. Looks(s) /\ SessionKnown(session[s])'
    BY <1>0, <1>1, <1>3, <2>1, <2>2 DEF Looks, SessionKnown, Rowed
  <2> QED
    BY <1>0, <2>1, <2>3 DEF Call
<1> QED
  BY <1>2, <1>3 DEF CheckBan, IssueTokens

LEMMA ResolveIdCalls == ASSUME TypeInv, KnownInv, NEW s \in Sessions, ResolveId(s) PROVE Call(s)
<1>0. /\ SessionsType /\ session[s] \in SessionStates /\ session[s].user \in Rows
      /\ UNCHANGED << account, documents, callback, admin, job >> /\ session[s].pc = "resolve"
  BY DEF TypeInv, SessionsType, SessionStates, ResolveId
<1>1. row.there /\ row' = row
  BY <1>0 DEF KnownInv, SessionKnown, Rowed, account
<1>2. CASE session[s].user.role = "CUSTOMER"
  <2>1. Finish(s) /\ NoNews
    BY <1>2 DEF ResolveId
  <2>2. session'[s].pc = "idle" /\ \A t \in Sessions \ { s } : session'[t] = session[t]
    BY <1>0, <2>1, FinishIs
  <2>3. UNCHANGED << expected, faults >> /\ sure' \subseteq sure
    BY <2>1, NothingIs
  <2>4. Looks(s) /\ SessionKnown(session[s])'
    BY <1>0, <2>2, <2>3 DEF Looks, SessionKnown, Rowed
  <2> QED
    BY <1>0, <2>2, <2>4 DEF Call
<1>3. CASE session[s].user.role # "CUSTOMER"
  <2>1. PICK uid : uid = ResolvedId(session[s].user)
    OBVIOUS
  <2>2. uid \in Ids
    BY <1>0, <2>1, IdType
  <2>3. PICK pc : /\ Go(s, [ session[s] EXCEPT !.uid = uid, !.pc = pc ])
                  /\ pc = "linkRow" \/ (pc = "doc" /\ session[s].user.link = uid)
    BY <1>3, <2>1 DEF ResolveId
  <2>4. PICK x : x = [ session[s] EXCEPT !.uid = uid, !.pc = pc ]
    OBVIOUS
  <2>5. x.pc = pc /\ x.uid = uid /\ x.user = session[s].user
    BY <1>0, <2>4 DEF SessionStates
  <2>6. session'[s] = x /\ \A t \in Sessions \ { s } : session'[t] = session[t]
    BY <1>0, <2>3, <2>4, GoIs
  <2>7. /\ expected' = [ expected EXCEPT !.link = uid ] /\ faults' = faults
        /\ sure' = IF Settled /\ Alone(s) THEN sure ELSE sure \ { "link" }
    BY <1>3, <2>1 DEF ResolveId
  <2>8. sure' \subseteq sure /\ ("link" \in sure' => Settled /\ Alone(s))
    BY <2>7
  <2>9. Resolves(s)
    BY <1>0, <2>2, <2>3, <2>5, <2>6, <2>7, <2>8 DEF Resolves
  <2>10. SessionKnown(session[s])'
    BY <1>1, <2>3, <2>5, <2>6 DEF SessionKnown
  <2> QED
    BY <1>0, <2>6, <2>9, <2>10 DEF Call
<1> QED
  BY <1>2, <1>3

LEMMA LinkRowCalls == ASSUME TypeInv, KnownInv, NEW s \in Sessions, LinkRow(s) PROVE Call(s)
<1>0. /\ SessionsType /\ row \in Rows /\ UNCHANGED << documents, callback, admin, job >> /\ session[s].pc = "linkRow"
      /\ session[s].uid \in Ids
  BY DEF TypeInv, DataType, SessionsType, SessionType, LinkRow
<1>1. /\ session'[s].pc = "doc" /\ session'[s].uid = session[s].uid
      /\ \A t \in Sessions \ { s } : session'[t] = session[t]
  BY <1>0, StepIs DEF LinkRow
<1>2. PICK r : r = [ row EXCEPT !.link = session[s].uid ]
  OBVIOUS
<1>3. Write(r) /\ row.there /\ row' = r
  BY <1>0, <1>2 DEF LinkRow, KnownInv, SessionKnown, Rowed, Write
<1>4. r \in Rows /\ r.there = row.there /\ r.role = row.role /\ r.status = row.status /\ r.link = session[s].uid
  BY <1>0, <1>2 DEF Rows
<1>5. Certain(((IF Settled /\ Alone(s) THEN Fields ELSE Fields \ { "link" }) \cup { "agree" }) \ Overtaken)
  BY DEF LinkRow
<1>6. expected' = expected /\ faults' = faults /\ sure' \subseteq sure \ Overtaken
      /\ ("link" \in sure' => Settled /\ Alone(s))
  BY <1>5, CertainIs
<1>7. WritesRow(s, r)
  BY <1>0, <1>1, <1>3, <1>4, <1>6 DEF WritesRow
<1>8. SessionKnown(session[s])'
  BY <1>1, <1>3, <1>4 DEF SessionKnown
<1> QED
  BY <1>0, <1>1, <1>4, <1>7, <1>8 DEF Call, Writes

LEMMA WriteUsersDocCalls == ASSUME TypeInv, KnownInv, NEW s \in Sessions, WriteUsersDoc(s) PROVE Call(s)
<1>0. /\ SessionsType /\ UNCHANGED << account, callback, admin, job >> /\ session[s].pc = "doc"
      /\ session[s].user.role \in Roles /\ session[s].uid \in Ids /\ doc \in [ Ids -> Docs ]
  BY DEF TypeInv, DataType, SessionsType, SessionType, SessionStates, Rows, WriteUsersDoc
<1>1. session'[s].pc = "idle" /\ \A t \in Sessions \ { s } : session'[t] = session[t]
  BY <1>0, FinishIs DEF WriteUsersDoc
<1>2. PICK v : v = Doc(session[s].user.role, doc[session[s].uid].status)
  OBVIOUS
<1>3. v \in Docs /\ v.there /\ v.role = session[s].user.role /\ v.status = doc[session[s].uid].status
  BY <1>0, <1>2, DocType DEF Docs, Doc
<1>4. PutDoc(session[s].uid, v)
  BY <1>2 DEF WriteUsersDoc
<1>5. UNCHANGED << expected, faults >> /\ sure' \subseteq sure /\ ("role" \in sure' => session[s].user.role = expected.role)
  BY NothingIs, CertainIs DEF WriteUsersDoc
<1>6. PutsDoc(s, v)
  BY <1>0, <1>1, <1>3, <1>4, <1>5 DEF PutsDoc
<1>7. SessionKnown(session[s])'
  BY <1>1 DEF SessionKnown, Rowed
<1> QED
  BY <1>0, <1>1, <1>3, <1>6, <1>7 DEF Call, Puts

LEMMA SyncPasswordCalls == ASSUME TypeInv, KnownInv, NEW s \in Sessions, SyncPassword(s) PROVE Call(s)
<1>0. SessionsType /\ row \in Rows /\ UNCHANGED << documents, callback, admin, job >> /\ session[s].pc = "password"
  BY DEF TypeInv, DataType, SyncPassword
<1>1. session'[s].pc = "idle" /\ \A t \in Sessions \ { s } : session'[t] = session[t]
  BY <1>0, FinishIs DEF SyncPassword
<1>2. SessionKnown(session[s])' /\ row.there
  BY <1>0, <1>1 DEF SessionKnown, Rowed, KnownInv
<1>3. CASE UNCHANGED account /\ NoNews
  <2>1. UNCHANGED << expected, faults >> /\ sure' \subseteq sure
    BY <1>3, NothingIs
  <2>2. Looks(s)
    BY <1>0, <1>1, <1>3, <2>1 DEF Looks
  <2> QED
    BY <1>0, <1>1, <1>2, <2>2 DEF Call
<1>4. CASE /\ Write([ row EXCEPT !.supabase = TRUE, !.link = "auth" ])
           /\ expected' = [ expected EXCEPT !.link = "auth" ] /\ faults' = faults
           /\ sure' = (IF Settled /\ Alone(s) THEN sure ELSE sure \ { "link" }) \ Overtaken
  <2>1. PICK r : r = [ row EXCEPT !.supabase = TRUE, !.link = "auth" ]
    OBVIOUS
  <2>2. r \in Rows /\ r.there = row.there /\ r.role = row.role /\ r.status = row.status /\ r.link = "auth"
    BY <1>0, <2>1 DEF Rows, Ids
  <2>3. sure' \subseteq sure \ Overtaken /\ ("link" \in sure' => Settled /\ Alone(s))
    BY <1>4
  <2>4. WritesRow(s, r)
    BY <1>0, <1>1, <1>2, <1>4, <2>1, <2>2, <2>3 DEF WritesRow
  <2> QED
    BY <1>0, <1>1, <1>2, <2>2, <2>4 DEF Call, Writes
<1> QED
  BY <1>3, <1>4 DEF SyncPassword

LEMMA CallIs == ASSUME TypeInv, KnownInv, NEW s \in Sessions, Start(s) \/ Continue(s) PROVE Call(s)
BY StartLooks, EmailLoginCalls, CreateCalls, RegisterLinkCalls, FindUserCalls, UpdateFoundCalls, TokensCall,
   ResolveIdCalls, LinkRowCalls, WriteUsersDocCalls, SyncPasswordCalls DEF Start, Continue


(***************************************************************************)
(* What the other steps do                                                 *)
(***************************************************************************)

\* The documents the job has yet to carry.
JobHas ==
  (IF job.pc \in { "users", "write" } THEN job.todo ELSE {}) \cup (IF job.pc = "write" THEN { job.of } ELSE {})

Expects(role, status, link) == expected'.role = role /\ expected'.status = status /\ expected'.link = link
ExpectsSame == Expects(expected.role, expected.status, expected.link)

\* Only tokens change.
Rests == UNCHANGED << account, documents, callback, session, admin, job, faults, expected, sure >>

\* An administrator sets the status.
AsksStatus(status) ==
  /\ UNCHANGED << account, documents, callback, session, job, faults >>
  /\ admin.pc = "idle" /\ row.there
  /\ admin'.pc = "row" /\ admin'.link = row.link /\ admin'.status = status
  /\ Expects(expected.role, status, expected.link) /\ sure' \subseteq sure
  /\ sure' \cap Fields # {} => Settled /\ OneDocument

\* The row is written where it is.
Rewrites(r) ==
  /\ Write(r) /\ row.there /\ r \in Rows /\ r.there /\ r.link = row.link
  /\ UNCHANGED << documents, callback, session, job, faults >> /\ sure' \subseteq sure

GivesRole(r) ==
  /\ Rewrites(r) /\ r.status = row.status /\ UNCHANGED admin
  /\ Expects(r.role, expected.status, expected.link)
  /\ sure' \cap Fields # {} => Settled /\ OneDocument

Deletes(r) ==
  /\ Rewrites(r) /\ r.status = row.status /\ r.role = row.role /\ UNCHANGED admin
  /\ ExpectsSame /\ sure' \subseteq sure \ Overtaken

GivesStatus(r) ==
  /\ Rewrites(r) /\ r.status = admin.status /\ r.role = row.role
  /\ admin.pc = "row" /\ admin'.pc = "doc" /\ admin'.link = admin.link /\ admin'.status = admin.status
  /\ ExpectsSame /\ ("status" \in sure' => Still /\ row.link = admin.link)

\* The status goes into the document, or there is none, or Firebase did not answer.
PutsStatus(v) ==
  /\ admin.link \in Ids /\ doc[admin.link].there /\ PutDoc(admin.link, v)
  /\ v.there /\ v.role = doc[admin.link].role /\ v.status = admin.status

EndsStatus ==
  /\ admin.pc = "doc" /\ admin'.pc = "idle" /\ UNCHANGED << account, callback, session, job >>
  /\ ExpectsSame /\ sure' \subseteq sure
  /\ \/ (\E v \in Docs : PutsStatus(v)) /\ UNCHANGED faults
     \/ UNCHANGED << documents, faults >> /\ ~(admin.link \in Ids /\ doc[admin.link].there)
     \/ UNCHANGED documents /\ faults' # 0 /\ (faults # 0 => sure' = {})

\* Somebody writes the document of the Auth account, or removes it.
AppPuts(v) ==
  /\ PutDoc("auth", v) /\ v.there /\ v.role \in Roles /\ v.status \in Statuses
  /\ UNCHANGED << account, callback, session, admin, job, faults >>
  /\ Expects(v.role, v.status, "auth") /\ sure' \subseteq sure
  /\ sure' \cap Fields # {} => Quiet /\ \A d \in Ids : doc[d].there => d = "auth"

AppTakes(v) ==
  /\ doc["auth"].there /\ PutDoc("auth", v) /\ ~v.there /\ v.status = "none"
  /\ UNCHANGED << account, callback, session, admin, job, faults >>
  /\ Expects(expected.role, "BANNED", expected.link) /\ sure' \subseteq sure
  /\ sure' \cap Fields # {} => Quiet /\ OneDocument

\* Mirrors.
MirrorPuts(m, v) ==
  /\ PutDoc(m.id, v) /\ v.there /\ v.role = m.role /\ v.status = m.status
  /\ mirrors' = mirrors (-) SetToBag({ m })
  /\ UNCHANGED << row, callback, session, admin, job, faults, expected, sure >>

Loses(m) ==
  /\ mirrors' = mirrors (-) SetToBag({ m })
  /\ UNCHANGED << row, documents, callback, session, admin, job, expected >>
  /\ sure' \subseteq sure \ { "role", "link" } /\ faults' # 0 /\ (faults # 0 => sure' = {})

\* The job.
JobBegins ==
  /\ UNCHANGED << account, documents, callback, session, admin, faults, expected >>
  /\ job.pc = "idle" /\ job'.pc = "users" /\ job'.snapshot = doc /\ JobHas' = { d \in Ids : doc[d].there }
  /\ sure' \subseteq sure /\ (sure' \cap Fields # {} => Settled /\ OneDocument)
  /\ "link" \in sure' => SessionsIdle

JobGoes ==
  /\ UNCHANGED << account, documents, callback, session, admin, faults, expected, sure >>
  /\ job.pc # "idle" /\ JobHas' \subseteq JobHas /\ (job'.pc # "idle" => job'.snapshot = job.snapshot)

JobCarries ==
  /\ job.pc = "write" /\ job.of \in Ids /\ job.of \in JobHas
  /\ job.existing \/ ~row.there
  /\ Write(SyncedRow(job.existing, job.of, job.snapshot[job.of]))
  /\ UNCHANGED << documents, callback, session, admin, faults, expected, sure >>
  /\ JobHas' \subseteq JobHas /\ job'.pc # "idle" /\ job'.snapshot = job.snapshot

JobBans ==
  /\ job.pc # "idle" /\ job'.pc = "idle" /\ JobHas' = {}
  /\ row' = Banned(row)
  /\ UNCHANGED << mirrors, documents, callback, session, admin, faults >>
  /\ expected'.role = expected.role /\ expected'.link = expected.link /\ sure' \subseteq sure
  /\ "status" \in sure' => expected'.status = "BANNED" /\ Still /\ \A d \in Ids : ~doc[d].there

Form ==
  \/ \E s \in Sessions : Call(s)
  \/ Rests
  \/ \E status \in Statuses : AsksStatus(status)
  \/ \E r \in Rows : GivesRole(r) \/ Deletes(r) \/ GivesStatus(r)
  \/ EndsStatus
  \/ \E v \in Docs : AppPuts(v) \/ AppTakes(v)
  \/ \E m \in BagToSet(mirrors) : (\E v \in Docs : MirrorPuts(m, v)) \/ Loses(m)
  \/ \E d \in Ids : Called(d) \/ SyncUserToPostgres(d)
  \/ JobBegins \/ JobGoes \/ JobCarries \/ JobBans
  \/ sure' = {}

\* How what is known of row and documents is kept.
RowKnown == (~row.there => row.link = "none" /\ expected.link = "auth") /\ expected.link \in Ids
DocsKnown == \A d \in Ids : ~doc[d].there => doc[d].status = "none"

LEMMA KnownKept ==
  ASSUME KnownInv, row.there => row'.there, RowKnown', DocsKnown', admin'.pc # "idle" => admin.pc # "idle" \/ row.there,
         job' = job \/ (job'.pc = "write" /\ job'.existing => row.there),
         session' = session
  PROVE  KnownInv'
<1>1. ASSUME NEW s \in Sessions PROVE SessionKnown(session[s])'
  <2>1. SessionKnown(session[s])
    BY DEF KnownInv
  <2> QED
    BY <2>1 DEF SessionKnown, Rowed
<1> QED
  BY <1>1 DEF KnownInv, RowKnown, DocsKnown

LEMMA RowKnownStays ==
  ASSUME KnownInv, row'.there \/ row' = row, expected'.link \in { expected.link, "auth" }
  PROVE  RowKnown'
BY DEF KnownInv, RowKnown, Ids

LEMMA DocsKnownStay ==
  ASSUME DataType, KnownInv, NEW d \in Ids, NEW v \in Docs, PutDoc(d, v), ~v.there => v.status = "none"
  PROVE  DocsKnown'
<1>1. doc'[d] = v /\ \A e \in Ids : e # d => doc'[e] = doc[e]
  BY PutDocType
<1> QED
  BY <1>1 DEF KnownInv, DocsKnown

LEMMA CallKnown == ASSUME TypeInv, KnownInv, NEW s \in Sessions, Call(s) PROVE KnownInv'
<1>0. DataType /\ SessionsType /\ expected \in Expectations /\ row.there \in BOOLEAN
  BY DEF TypeInv, DataType, HistoryType, Rows
<1>1. (row.there => row'.there) /\ RowKnown' /\ DocsKnown'
  <2>1. CASE Looks(s)
    BY <2>1 DEF Looks, account, documents, KnownInv, RowKnown, DocsKnown
  <2>2. CASE Resolves(s)
    <3>1. row.there
      BY <2>2 DEF Resolves, KnownInv, SessionKnown, Rowed
    <3>2. expected'.link \in Ids
      BY <1>0, <2>2 DEF Resolves, Expectations
    <3> QED
      BY <2>2, <3>1, <3>2 DEF Resolves, account, documents, KnownInv, RowKnown, DocsKnown
  <2>3. CASE Writes(s)
    <3>1. expected'.link \in { expected.link, "auth" }
      BY <1>0, <2>3 DEF Writes, WritesRow, Expectations
    <3>2. row'.there /\ doc' = doc
      BY <2>3 DEF Writes, WritesRow, Write, documents
    <3> QED
      BY <3>1, <3>2, RowKnownStays DEF KnownInv, DocsKnown
  <2>4. CASE Creates(s)
    <3>1. PICK r \in Rows : CreatesRow(s, r)
      BY <2>4 DEF Creates
    <3>2. expected'.link \in Ids
      BY <3>1, MirrorType DEF CreatesRow, Mirrors
    <3> QED
      BY <3>1, <3>2 DEF CreatesRow, Write, documents, KnownInv, RowKnown, DocsKnown
  <2>5. CASE Puts(s)
    <3>1. PICK v \in Docs : PutsDoc(s, v)
      BY <2>5 DEF Puts
    <3>2. DocsKnown'
      BY <1>0, <3>1, DocsKnownStay DEF PutsDoc
    <3>3. RowKnown' /\ row' = row
      BY <3>1 DEF PutsDoc, account, KnownInv, RowKnown
    <3> QED
      BY <3>2, <3>3
  <2> QED
    BY <2>1, <2>2, <2>3, <2>4, <2>5 DEF Call
<1>2. ASSUME NEW t \in Sessions PROVE SessionKnown(session[t])'
  <2>1. CASE t = s
    BY <2>1 DEF Call
  <2>2. CASE t # s
    <3>1. session'[t] = session[t] /\ SessionKnown(session[t])
      BY <2>2 DEF Call, KnownInv
    <3> QED
      BY <1>1, <3>1 DEF SessionKnown
  <2> QED
    BY <2>1, <2>2
<1>3. admin' = admin /\ job' = job
  BY DEF Call
<1> QED
  BY <1>1, <1>2, <1>3 DEF KnownInv, RowKnown, DocsKnown

LEMMA InputIs ==
  ASSUME HistoryType, NEW values, NEW certain, Input(values, certain)
  PROVE  expected' = values /\ faults' = faults /\ sure' \subseteq sure /\ sure' \cap Fields \subseteq certain
BY DEF Input, Fields

LEMMA RestsForm ==
  ASSUME TypeInv, KnownInv, UNCHANGED vars \/ \E role \in Roles : AccessExpires(role) \/ RefreshExpires(role)
  PROVE  Rests /\ KnownInv'
<1>1. Rests
  BY DEF Rests, vars, account, documents, AccessExpires, RefreshExpires, NoNews
<1>2. RowKnown' /\ DocsKnown'
  BY <1>1 DEF Rests, account, documents, KnownInv, RowKnown, DocsKnown
<1> QED
  BY <1>1, <1>2, KnownKept DEF Rests, account

LEMMA UpdateUserStatusForm ==
  ASSUME TypeInv, KnownInv, NEW status \in Statuses, UpdateUserStatus(status)
  PROVE  AsksStatus(status) /\ KnownInv'
<1>0. HistoryType /\ expected \in Expectations
  BY DEF TypeInv, HistoryType
<1>1. PICK values : values = [ expected EXCEPT !.status = status ]
  OBVIOUS
<1>2. values.role = expected.role /\ values.status = status /\ values.link = expected.link
  BY <1>0, <1>1 DEF Expectations
<1>3. Input(values, Undisturbed)
  BY <1>1 DEF UpdateUserStatus
<1>4. expected' = values /\ faults' = faults /\ sure' \subseteq sure /\ sure' \cap Fields \subseteq Undisturbed
  BY <1>0, <1>3, InputIs
<1>5. AsksStatus(status)
  BY <1>2, <1>4 DEF UpdateUserStatus, AsksStatus, Expects, Undisturbed
<1>6. RowKnown' /\ DocsKnown'
  BY <1>5 DEF AsksStatus, Expects, account, documents, KnownInv, RowKnown, DocsKnown
<1> QED
  BY <1>5, <1>6, KnownKept DEF AsksStatus, account

LEMMA UpdateRoleForm ==
  ASSUME TypeInv, KnownInv, NEW role \in { scenario.role, "CUSTOMER" }, UpdateUserRole(role) \/ UpdateProfile(role)
  PROVE  (\E r \in Rows : GivesRole(r)) /\ KnownInv'
<1>0. HistoryType /\ expected \in Expectations /\ row \in Rows /\ role \in Roles
  BY ScenarioType DEF TypeInv, HistoryType, DataType, Roles
<1>1. PICK values : values = [ expected EXCEPT !.role = role ]
  OBVIOUS
<1>2. values.role = role /\ values.status = expected.status /\ values.link = expected.link
  BY <1>0, <1>1 DEF Expectations
<1>3. PICK r : r = [ row EXCEPT !.role = role ]
  OBVIOUS
<1>4. r \in Rows /\ r.role = role /\ r.status = row.status /\ r.link = row.link /\ r.there = row.there
  BY <1>0, <1>3 DEF Rows
<1>5. /\ Write(r) /\ Input(values, Undisturbed) /\ row.there
      /\ UNCHANGED << documents, callback, session, admin, job >>
  BY <1>1, <1>3 DEF UpdateUserRole, UpdateProfile
<1>6. expected' = values /\ faults' = faults /\ sure' \subseteq sure /\ sure' \cap Fields \subseteq Undisturbed
  BY <1>0, <1>5, InputIs
<1>7. GivesRole(r)
  BY <1>2, <1>4, <1>5, <1>6 DEF GivesRole, Rewrites, Expects, Undisturbed
<1>8. RowKnown' /\ DocsKnown' /\ row'.there
  BY <1>2, <1>4, <1>5, <1>6 DEF Write, documents, KnownInv, RowKnown, DocsKnown
<1> QED
  BY <1>4, <1>5, <1>7, <1>8, KnownKept

LEMMA DeleteUserForm == ASSUME TypeInv, KnownInv, DeleteUser PROVE (\E r \in Rows : Deletes(r)) /\ KnownInv'
<1>0. HistoryType /\ row \in Rows
  BY DEF TypeInv, DataType
<1>1. PICK r : r = [ row EXCEPT !.deleted = TRUE ]
  OBVIOUS
<1>2. r \in Rows /\ r.role = row.role /\ r.status = row.status /\ r.link = row.link /\ r.there = row.there
  BY <1>0, <1>1 DEF Rows
<1>3. /\ Write(r) /\ Input(expected, Fields \ Overtaken) /\ row.there
      /\ UNCHANGED << documents, callback, session, admin, job >>
  BY <1>1 DEF DeleteUser
<1>4. expected' = expected /\ faults' = faults /\ sure' \subseteq sure /\ sure' \cap Fields \subseteq Fields \ Overtaken
  BY <1>0, <1>3, InputIs
<1>5. Deletes(r)
  BY <1>2, <1>3, <1>4 DEF Deletes, Rewrites, ExpectsSame, Expects, Overtaken, Fields
<1>6. RowKnown' /\ DocsKnown' /\ row'.there
  BY <1>2, <1>3, <1>4 DEF Write, documents, KnownInv, RowKnown, DocsKnown
<1> QED
  BY <1>2, <1>3, <1>5, <1>6, KnownKept

LEMMA StatusToRowForm == ASSUME TypeInv, KnownInv, StatusToRow PROVE (\E r \in Rows : GivesStatus(r)) /\ KnownInv'
<1>0. HistoryType /\ row \in Rows /\ admin \in AdminStates /\ admin.pc = "row"
  BY DEF TypeInv, DataType, OthersType, StatusToRow
<1>1. PICK status \in Statuses : status = admin.status
  BY <1>0 DEF AdminStates
<1>2. PICK r : r = [ row EXCEPT !.status = status ]
  OBVIOUS
<1>3. r \in Rows /\ r.role = row.role /\ r.status = status /\ r.link = row.link /\ r.there = row.there
  BY <1>0, <1>2 DEF Rows
<1>4. /\ Write(r) /\ row.there /\ admin' = [ admin EXCEPT !.pc = "doc" ]
      /\ UNCHANGED << documents, callback, session, job >>
  BY <1>0, <1>1, <1>2 DEF StatusToRow, KnownInv
<1>5. admin'.pc = "doc" /\ admin'.link = admin.link /\ admin'.status = admin.status
  BY <1>0, <1>4 DEF AdminStates
<1>6. /\ expected' = expected /\ faults' = faults /\ sure' \subseteq sure
      /\ "status" \in sure' => Still /\ row.link = admin.link
  BY NothingIs, CertainIs DEF StatusToRow
<1>7. GivesStatus(r)
  BY <1>0, <1>1, <1>3, <1>4, <1>5, <1>6 DEF GivesStatus, Rewrites, ExpectsSame, Expects
<1>8. RowKnown' /\ DocsKnown' /\ row'.there
  BY <1>3, <1>4, <1>6 DEF Write, documents, KnownInv, RowKnown, DocsKnown
<1> QED
  BY <1>0, <1>3, <1>4, <1>7, <1>8, KnownKept

LEMMA StatusToDocForm == ASSUME TypeInv, KnownInv, StatusToDoc PROVE EndsStatus /\ KnownInv'
<1>0. DataType /\ HistoryType /\ admin \in AdminStates
  BY DEF TypeInv, OthersType
<1>1. /\ admin.pc = "doc" /\ admin' = IdleAdmin /\ admin'.pc = "idle" /\ UNCHANGED << account, callback, session, job >>
  BY DEF StatusToDoc, IdleAdmin
<1>2. \/ /\ admin.link # "none" /\ doc[admin.link].there
         /\ PutDoc(admin.link, [ doc[admin.link] EXCEPT !.status = admin.status ]) /\ NoNews
      \/ ~(admin.link # "none" /\ doc[admin.link].there) /\ UNCHANGED documents /\ NoNews
      \/ UNCHANGED documents /\ Fault({})
  BY DEF StatusToDoc
<1>3. row' = row
  BY <1>1 DEF account
<1>4. CASE /\ admin.link # "none" /\ doc[admin.link].there
           /\ PutDoc(admin.link, [ doc[admin.link] EXCEPT !.status = admin.status ]) /\ NoNews
  <2>1. PICK d \in Ids : d = admin.link
    BY <1>0, <1>4 DEF AdminStates
  <2>2. PICK v : v = [ doc[d] EXCEPT !.status = admin.status ]
    OBVIOUS
  <2>3. v \in Docs /\ v.there /\ v.role = doc[d].role /\ v.status = admin.status
    BY <1>0, <1>4, <2>1, <2>2 DEF DataType, Docs, AdminStates
  <2>4. PutDoc(d, v) /\ UNCHANGED << expected, faults, sure >>
    BY <1>4, <2>1, <2>2 DEF NoNews
  <2>5. EndsStatus
    BY <1>1, <1>4, <2>1, <2>3, <2>4 DEF EndsStatus, PutsStatus, ExpectsSame, Expects
  <2>6. DocsKnown' /\ RowKnown'
    BY <1>0, <1>3, <2>3, <2>4, DocsKnownStay DEF KnownInv, RowKnown
  <2> QED
    BY <1>1, <1>3, <2>5, <2>6, KnownKept
<1>5. CASE ~(admin.link # "none" /\ doc[admin.link].there) /\ UNCHANGED documents /\ NoNews
  <2>1. UNCHANGED << expected, faults, sure >> /\ ~(admin.link \in Ids /\ doc[admin.link].there)
    BY <1>5 DEF NoNews, Ids
  <2>2. EndsStatus
    BY <1>1, <1>5, <2>1 DEF EndsStatus, ExpectsSame, Expects
  <2>3. DocsKnown' /\ RowKnown'
    BY <1>3, <1>5, <2>1 DEF KnownInv, RowKnown, DocsKnown, documents
  <2> QED
    BY <1>1, <1>3, <2>2, <2>3, KnownKept
<1>6. CASE UNCHANGED documents /\ Fault({})
  <2>1. expected' = expected /\ sure' \subseteq sure /\ faults' # 0 /\ (faults # 0 => sure' = {})
    BY <1>0, <1>6, FaultIs
  <2>2. EndsStatus
    BY <1>1, <1>6, <2>1 DEF EndsStatus, ExpectsSame, Expects
  <2>3. DocsKnown' /\ RowKnown'
    BY <1>3, <1>6, <2>1 DEF KnownInv, RowKnown, DocsKnown, documents
  <2> QED
    BY <1>1, <1>3, <2>2, <2>3, KnownKept
<1> QED
  BY <1>2, <1>4, <1>5, <1>6

LEMMA AppForm ==
  ASSUME TypeInv, KnownInv,
         (\E role \in { scenario.role, "CUSTOMER" }, status \in Statuses : AppSet(role, status)) \/ AppRemove
  PROVE  (\E v \in Docs : AppPuts(v) \/ AppTakes(v)) /\ KnownInv'
<1>0. DataType /\ HistoryType /\ expected \in Expectations /\ scenario.role \in Roles /\ "auth" \in Ids
  BY ScenarioType DEF TypeInv, HistoryType, Ids
<1>1. ASSUME NEW role \in { scenario.role, "CUSTOMER" }, NEW status \in Statuses, AppSet(role, status)
      PROVE  (\E v \in Docs : AppPuts(v)) /\ KnownInv'
  <2>1. role \in Roles
    BY <1>0, <1>1 DEF Roles
  <2>2. PICK v : v = Doc(role, status)
    OBVIOUS
  <2>3. v \in Docs /\ v.there /\ v.role = role /\ v.status = status
    BY <2>1, <2>2, DocType DEF Doc
  <2>4. PICK values : values = [ role |-> role, status |-> status, link |-> "auth" ]
    OBVIOUS
  <2>5. PICK certain : certain = IF Quiet /\ \A d \in Ids : doc[d].there => d = "auth" THEN Fields ELSE {}
    OBVIOUS
  <2>6. PutDoc("auth", v) /\ Input(values, certain) /\ UNCHANGED << account, callback, session, admin, job >>
    BY <1>1, <2>2, <2>4, <2>5 DEF AppSet
  <2>7. expected' = values /\ faults' = faults /\ sure' \subseteq sure /\ sure' \cap Fields \subseteq certain
    BY <1>0, <2>6, InputIs
  <2>8. sure' \cap Fields # {} => Quiet /\ \A d \in Ids : doc[d].there => d = "auth"
    BY <2>5, <2>7
  <2>9. Expects(v.role, v.status, "auth")
    BY <2>3, <2>4, <2>7 DEF Expects
  <2>10. AppPuts(v)
    BY <2>1, <2>3, <2>6, <2>7, <2>8, <2>9 DEF AppPuts
  <2>11. row' = row /\ expected'.link = "auth"
    BY <2>4, <2>6, <2>7 DEF account
  <2>12. RowKnown' /\ DocsKnown'
    BY <1>0, <2>3, <2>6, <2>11, DocsKnownStay, RowKnownStays
  <2> QED
    BY <2>3, <2>6, <2>10, <2>11, <2>12, KnownKept
<1>2. ASSUME AppRemove PROVE (\E v \in Docs : AppTakes(v)) /\ KnownInv'
  <2>1. PICK v : v = NoDoc
    OBVIOUS
  <2>2. v \in Docs /\ ~v.there /\ v.status = "none"
    BY <2>1 DEF NoDoc, Docs
  <2>3. PICK values : values = [ expected EXCEPT !.status = "BANNED" ]
    OBVIOUS
  <2>4. values.role = expected.role /\ values.status = "BANNED" /\ values.link = expected.link
    BY <1>0, <2>3 DEF Expectations
  <2>5. PICK certain : certain = IF Quiet /\ OneDocument THEN Fields ELSE {}
    OBVIOUS
  <2>6. /\ doc["auth"].there /\ PutDoc("auth", v) /\ Input(values, certain)
        /\ UNCHANGED << account, callback, session, admin, job >>
    BY <1>2, <2>1, <2>3, <2>5 DEF AppRemove
  <2>7. expected' = values /\ faults' = faults /\ sure' \subseteq sure /\ sure' \cap Fields \subseteq certain
    BY <1>0, <2>6, InputIs
  <2>8. sure' \cap Fields # {} => Quiet /\ OneDocument
    BY <2>5, <2>7
  <2>9. Expects(expected.role, "BANNED", expected.link)
    BY <2>4, <2>7 DEF Expects
  <2>10. AppTakes(v)
    BY <2>2, <2>6, <2>7, <2>8, <2>9 DEF AppTakes
  <2>11. row' = row /\ expected'.link = expected.link
    BY <2>4, <2>6, <2>7 DEF account
  <2>12. RowKnown' /\ DocsKnown'
    BY <1>0, <2>2, <2>6, <2>11, DocsKnownStay, RowKnownStays
  <2> QED
    BY <2>2, <2>6, <2>10, <2>11, <2>12, KnownKept
<1> QED
  BY <1>1, <1>2

LEMMA MirrorForm ==
  ASSUME TypeInv, KnownInv, NEW m \in BagToSet(mirrors), MirrorWrite(m) \/ MirrorLost(m)
  PROVE  ((\E v \in Docs : MirrorPuts(m, v)) \/ Loses(m)) /\ KnownInv'
<1>0. DataType /\ HistoryType /\ m \in Mirrors
  BY DEF TypeInv, DataType
<1>1. CASE MirrorWrite(m)
  <2>1. PICK v : v = Doc(m.role, m.status)
    OBVIOUS
  <2>2. v \in Docs /\ v.there /\ v.role = m.role /\ v.status = m.status /\ m.id \in Ids
    BY <1>0, <2>1, DocType DEF Doc, Mirrors
  <2>3. /\ PutDoc(m.id, v) /\ mirrors' = mirrors (-) SetToBag({ m })
        /\ UNCHANGED << row, callback, session, admin, job, faults, expected, sure >>
    BY <1>1, <2>1 DEF MirrorWrite, NoNews
  <2>4. MirrorPuts(m, v)
    BY <2>2, <2>3 DEF MirrorPuts
  <2>5. RowKnown' /\ DocsKnown'
    BY <1>0, <2>2, <2>3, DocsKnownStay DEF KnownInv, RowKnown
  <2> QED
    BY <2>2, <2>3, <2>4, <2>5, KnownKept
<1>2. CASE MirrorLost(m)
  <2>1. /\ mirrors' = mirrors (-) SetToBag({ m }) /\ UNCHANGED << row, documents, callback, session, admin, job >>
        /\ Fault({ "role", "link", "agree" })
    BY <1>2 DEF MirrorLost
  <2>2. expected' = expected /\ sure' \subseteq sure \ { "role", "link", "agree" } /\ faults' # 0 /\ (faults # 0 => sure' = {})
    BY <1>0, <2>1, FaultIs
  <2>3. Loses(m)
    BY <2>1, <2>2 DEF Loses
  <2>4. RowKnown' /\ DocsKnown'
    BY <2>1, <2>2 DEF KnownInv, RowKnown, DocsKnown, documents
  <2> QED
    BY <2>1, <2>3, <2>4, KnownKept
<1> QED
  BY <1>1, <1>2

\* A row that is banned is one that was there.
LEMMA BannedIs ==
  ASSUME DataType
  PROVE  /\ Banned(row).there = row.there /\ Banned(row).link = row.link /\ Banned(row).role = row.role
         /\ Banned(row).status = "BANNED"
<1>1. PICK r \in Rows : r = row
  BY DEF DataType
<1>2. [ r EXCEPT !.status = "BANNED", !.deleted = TRUE ].role = r.role
      /\ [ r EXCEPT !.status = "BANNED", !.deleted = TRUE ].status = "BANNED"
  BY DEF Rows
<1> QED
  BY <1>1, <1>2, BannedType DEF Banned

LEMMA CalledRow ==
  ASSUME DataType, NEW d \in Ids, Called(d)
  PROVE  /\ row'.there = row.there /\ row'.link = row.link /\ row'.role = row.role
         /\ row' = row \/ (row.there /\ row'.status = "BANNED" /\ ~Head(inbox[d]).there)
         /\ ~Head(inbox[d]).there /\ row' = row /\ row.there => row.link # d \/ row.status = "BANNED"
         /\ UNCHANGED << doc, mirrors, session, admin, job, faults, expected, sure >>
<1>1. \/ Head(inbox[d]).there /\ row' = row
      \/ ~Head(inbox[d]).there /\ row' = IF row.there /\ d \in { row.link, "row" } THEN Banned(row) ELSE row
  BY DEF Called
<1> QED
  BY <1>1, BannedIs DEF Called, NoNews

LEMMA ListenerKnown ==
  ASSUME TypeInv, KnownInv, CarriedInv, NEW d \in Ids, Called(d) \/ SyncUserToPostgres(d)
  PROVE  KnownInv'
<1>0. DataType /\ HistoryType /\ callback[d] \in Callbacks /\ row \in Rows
  BY DEF TypeInv, DataType
<1>1. CASE Called(d)
  <2>1. row'.there = row.there /\ row'.link = row.link /\ UNCHANGED << doc, session, admin, job, expected >>
    BY <1>0, <1>1, CalledRow
  <2>2. RowKnown' /\ DocsKnown'
    BY <2>1 DEF KnownInv, RowKnown, DocsKnown
  <2> QED
    BY <2>1, <2>2, KnownKept
<1>2. CASE SyncUserToPostgres(d)
  <2>0. callback[d].existing => row.there
    BY <1>2 DEF CarriedInv, VersionsInv, SyncUserToPostgres
  <2>1. /\ row' = SyncedRow(callback[d].existing, d, callback[d].doc)
        /\ UNCHANGED << doc, session, admin, job, expected >>
    BY <1>2 DEF SyncUserToPostgres, WriteBypassed, documents, NoNews
  <2>2. PICK v \in Docs : v = callback[d].doc
    BY <1>0 DEF Callbacks
  <2>3. row'.there
    BY <1>0, <2>0, <2>1, <2>2, CarriedType DEF SyncedRow
  <2>4. RowKnown' /\ DocsKnown'
    BY <2>1, <2>3 DEF KnownInv, RowKnown, DocsKnown
  <2> QED
    BY <2>1, <2>3, <2>4, KnownKept
<1> QED
  BY <1>1, <1>2

LEMMA JobStartForm == ASSUME TypeInv, KnownInv, JobStart PROVE (JobBegins \/ sure' = {}) /\ KnownInv'
<1>0. DataType /\ OthersType /\ HistoryType
  BY DEF TypeInv
<1>1. /\ job.pc = "idle" /\ UNCHANGED << account, documents, callback, session, admin, expected >>
  BY DEF JobStart
<1>2. PICK found : found = { d \in Ids : doc[d].there }
  OBVIOUS
<1>3. PICK idle : idle = IdleJob
  OBVIOUS
<1>4. idle \in JobStates
  BY <1>3 DEF IdleJob, JobStates, Docs, NoDoc
<1>5. \/ /\ job' = [ idle EXCEPT !.pc = "users", !.snapshot = doc, !.todo = found, !.active = found ]
         /\ sure' = CASE ~Settled -> {}
                      [] Settled /\ ~OneDocument -> sure \cap { "agree" }
                      [] Settled /\ OneDocument -> IF SessionsIdle THEN sure ELSE sure \ { "link" }
         /\ faults' = faults
      \/ job' = [ idle EXCEPT !.pc = "users" ] /\ sure' = {}
  BY <1>2, <1>3 DEF JobStart
<1>6. job'.pc = "users"
  BY <1>4, <1>5 DEF JobStates
<1>7. ASSUME sure' # {} PROVE JobBegins
  <2>0. faults' = faults
    BY <1>5, <1>7
  <2>1. job'.snapshot = doc /\ job'.todo = found
    BY <1>4, <1>5, <1>7 DEF JobStates
  <2>2. JobHas' = found
    BY <1>6, <2>1 DEF JobHas
  <2>3. sure' \subseteq sure /\ (sure' \cap Fields # {} => Settled /\ OneDocument) /\ ("link" \in sure' => SessionsIdle)
    <3>1. CASE ~Settled
      BY <1>5, <1>7, <3>1
    <3>2. CASE Settled /\ ~OneDocument
      <4>1. sure' = sure \cap { "agree" }
        BY <1>5, <1>7, <3>2
      <4> QED
        BY <4>1 DEF Fields
    <3>3. CASE Settled /\ OneDocument
      <4>1. sure' = IF SessionsIdle THEN sure ELSE sure \ { "link" }
        BY <1>5, <1>7, <3>3
      <4> QED
        BY <3>3, <4>1
    <3> QED
      BY <3>1, <3>2, <3>3
  <2> QED
    BY <1>1, <1>2, <1>6, <2>0, <2>1, <2>2, <2>3 DEF JobBegins
<1>8. RowKnown' /\ DocsKnown' /\ row' = row
  BY <1>1 DEF KnownInv, RowKnown, DocsKnown, account, documents
<1>9. KnownInv'
  BY <1>1, <1>6, <1>8, KnownKept
<1>10. JobBegins \/ sure' = {}
  BY <1>7
<1> QED
  BY <1>9, <1>10

LEMMA JobGoesForm ==
  ASSUME TypeInv, KnownInv, JobList \/ \E d \in Ids : JobRead(d)
  PROVE  (JobGoes \/ sure' = {}) /\ KnownInv'
<1>0. DataType /\ OthersType /\ HistoryType /\ job \in JobStates /\ row.there \in BOOLEAN
  BY DEF TypeInv, OthersType, DataType, Rows
<1>1. UNCHANGED << account, documents, callback, session, admin, expected >> /\ job.pc = "users"
  BY DEF JobRead, JobList, NoNews
<1>2. ASSUME NEW d \in Ids, JobRead(d)
      PROVE  JobGoes /\ (job'.pc = "write" /\ job'.existing => row.there)
  <2>1. job' = [ job EXCEPT !.pc = "write", !.of = d, !.existing = row.there, !.todo = job.todo \ { d } ]
    BY <1>2 DEF JobRead
  <2>2. /\ job'.pc = "write" /\ job'.of = d /\ job'.todo = job.todo \ { d } /\ job'.existing = row.there
        /\ job'.snapshot = job.snapshot
    BY <1>0, <2>1 DEF JobStates
  <2>3. d \in job.todo /\ UNCHANGED << faults, sure >>
    BY <1>2 DEF JobRead, NoNews
  <2>4. JobHas' \subseteq JobHas
    BY <1>1, <2>2, <2>3 DEF JobHas
  <2> QED
    BY <1>1, <2>2, <2>3, <2>4 DEF JobGoes
<1>3. ASSUME JobList PROVE (JobGoes \/ sure' = {}) /\ job'.pc # "write"
  <2>1. PICK listed \in BOOLEAN :
          /\ job' \in { [ job EXCEPT !.pc = "ban", !.active = job.active \cup (IF auth /\ listed THEN { "auth" } ELSE {}) ],
                        IdleJob }
          /\ NoNews \/ sure' = {}
    BY <1>3 DEF JobList
  <2>2. job'.pc \in { "ban", "idle" } /\ (job'.pc # "idle" => job'.snapshot = job.snapshot)
    <3>1. PICK active : active = job.active \cup (IF auth /\ listed THEN { "auth" } ELSE {})
      OBVIOUS
    <3>2. CASE job' = [ job EXCEPT !.pc = "ban", !.active = active ]
      BY <1>0, <3>2 DEF JobStates
    <3>3. CASE job' = IdleJob
      BY <3>3 DEF IdleJob
    <3> QED
      BY <2>1, <3>1, <3>2, <3>3
  <2>3. JobHas' = {}
    BY <2>2 DEF JobHas
  <2>4. NoNews => JobGoes
    BY <1>1, <2>2, <2>3 DEF JobGoes, NoNews
  <2> QED
    BY <2>1, <2>2, <2>4
<1>4. (JobGoes \/ sure' = {}) /\ (job'.pc = "write" /\ job'.existing => row.there)
  BY <1>2, <1>3
<1>5. RowKnown' /\ DocsKnown' /\ row' = row
  BY <1>1 DEF KnownInv, RowKnown, DocsKnown, account, documents
<1> QED
  BY <1>1, <1>4, <1>5, KnownKept

LEMMA JobWriteForm == ASSUME TypeInv, KnownInv, JobWrite PROVE (JobCarries \/ JobGoes) /\ KnownInv'
<1>0. /\ DataType /\ row \in Rows /\ job \in JobStates /\ job.pc = "write"
      /\ job.existing \in BOOLEAN /\ job.of \in Ids /\ job.snapshot[job.of] \in Docs
  BY DEF TypeInv, OthersType, DataType, JobStates, JobWrite
<1>1. job' = [ job EXCEPT !.pc = "users" ] /\ UNCHANGED << documents, callback, session, admin, faults, expected, sure >>
  BY DEF JobWrite, NoNews
<1>2. job'.pc = "users" /\ job'.todo = job.todo /\ job'.snapshot = job.snapshot
  BY <1>0, <1>1 DEF JobStates
<1>3. JobHas' \subseteq JobHas /\ job.of \in JobHas
  BY <1>0, <1>2 DEF JobHas
<1>4. DocsKnown'
  BY <1>1 DEF KnownInv, DocsKnown, documents
<1>5. PICK r : r = SyncedRow(job.existing, job.of, job.snapshot[job.of])
  OBVIOUS
<1>6. CASE job.existing \/ ~row.there
  <2>1. Write(r) /\ row' = r
    BY <1>5, <1>6 DEF JobWrite, Write
  <2>2. JobCarries
    BY <1>0, <1>1, <1>2, <1>3, <1>5, <1>6, <2>1 DEF JobCarries
  <2>3. row'.there
    BY <1>0, <1>5, <1>6, <2>1, CarriedType DEF SyncedRow, KnownInv
  <2>4. RowKnown'
    BY <1>1, <2>3 DEF RowKnown, KnownInv
  <2> QED
    BY <1>1, <1>2, <1>4, <2>2, <2>3, <2>4, KnownKept
<1>7. CASE ~(job.existing \/ ~row.there)
  <2>1. UNCHANGED account /\ row' = row
    BY <1>5, <1>7 DEF JobWrite, account
  <2>2. JobGoes
    BY <1>0, <1>1, <1>2, <1>3, <2>1 DEF JobGoes
  <2>3. RowKnown'
    BY <1>1, <2>1 DEF KnownInv, RowKnown
  <2> QED
    BY <1>1, <1>2, <1>4, <2>1, <2>2, <2>3, KnownKept
<1> QED
  BY <1>6, <1>7

LEMMA JobBanForm == ASSUME TypeInv, KnownInv, JobBan PROVE JobBans /\ KnownInv'
<1>0. DataType /\ HistoryType /\ expected \in Expectations
  BY DEF TypeInv, HistoryType
<1>1. /\ job.pc = "ban" /\ row' = Banned(row) /\ job' = IdleJob
      /\ UNCHANGED << mirrors, documents, callback, session, admin, faults >>
  BY DEF JobBan, WriteBypassed
<1>2. job'.pc = "idle" /\ JobHas' = {}
  BY <1>1 DEF IdleJob, JobHas
<1>3. \/ expected' = [ expected EXCEPT !.status = "BANNED" ] /\ sure' = sure /\ Still /\ \A d \in Ids : ~doc[d].there
      \/ expected' = expected /\ sure' \subseteq sure \cap { "agree" }
  BY DEF JobBan
<1>4. expected'.role = expected.role /\ expected'.link = expected.link /\ sure' \subseteq sure
  BY <1>0, <1>3 DEF Expectations
<1>5. "status" \in sure' => expected'.status = "BANNED" /\ Still /\ \A d \in Ids : ~doc[d].there
  BY <1>0, <1>3 DEF Expectations
<1>6. JobBans
  BY <1>1, <1>2, <1>4, <1>5 DEF JobBans
<1>7. row'.there = row.there /\ row'.link = row.link
  BY <1>0, <1>1, BannedIs
<1>8. RowKnown' /\ DocsKnown'
  BY <1>1, <1>4, <1>7 DEF KnownInv, RowKnown, DocsKnown, documents
<1> QED
  BY <1>1, <1>2, <1>6, <1>7, <1>8, KnownKept

LEMMA RestartForm == ASSUME TypeInv, KnownInv, Restart PROVE sure' = {} /\ KnownInv'
<1>0. HistoryType
  BY DEF TypeInv
<1>1. /\ Fault(Fields \cup { "agree" }) /\ session' = [ s \in Sessions |-> IdleSession ]
      /\ admin' = IdleAdmin /\ job' = IdleJob /\ UNCHANGED << row, doc >>
  BY DEF Restart
<1>2. expected' = expected /\ sure' \subseteq sure \ (Fields \cup { "agree" })
  BY <1>0, <1>1, FaultIs
<1>3. sure' = {}
  BY <1>0, <1>2 DEF HistoryType
<1>4. ASSUME NEW s \in Sessions PROVE SessionKnown(session[s])'
  BY <1>1 DEF SessionKnown, Rowed, IdleSession
<1> QED
  BY <1>1, <1>2, <1>3, <1>4 DEF KnownInv, IdleAdmin, IdleJob

\* Every step has one of the forms.
LEMMA StepForm == ASSUME TypeInv, KnownInv, CarriedInv, [Next]_vars PROVE Form /\ KnownInv'
<1>1. ASSUME NEW s \in Sessions, Start(s) \/ Continue(s) PROVE Form /\ KnownInv'
  BY <1>1, CallIs, CallKnown DEF Form
<1>2. ASSUME UNCHANGED vars \/ \E role \in Roles : AccessExpires(role) \/ RefreshExpires(role)
      PROVE  Form /\ KnownInv'
  BY <1>2, RestsForm DEF Form
<1>3. ASSUME Decide PROVE Form /\ KnownInv'
  BY <1>3, UpdateUserStatusForm, UpdateRoleForm, DeleteUserForm, AppForm DEF Form, Decide
<1>4. ASSUME StatusToRow \/ StatusToDoc PROVE Form /\ KnownInv'
  BY <1>4, StatusToRowForm, StatusToDocForm DEF Form
<1>5. ASSUME NEW m \in BagToSet(mirrors), MirrorWrite(m) \/ MirrorLost(m) PROVE Form /\ KnownInv'
  BY <1>5, MirrorForm DEF Form
<1>6. ASSUME NEW d \in Ids, Called(d) \/ SyncUserToPostgres(d) PROVE Form /\ KnownInv'
  BY <1>6, ListenerKnown DEF Form
<1>7. ASSUME JobStart \/ JobContinue \/ Restart PROVE Form /\ KnownInv'
  BY <1>7, JobStartForm, JobGoesForm, JobWriteForm, JobBanForm, RestartForm DEF Form, JobContinue
<1> QED
  BY <1>1, <1>2, <1>3, <1>4, <1>5, <1>6, <1>7 DEF Next

LEMMA KnownInit == ASSUME Init PROVE KnownInv
<1>1. /\ admin = IdleAdmin /\ job = IdleJob /\ session = [ s \in Sessions |-> IdleSession ]
      /\ \A d \in Ids : doc[d].there \/ doc[d] = NoDoc
  BY DEF Init, Doc
<1>2. (~row.there => row.link = "none" /\ expected.link = "auth") /\ expected.link \in Ids
  BY DEF Init, NewRow, NoRow, Ids
<1>3. ASSUME NEW s \in Sessions PROVE SessionKnown(session[s])
  BY <1>1 DEF SessionKnown, Rowed, IdleSession
<1> QED
  BY <1>1, <1>2, <1>3 DEF KnownInv, IdleAdmin, IdleJob, NoDoc

(***************************************************************************)
(* The role stays the last one                                             *)
(***************************************************************************)

\* Everything that carries a role carries the last one, and what has not got it will.
RoleStands ==
  /\ \A m \in BagToSet(mirrors) : m.role = expected.role
  /\ \A d \in Ids : \A v \in Carries(d) : v.role = expected.role
  /\ \A d \in JobHas : job.snapshot[d].role = expected.role
  /\ \A d \in Ids : doc[d].there => doc[d].role = expected.role \/ (admin.pc = "idle" /\ MirrorTo(d))
  /\ row.there => row.role = expected.role \/ (admin.pc # "row" /\ \E d \in Ids : Coming(d) # {})

RoleInv == "role" \in sure => RoleStands

LEMMA SettledIs ==
  ASSUME Settled
  PROVE  /\ mirrors = EmptyBag /\ BagToSet(mirrors) = {} /\ ~Removing /\ admin.pc = "idle" /\ job.pc = "idle" /\ JobHas = {}
         /\ \A d \in Ids : Carries(d) = {} /\ Coming(d) = {} /\ ~MirrorTo(d)
BY StillFlow DEF Settled, JobHas, MirrorTo

LEMMA RoleInField == "role" \in Fields /\ "status" \in Fields /\ "link" \in Fields
BY DEF Fields

\* Neither row nor documents get another role.
LEMMA RoleSame ==
  ASSUME RoleStands, UNCHANGED << mirrors, documents, callback >>, expected'.role = expected.role,
         row'.there = row.there, row'.role = row.role,
         admin'.pc = admin.pc \/ (admin'.pc = "idle" /\ admin.pc = "doc"),
         JobHas' \subseteq JobHas, JobHas' # {} => job'.snapshot = job.snapshot
  PROVE  RoleStands'
<1>1. (\A d \in Ids : Carries(d)' = Carries(d) /\ Coming(d)' = Coming(d)) /\ doc' = doc
  BY FlowStays DEF documents
<1>2. \A d \in Ids : MirrorTo(d)' = MirrorTo(d)
  BY DEF MirrorTo
<1> QED
  BY <1>1, <1>2 DEF RoleStands

\* The row is written with the role that is expected.
LEMMA RoleWritten ==
  ASSUME DataType, RoleStands, NEW r, Write(r), r.role = expected'.role, expected'.role = expected.role,
         UNCHANGED << documents, callback >>, admin.pc = "idle" => admin'.pc = "idle",
         JobHas' \subseteq JobHas, JobHas' # {} => job'.snapshot = job.snapshot
  PROVE  RoleStands'
<1>1. (\A d \in Ids : Carries(d)' = Carries(d)) /\ doc' = doc
  BY FlowStays DEF documents
<1>2. row' = r /\ BagToSet(mirrors') = BagToSet(mirrors) \cup { MirrorOf(r) }
  BY MirrorAdded
<1>3. MirrorOf(r).role = r.role
  BY DEF MirrorOf
<1>4. \A d \in Ids : MirrorTo(d) => MirrorTo(d)'
  BY <1>2 DEF MirrorTo
<1> QED
  BY <1>1, <1>2, <1>3, <1>4 DEF RoleStands

\* A document is written with the role that is expected, or removed.
LEMMA RolePut ==
  ASSUME DataType, RoleStands, NEW d \in Ids, NEW v \in Docs, PutDoc(d, v), v.there => v.role = expected.role,
         UNCHANGED << row, callback, job >>, expected'.role = expected.role,
         admin'.pc = admin.pc \/ (admin'.pc = "idle" /\ admin.pc = "doc"),
         BagToSet(mirrors') \subseteq BagToSet(mirrors), \A e \in Ids : e # d /\ MirrorTo(e) => MirrorTo(e)'
  PROVE  RoleStands'
<1>1. /\ doc'[d] = v /\ \A e \in Ids : e # d => doc'[e] = doc[e]
      /\ \A e \in Ids : Carries(e)' \subseteq Carries(e) \cup (IF v.there THEN { v } ELSE {}) /\ Coming(e) \subseteq Coming(e)'
  BY FlowPut
<1>2. JobHas' = JobHas
  BY DEF JobHas
<1> QED
  BY <1>1, <1>2 DEF RoleStands

LEMMA RoleCall == ASSUME TypeInv, KnownInv, RoleInv, NEW s \in Sessions, Call(s) PROVE RoleInv'
<1> SUFFICES ASSUME "role" \in sure' PROVE RoleStands'
  BY DEF RoleInv
<1>0. DataType /\ expected \in Expectations /\ row \in Rows
  BY DEF TypeInv, HistoryType, DataType
<1>1. UNCHANGED << callback, admin, job >> /\ JobHas' = JobHas
  BY DEF Call, JobHas
<1>2. CASE Looks(s)
  <2>1. RoleStands /\ UNCHANGED << row, mirrors, documents, expected >>
    BY <1>2 DEF Looks, RoleInv, account
  <2> QED
    BY <1>1, <2>1, RoleSame
<1>3. CASE Resolves(s)
  <2>1. RoleStands /\ UNCHANGED << row, mirrors, documents >> /\ expected'.role = expected.role
    BY <1>0, <1>3 DEF Resolves, RoleInv, account, Expectations
  <2> QED
    BY <1>1, <2>1, RoleSame
<1>4. CASE Writes(s)
  <2>1. PICK r \in Rows : WritesRow(s, r)
    BY <1>4 DEF Writes
  <2>2. RoleStands /\ Write(r) /\ UNCHANGED documents /\ row.role = expected.role /\ r.role = row.role
    BY <2>1 DEF WritesRow, RoleInv, Overtaken
  <2>3. expected'.role = expected.role
    BY <1>0, <2>1 DEF WritesRow, Expectations
  <2> QED
    BY <1>0, <1>1, <2>2, <2>3, RoleWritten
<1>5. CASE Creates(s)
  <2>1. PICK r \in Rows : CreatesRow(s, r)
    BY <1>5 DEF Creates
  <2>2. Settled /\ (\A d \in Ids : ~doc[d].there) /\ Write(r) /\ UNCHANGED documents /\ expected'.role = r.role
    BY <2>1, RoleInField DEF CreatesRow
  <2>3. BagToSet(mirrors) = {} /\ JobHas = {} /\ \A d \in Ids : Carries(d) = {}
    BY <2>2, SettledIs
  <2>4. (\A d \in Ids : Carries(d)' = Carries(d)) /\ doc' = doc
    BY <1>1, <2>2, FlowStays DEF documents
  <2>5. row' = r /\ BagToSet(mirrors') = BagToSet(mirrors) \cup { MirrorOf(r) } /\ MirrorOf(r).role = r.role
    BY <1>0, <2>2, MirrorAdded DEF MirrorOf
  <2> QED
    BY <1>1, <2>2, <2>3, <2>4, <2>5 DEF RoleStands
<1>6. CASE Puts(s)
  <2>1. PICK v \in Docs : PutsDoc(s, v)
    BY <1>6 DEF Puts
  <2>2. PICK d \in Ids : d = session[s].uid
    BY <2>1 DEF PutsDoc
  <2>3. RoleStands /\ PutDoc(d, v) /\ v.role = expected.role /\ UNCHANGED << row, mirrors, expected >>
    BY <2>1, <2>2 DEF PutsDoc, RoleInv, account
  <2>4. \A e \in Ids : MirrorTo(e)' = MirrorTo(e)
    BY <2>3 DEF MirrorTo
  <2> QED
    BY <1>0, <1>1, <2>3, <2>4, RolePut
<1> QED
  BY <1>2, <1>3, <1>4, <1>5, <1>6 DEF Call

LEMMA RoleAdmin ==
  ASSUME TypeInv, KnownInv, RoleInv,
         \/ Rests
         \/ \E status \in Statuses : AsksStatus(status)
         \/ \E r \in Rows : GivesRole(r) \/ Deletes(r) \/ GivesStatus(r)
         \/ EndsStatus
  PROVE  RoleInv'
<1> SUFFICES ASSUME "role" \in sure' PROVE RoleStands'
  BY DEF RoleInv
<1>0. DataType /\ row \in Rows
  BY DEF TypeInv, DataType
<1>1. CASE Rests
  <2>1. RoleStands /\ UNCHANGED << row, mirrors, documents, callback, admin, job, expected >>
    BY <1>1 DEF Rests, RoleInv, account
  <2>2. JobHas' = JobHas
    BY <2>1 DEF JobHas
  <2> QED
    BY <2>1, <2>2, RoleSame
<1>2. ASSUME NEW status \in Statuses, AsksStatus(status) PROVE RoleStands'
  <2>1. /\ RoleStands /\ UNCHANGED << row, mirrors, documents, callback, job >> /\ Settled /\ OneDocument
        /\ expected'.role = expected.role
    BY <1>2, RoleInField DEF AsksStatus, RoleInv, account, Expects
  <2>2. /\ BagToSet(mirrors) = {} /\ JobHas = {} /\ \A d \in Ids : Carries(d) = {} /\ Coming(d) = {} /\ ~MirrorTo(d)
    BY <2>1, SettledIs
  <2>3. (\A d \in Ids : Carries(d)' = Carries(d)) /\ doc' = doc /\ JobHas' = JobHas
    BY <2>1, FlowStays DEF documents, JobHas
  <2> QED
    BY <2>1, <2>2, <2>3 DEF RoleStands
<1>3. ASSUME NEW r \in Rows, GivesRole(r) PROVE RoleStands'
  <2>1. /\ Write(r) /\ row.there /\ r.there /\ r.link = row.link /\ UNCHANGED << documents, callback, job, admin >>
        /\ Settled /\ OneDocument /\ expected'.role = r.role
    BY <1>3, RoleInField DEF GivesRole, Rewrites, Expects
  <2>2. BagToSet(mirrors) = {} /\ JobHas = {} /\ admin.pc = "idle" /\ \A d \in Ids : Carries(d) = {}
    BY <2>1, SettledIs
  <2>3. (\A d \in Ids : Carries(d)' = Carries(d)) /\ doc' = doc /\ JobHas' = JobHas
    BY <2>1, FlowStays DEF documents, JobHas
  <2>4. row' = r /\ BagToSet(mirrors') = BagToSet(mirrors) \cup { MirrorOf(r) } /\ MirrorOf(r).role = r.role
    BY <1>0, <2>1, MirrorAdded DEF MirrorOf
  <2>5. ASSUME NEW d \in Ids, doc[d].there PROVE MirrorTo(d)'
    <3>1. d = row.link
      BY <2>1, <2>5 DEF OneDocument
    <3>2. MirrorOf(r).id = d
      BY <2>1, <3>1 DEF MirrorOf, Ids
    <3> QED
      BY <2>4, <3>2 DEF MirrorTo
  <2> QED
    BY <2>1, <2>2, <2>3, <2>4, <2>5 DEF RoleStands
<1>4. ASSUME NEW r \in Rows, Deletes(r) PROVE RoleStands'
  <2>1. /\ Write(r) /\ UNCHANGED << documents, callback, job, admin >> /\ RoleStands
        /\ r.role = expected.role /\ expected'.role = expected.role
    BY <1>4 DEF Deletes, Rewrites, ExpectsSame, Expects, Overtaken, RoleInv
  <2>2. JobHas' = JobHas
    BY <2>1 DEF JobHas
  <2> QED
    BY <1>0, <2>1, <2>2, RoleWritten
<1>5. ASSUME NEW r \in Rows, GivesStatus(r) PROVE RoleStands'
  <2>1. /\ Write(r) /\ UNCHANGED << documents, callback, job >> /\ RoleStands /\ admin.pc = "row" /\ row.there
        /\ r.role = row.role /\ expected'.role = expected.role
    BY <1>5 DEF GivesStatus, Rewrites, ExpectsSame, Expects, RoleInv
  <2>2. r.role = expected.role
    BY <2>1 DEF RoleStands
  <2>3. JobHas' = JobHas
    BY <2>1 DEF JobHas
  <2> QED
    BY <1>0, <2>1, <2>2, <2>3, RoleWritten
<1>6. CASE EndsStatus
  <2>1. /\ RoleStands /\ UNCHANGED << row, mirrors, callback, job >> /\ admin.pc = "doc" /\ admin'.pc = "idle"
        /\ expected'.role = expected.role
    BY <1>6 DEF EndsStatus, RoleInv, account, ExpectsSame, Expects
  <2>2. JobHas' = JobHas
    BY <2>1 DEF JobHas
  <2>3. CASE UNCHANGED documents
    BY <2>1, <2>2, <2>3, RoleSame
  <2>4. ASSUME NEW v \in Docs, PutsStatus(v) PROVE RoleStands'
    <3>1. PICK d \in Ids : d = admin.link
      BY <2>4 DEF PutsStatus
    <3>2. PutDoc(d, v) /\ doc[d].there /\ v.role = doc[d].role
      BY <2>4, <3>1 DEF PutsStatus
    <3>3. v.role = expected.role
      BY <2>1, <3>2 DEF RoleStands
    <3>4. \A e \in Ids : MirrorTo(e)' = MirrorTo(e)
      BY <2>1 DEF MirrorTo
    <3> QED
      BY <1>0, <2>1, <3>2, <3>3, <3>4, RolePut
  <2> QED
    BY <1>6, <2>3, <2>4 DEF EndsStatus
<1> QED
  BY <1>1, <1>2, <1>3, <1>4, <1>5, <1>6

LEMMA RoleDocuments ==
  ASSUME TypeInv, KnownInv, RoleInv,
         \/ \E v \in Docs : AppPuts(v) \/ AppTakes(v)
         \/ \E m \in BagToSet(mirrors) : (\E v \in Docs : MirrorPuts(m, v)) \/ Loses(m)
  PROVE  RoleInv'
<1> SUFFICES ASSUME "role" \in sure' PROVE RoleStands'
  BY DEF RoleInv
<1>0. DataType /\ "auth" \in Ids
  BY DEF TypeInv, Ids
<1>1. ASSUME NEW v \in Docs, AppPuts(v) PROVE RoleStands'
  <2>1. /\ PutDoc("auth", v) /\ v.there /\ UNCHANGED << row, mirrors, callback, admin, job >> /\ Quiet
        /\ (\A d \in Ids : doc[d].there => d = "auth") /\ expected'.role = v.role
    BY <1>1, RoleInField DEF AppPuts, account, Expects
  <2>2. /\ BagToSet(mirrors) = {} /\ JobHas = {} /\ admin.pc = "idle" /\ \A d \in Ids : Carries(d) = {}
    BY <2>1, SettledIs DEF Quiet
  <2>3. /\ doc'["auth"] = v /\ \A e \in Ids : e # "auth" => doc'[e] = doc[e] /\ Carries(e)' = Carries(e)
        /\ Carries("auth")' = Carries("auth") \cup { v } /\ Coming("auth")' = Coming("auth") \cup { v }
    BY <1>0, <2>1, FlowPut
  <2>4. JobHas' = JobHas
    BY <2>1 DEF JobHas
  <2> QED
    BY <1>0, <2>1, <2>2, <2>3, <2>4 DEF RoleStands
<1>2. ASSUME NEW v \in Docs, AppTakes(v) PROVE RoleStands'
  <2>1. /\ RoleStands /\ PutDoc("auth", v) /\ ~v.there /\ UNCHANGED << row, mirrors, callback, admin, job >>
        /\ expected'.role = expected.role
    BY <1>2 DEF AppTakes, RoleInv, account, Expects
  <2>2. \A e \in Ids : MirrorTo(e)' = MirrorTo(e)
    BY <2>1 DEF MirrorTo
  <2> QED
    BY <1>0, <2>1, <2>2, RolePut
<1>3. ASSUME NEW m \in BagToSet(mirrors), NEW v \in Docs, MirrorPuts(m, v) PROVE RoleStands'
  <2>1. /\ RoleStands /\ PutDoc(m.id, v) /\ v.there /\ v.role = m.role /\ UNCHANGED << row, callback, admin, job, expected >>
        /\ mirrors' = mirrors (-) SetToBag({ m })
    BY <1>3 DEF MirrorPuts, RoleInv
  <2>2. m.id \in Ids
    BY <1>0 DEF DataType, Mirrors
  <2>3. /\ BagToSet(mirrors') \subseteq BagToSet(mirrors) /\ BagToSet(mirrors) \ { m } \subseteq BagToSet(mirrors')
    BY <1>0, <2>1, MirrorTaken
  <2>4. \A e \in Ids : e # m.id /\ MirrorTo(e) => MirrorTo(e)'
    BY <2>3 DEF MirrorTo
  <2>5. v.role = expected.role
    BY <2>1 DEF RoleStands
  <2> QED
    BY <1>0, <2>1, <2>2, <2>3, <2>4, <2>5, RolePut
<1>4. ASSUME NEW m \in BagToSet(mirrors), Loses(m) PROVE RoleStands'
  BY <1>4 DEF Loses
<1> QED
  BY <1>1, <1>2, <1>3, <1>4

LEMMA RoleListener ==
  ASSUME TypeInv, KnownInv, CarriedInv, RoleInv, NEW d \in Ids, Called(d) \/ SyncUserToPostgres(d)
  PROVE  RoleInv'
<1> SUFFICES ASSUME "role" \in sure' PROVE RoleStands'
  BY DEF RoleInv
<1>0. DataType /\ row \in Rows /\ callback[d] \in Callbacks /\ VersionsInv(d)
  BY DEF TypeInv, DataType, CarriedInv
<1>1. CASE Called(d)
  <2>1. /\ row'.there = row.there /\ row'.role = row.role /\ UNCHANGED << doc, mirrors, admin, job, expected, sure >>
    BY <1>0, <1>1, CalledRow
  <2>2. (\A e \in Ids : Carries(e)' = Carries(e)) /\ (row.there => \A e \in Ids : Coming(e)' = Coming(e))
    BY <1>0, <1>1, FlowCalled
  <2>3. JobHas' = JobHas /\ \A e \in Ids : MirrorTo(e)' = MirrorTo(e)
    BY <2>1 DEF JobHas, MirrorTo
  <2> QED
    BY <2>1, <2>2, <2>3 DEF RoleInv, RoleStands
<1>2. CASE SyncUserToPostgres(d)
  <2>0. PICK v \in Docs : v = callback[d].doc
    BY <1>0 DEF Callbacks
  <2>1. /\ row' = SyncedRow(callback[d].existing, d, v) /\ callback[d].pc = "write"
        /\ UNCHANGED << doc, mirrors, admin, job, expected, sure >>
    BY <1>2, <2>0 DEF SyncUserToPostgres, WriteBypassed, documents, NoNews
  <2>2. /\ \A e \in Ids : Carries(e)' \subseteq Carries(e)
        /\ ~callback[d].existing => \A e \in Ids : Coming(e)' = Coming(e)
    BY <1>0, <1>2, FlowSynced
  <2>3. JobHas' = JobHas /\ \A e \in Ids : MirrorTo(e)' = MirrorTo(e)
    BY <2>1 DEF JobHas, MirrorTo
  <2>4. RoleStands
    BY <2>1 DEF RoleInv
  <2>5. v.role = expected.role /\ expected.role \in Roles
    BY <2>0, <2>1, <2>4 DEF RoleStands, Carries, TypeInv, HistoryType, Expectations
  <2>6. CASE callback[d].existing \/ ~row.there
    <3>1. v.role \in { "none", row'.role }
      BY <1>0, <2>1, <2>6, CarriedType DEF SyncedRow
    <3>2. row'.role = expected.role
      BY <2>5, <3>1 DEF Roles
    <3> QED
      BY <2>1, <2>2, <2>3, <2>4, <3>2 DEF RoleStands
  <2>7. CASE ~callback[d].existing /\ row.there
    <3>1. row' = row
      BY <2>1, <2>7 DEF SyncedRow
    <3> QED
      BY <2>1, <2>2, <2>3, <2>4, <2>7, <3>1 DEF RoleStands
  <2> QED
    BY <2>6, <2>7
<1> QED
  BY <1>1, <1>2

LEMMA RoleJob ==
  ASSUME TypeInv, KnownInv, RoleInv, JobBegins \/ JobGoes \/ JobCarries \/ JobBans
  PROVE  RoleInv'
<1> SUFFICES ASSUME "role" \in sure' PROVE RoleStands'
  BY DEF RoleInv
<1>0. DataType /\ row \in Rows /\ OthersType
  BY DEF TypeInv, DataType
<1>1. CASE JobBegins
  <2>1. /\ RoleStands /\ UNCHANGED << row, mirrors, documents, callback, admin, expected >> /\ Settled
        /\ job'.snapshot = doc /\ JobHas' = { d \in Ids : doc[d].there }
    BY <1>1, RoleInField DEF JobBegins, RoleInv, account
  <2>2. /\ BagToSet(mirrors) = {} /\ JobHas = {} /\ \A d \in Ids : Carries(d) = {} /\ Coming(d) = {} /\ ~MirrorTo(d)
    BY <2>1, SettledIs
  <2>3. (\A d \in Ids : Carries(d)' = Carries(d)) /\ doc' = doc
    BY <2>1, FlowStays DEF documents
  <2>4. \A d \in Ids : doc[d].there => doc[d].role = expected.role
    BY <2>1, <2>2 DEF RoleStands
  <2> QED
    BY <2>1, <2>2, <2>3, <2>4 DEF RoleStands
<1>2. CASE JobGoes
  <2>1. /\ RoleStands /\ UNCHANGED << row, mirrors, documents, callback, admin, expected >>
        /\ JobHas' \subseteq JobHas /\ (job'.pc # "idle" => job'.snapshot = job.snapshot)
    BY <1>2 DEF JobGoes, RoleInv, account
  <2>2. JobHas' # {} => job'.pc # "idle"
    BY DEF JobHas
  <2> QED
    BY <2>1, <2>2, RoleSame
<1>3. CASE JobCarries
  <2>1. PICK v \in Docs : v = job.snapshot[job.of]
    BY <1>0, <1>3 DEF OthersType, JobStates, JobCarries
  <2>2. PICK r : r = SyncedRow(job.existing, job.of, v)
    OBVIOUS
  <2>3. /\ RoleStands /\ Write(r) /\ UNCHANGED << documents, callback, admin, expected >>
        /\ JobHas' \subseteq JobHas /\ job'.snapshot = job.snapshot /\ job.of \in JobHas /\ job.of \in Ids
        /\ job.existing \/ ~row.there
    BY <1>3, <2>1, <2>2 DEF JobCarries, RoleInv
  <2>4. v.role = expected.role /\ expected.role \in Roles
    BY <2>1, <2>3 DEF RoleStands, TypeInv, HistoryType, Expectations
  <2>5. v.role \in { "none", r.role }
    BY <1>0, <2>2, <2>3, CarriedType DEF SyncedRow
  <2>6. r.role = expected.role
    BY <2>4, <2>5 DEF Roles
  <2> QED
    BY <1>0, <2>3, <2>6, RoleWritten
<1>4. CASE JobBans
  <2>1. /\ RoleStands /\ UNCHANGED << mirrors, documents, callback, admin >> /\ expected'.role = expected.role
        /\ row' = Banned(row) /\ JobHas' = {}
    BY <1>4 DEF JobBans, RoleInv
  <2>2. row'.there = row.there /\ row'.role = row.role
    BY <1>0, <2>1, BannedIs
  <2> QED
    BY <2>1, <2>2, RoleSame
<1> QED
  BY <1>1, <1>2, <1>3, <1>4

LEMMA RoleStep == ASSUME TypeInv, KnownInv, CarriedInv, RoleInv, Form PROVE RoleInv'
<1>1. sure' = {} => RoleInv'
  BY DEF RoleInv
<1> QED
  BY <1>1, RoleCall, RoleAdmin, RoleDocuments, RoleListener, RoleJob DEF Form

(***************************************************************************)
(* The link stays the last one                                             *)
(***************************************************************************)

AtLink == \E s \in Sessions : session[s].pc = "linkRow"

\* A row without one has a mirror or a version on its way that will link it to itself.
LinkComes == mirrors # EmptyBag \/ \E d \in Ids : Coming(d) # {}

\* The row is linked to the document expected, and everything that would link it goes there.
LinkStands ==
  /\ row.there => row.link = expected.link \/ (row.link = "none" /\ expected.link = "row" /\ LinkComes)
  /\ \A m \in BagToSet(mirrors) : m.id = expected.link
  /\ \A d \in Ids : Carries(d) # {} => d = expected.link
  /\ admin.pc # "idle" => admin.link = expected.link
  /\ JobHas \subseteq { expected.link }
  /\ row.there => \/ expected.link = "auth"
                  \/ doc[expected.link].there
                  \/ mirrors # EmptyBag
                  \/ \E s \in Sessions : session[s].pc = "doc"
  /\ \A s \in Sessions : session[s].pc \in { "check", "resolve" } => session[s].user.link \in { expected.link, "none" }

\* A call that links the row has it written before anything else is under way.
LinkInv ==
  "link" \in sure =>
    /\ \A s \in Sessions : session[s].pc \in { "linkRow", "doc" } => session[s].uid = expected.link
    /\ ~AtLink => LinkStands

\* The calls stay where they are.
LinkKept ==
  /\ "link" \in sure /\ UNCHANGED session /\ expected'.link = expected.link

LEMMA LinkFrom ==
  ASSUME LinkInv, LinkKept, ~AtLink /\ LinkStands => LinkStands'
  PROVE  LinkInv'
BY DEF LinkInv, LinkKept, AtLink

\* Nothing changes that links the row.
LEMMA LinkSame ==
  ASSUME LinkStands, UNCHANGED << mirrors, documents, callback, session >>, expected'.link = expected.link,
         row'.there = row.there, row'.link = row.link,
         admin'.pc # "idle" => admin'.link = expected.link,
         JobHas' \subseteq { expected.link }
  PROVE  LinkStands'
<1>1. (\A d \in Ids : Carries(d)' = Carries(d) /\ Coming(d)' = Coming(d)) /\ doc' = doc
  BY FlowStays DEF documents
<1> QED
  BY <1>1 DEF LinkStands, LinkComes

\* The row is written where it is, or where it should be.
LEMMA LinkWritten ==
  ASSUME DataType, LinkStands, NEW r, Write(r), UNCHANGED << documents, callback >>, expected'.link = expected.link,
         r.link = expected.link \/ (r.link = "none" /\ expected.link = "row"), expected.link # "none",
         admin'.pc # "idle" => admin.pc # "idle" /\ admin'.link = admin.link,
         JobHas' \subseteq JobHas,
         \A s \in Sessions : session'[s].pc \in { "check", "resolve" } =>
           \/ session'[s].user.link \in { expected.link, "none" }
           \/ session' = session
  PROVE  LinkStands'
<1>1. (\A d \in Ids : Carries(d)' = Carries(d)) /\ doc' = doc
  BY FlowStays DEF documents
<1>2. row' = r /\ BagToSet(mirrors') = BagToSet(mirrors) \cup { MirrorOf(r) } /\ mirrors' # EmptyBag
  BY MirrorAdded
<1>3. MirrorOf(r).id = expected.link
  BY DEF MirrorOf
<1>4. LinkComes'
  BY <1>2 DEF LinkComes
<1>5. \A s \in Sessions : session'[s].pc \in { "check", "resolve" } => session'[s].user.link \in { expected.link, "none" }
  BY DEF LinkStands
<1>6. /\ row'.there => row'.link = expected'.link \/ (row'.link = "none" /\ expected'.link = "row" /\ LinkComes')
      /\ \A m \in BagToSet(mirrors') : m.id = expected'.link
      /\ \A d \in Ids : Carries(d)' # {} => d = expected'.link
      /\ admin'.pc # "idle" => admin'.link = expected'.link
      /\ JobHas' \subseteq { expected'.link }
  BY <1>1, <1>2, <1>3, <1>4 DEF LinkStands
<1> QED
  BY <1>2, <1>5, <1>6 DEF LinkStands

\* The document that is expected is written.
LEMMA LinkPut ==
  ASSUME DataType, LinkStands, NEW d \in Ids, NEW v \in Docs, PutDoc(d, v), v.there, d = expected.link,
         UNCHANGED << row, callback, job >>, expected'.link = expected.link,
         admin'.pc # "idle" => admin' = admin,
         BagToSet(mirrors') \subseteq BagToSet(mirrors),
         \A s \in Sessions : session'[s].pc = "idle" \/ session'[s] = session[s]
  PROVE  LinkStands'
<1>1. /\ doc'[d] = v /\ \A e \in Ids : e # d => Carries(e)' = Carries(e)
      /\ Coming(d)' = Coming(d) \cup { v }
  BY FlowPut
<1>2. JobHas' = JobHas
  BY DEF JobHas
<1>3. LinkComes'
  BY <1>1 DEF LinkComes
<1>4. \A s \in Sessions : session'[s].pc \in { "check", "resolve" } => session'[s].user.link \in { expected'.link, "none" }
  BY DEF LinkStands
<1>5. /\ row'.there => row'.link = expected'.link \/ (row'.link = "none" /\ expected'.link = "row" /\ LinkComes')
      /\ \A m \in BagToSet(mirrors') : m.id = expected'.link
      /\ \A e \in Ids : Carries(e)' # {} => e = expected'.link
      /\ admin'.pc # "idle" => admin'.link = expected'.link
      /\ JobHas' \subseteq { expected'.link }
  BY <1>1, <1>2, <1>3 DEF LinkStands
<1>6. doc'[expected'.link].there
  BY <1>1
<1> QED
  BY <1>4, <1>5, <1>6 DEF LinkStands

\* When nothing else is on its way the row is linked as expected.
LEMMA LinkStill ==
  ASSUME LinkStands, Still, row.there
  PROVE  row.link = expected.link
BY StillFlow DEF LinkStands, LinkComes

LEMMA LinkLooks ==
  ASSUME TypeInv, KnownInv, KnownInv', LinkInv, NEW s \in Sessions, Call(s), Looks(s), "link" \in sure'
  PROVE  LinkInv'
<1>1. /\ UNCHANGED << row, mirrors, documents, expected, callback, admin, job >> /\ "link" \in sure
      /\ session[s].pc \notin { "linkRow", "doc" } /\ session'[s].pc \notin { "linkRow", "doc" }
      /\ \A t \in Sessions \ { s } : session'[t] = session[t]
      /\ session'[s].pc \in { "check", "resolve" } =>
           \/ session'[s].user.link = row.link
           \/ session[s].pc \in { "check", "resolve" } /\ session'[s].user.link = session[s].user.link
  BY DEF Looks, account, Call
<1>2. /\ AtLink' <=> AtLink
      /\ \A t \in Sessions : session'[t].pc \in { "linkRow", "doc" } => session'[t].uid = expected'.link
      /\ (\E t \in Sessions : session'[t].pc = "doc") <=> (\E t \in Sessions : session[t].pc = "doc")
  BY <1>1 DEF LinkInv, AtLink
<1>3. ASSUME LinkStands PROVE LinkStands'
  <2>1. (\A d \in Ids : Carries(d)' = Carries(d) /\ Coming(d)' = Coming(d)) /\ doc' = doc /\ JobHas' = JobHas /\ LinkComes' = LinkComes
    BY <1>1, FlowStays DEF documents, JobHas, LinkComes
  <2>2. session'[s].pc \in { "check", "resolve" } => row.there
    BY <1>1 DEF KnownInv, SessionKnown, Rowed
  <2>3. ASSUME NEW t \in Sessions, session'[t].pc \in { "check", "resolve" } PROVE session'[t].user.link \in { expected'.link, "none" }
    BY <1>1, <1>3, <2>2, <2>3 DEF LinkStands
  <2> QED
    BY <1>1, <1>2, <1>3, <2>1, <2>3 DEF LinkStands
<1> QED
  BY <1>1, <1>2, <1>3 DEF LinkInv

LEMMA LinkResolves ==
  ASSUME TypeInv, KnownInv, LinkInv, NEW s \in Sessions, Call(s), Resolves(s), "link" \in sure'
  PROVE  LinkInv'
<1>0. expected \in Expectations
  BY DEF TypeInv, HistoryType
<1>1. /\ UNCHANGED << row, mirrors, documents, callback, admin, job >> /\ "link" \in sure /\ Settled /\ Alone(s)
      /\ session[s].pc = "resolve"
      /\ \A t \in Sessions \ { s } : session'[t] = session[t] /\ session[t].pc = "idle"
      /\ session'[s].uid \in Ids /\ session'[s].user = session[s].user
      /\ \/ session'[s].pc = "linkRow"
         \/ session'[s].pc = "doc" /\ session'[s].user.link = session'[s].uid
      /\ expected' = [ expected EXCEPT !.link = session'[s].uid ]
  BY DEF Resolves, account, Call, Alone
<1>2. expected'.link = session'[s].uid
  BY <1>0, <1>1 DEF Expectations
<1>3. \A t \in Sessions : session'[t].pc \in { "linkRow", "doc" } => session'[t].uid = expected'.link
  BY <1>1, <1>2
<1>4. LinkStands
  BY <1>1 DEF LinkInv, AtLink
<1>5. CASE session'[s].pc = "linkRow"
  BY <1>3, <1>5 DEF LinkInv, AtLink
<1>6. CASE session'[s].pc = "doc" /\ session'[s].user.link = session'[s].uid
  <2>1. expected'.link = expected.link
    BY <1>1, <1>2, <1>4, <1>6 DEF LinkStands, Ids
  <2>2. (\A d \in Ids : Carries(d)' = Carries(d) /\ Coming(d)' = Coming(d)) /\ doc' = doc /\ JobHas' = JobHas /\ LinkComes' = LinkComes
    BY <1>1, FlowStays DEF documents, JobHas, LinkComes
  <2>3. \A t \in Sessions : session'[t].pc \notin { "check", "resolve" }
    BY <1>1, <1>6
  <2>4. LinkStands'
    BY <1>1, <1>4, <1>6, <2>1, <2>2, <2>3 DEF LinkStands
  <2> QED
    BY <1>3, <2>4 DEF LinkInv
<1> QED
  BY <1>1, <1>5, <1>6

\* A link that nothing else disturbs.
LEMMA LinkMade ==
  ASSUME DataType, NEW r \in Rows, Write(r), UNCHANGED << documents, callback, admin, job >>, Settled,
         expected'.link = MirrorOf(r).id,
         \A s \in Sessions : session'[s].pc \in { "check", "resolve" } => session'[s].user.link = r.link
  PROVE  LinkStands'
<1>1. row' = r /\ BagToSet(mirrors') = BagToSet(mirrors) \cup { MirrorOf(r) } /\ mirrors' # EmptyBag
  BY MirrorAdded
<1>2. BagToSet(mirrors) = {} /\ JobHas = {} /\ admin.pc = "idle" /\ \A d \in Ids : Carries(d) = {}
  BY SettledIs
<1>3. (\A d \in Ids : Carries(d)' = Carries(d)) /\ JobHas' = JobHas
  BY FlowStays DEF documents, JobHas
<1>4. LinkComes'
  BY <1>1 DEF LinkComes
<1>5. r.link = expected'.link \/ (r.link = "none" /\ expected'.link = "row")
  BY DEF MirrorOf
<1> QED
  BY <1>1, <1>2, <1>3, <1>4, <1>5 DEF LinkStands

LEMMA LinkWrites ==
  ASSUME TypeInv, KnownInv, LinkInv, NEW s \in Sessions, Call(s), Writes(s), "link" \in sure'
  PROVE  LinkInv'
<1>0. DataType /\ expected \in Expectations
  BY DEF TypeInv, HistoryType
<1>1. PICK r \in Rows : WritesRow(s, r)
  BY DEF Writes
<1>2. /\ Write(r) /\ row.there /\ UNCHANGED << documents, callback, admin, job >> /\ "link" \in sure
      /\ \A t \in Sessions \ { s } : session'[t] = session[t]
  BY <1>1 DEF WritesRow, Call
<1>3. CASE /\ session[s].pc = "linkRow" /\ expected' = expected /\ r.link = session[s].uid
           /\ session'[s].pc = "doc" /\ session'[s].uid = session[s].uid
           /\ Settled /\ Alone(s)
  <2>1. session[s].uid = expected.link
    BY <1>2, <1>3 DEF LinkInv
  <2>2. \A t \in Sessions \ { s } : session'[t].pc = "idle"
    BY <1>2, <1>3 DEF Alone
  <2>3. session[s].uid \in Ids
    BY <1>3 DEF TypeInv, SessionsType, SessionType
  <2>4. MirrorOf(r).id = expected'.link
    BY <1>3, <2>1, <2>3 DEF MirrorOf, Ids
  <2>5. LinkStands'
    BY <1>0, <1>2, <1>3, <2>2, <2>4, LinkMade
  <2> QED
    BY <1>3, <2>1, <2>2, <2>5 DEF LinkInv
<1>4. CASE /\ session[s].pc \notin { "linkRow", "doc" } /\ expected' = expected /\ r.link = row.link
           /\ session'[s].pc \notin { "linkRow", "doc" }
           /\ session'[s].pc \in { "check", "resolve" } => session'[s].user.link = row.link
  <2>1. /\ AtLink' <=> AtLink
        /\ \A t \in Sessions : session'[t].pc \in { "linkRow", "doc" } => session'[t].uid = expected'.link
    BY <1>2, <1>4 DEF LinkInv, AtLink
  <2>2. ASSUME LinkStands PROVE LinkStands'
    <3>1. r.link = expected.link \/ (r.link = "none" /\ expected.link = "row")
      BY <1>2, <1>4, <2>2 DEF LinkStands
    <3>2. \A t \in Sessions : session'[t].pc \in { "check", "resolve" } => session'[t].user.link \in { expected.link, "none" }
      BY <1>2, <1>4, <2>2, <3>1 DEF LinkStands
    <3>3. JobHas' = JobHas
      BY <1>2 DEF JobHas
    <3>4. expected.link # "none"
      BY DEF KnownInv, Ids
    <3> QED
      BY <1>0, <1>2, <1>4, <2>2, <3>1, <3>2, <3>3, <3>4, LinkWritten
  <2> QED
    BY <1>2, <2>1, <2>2 DEF LinkInv
<1>5. CASE /\ session[s].pc \notin { "linkRow", "doc" } /\ expected' = [ expected EXCEPT !.link = "auth" ]
           /\ r.link = "auth" /\ session'[s].pc = "idle" /\ Settled /\ Alone(s)
  <2>1. \A t \in Sessions : session'[t].pc = "idle"
    BY <1>2, <1>5 DEF Alone
  <2>2. expected'.link = "auth" /\ MirrorOf(r).id = "auth"
    BY <1>0, <1>5 DEF Expectations, MirrorOf
  <2>3. LinkStands'
    BY <1>0, <1>2, <1>5, <2>1, <2>2, LinkMade
  <2> QED
    BY <2>1, <2>3 DEF LinkInv
<1> QED
  BY <1>1, <1>3, <1>4, <1>5 DEF WritesRow

LEMMA LinkCreates ==
  ASSUME TypeInv, KnownInv, LinkInv, NEW s \in Sessions, Call(s), Creates(s), "link" \in sure'
  PROVE  LinkInv'
<1>0. DataType
  BY DEF TypeInv
<1>1. PICK r \in Rows : CreatesRow(s, r)
  BY DEF Creates
<1>2. /\ Write(r) /\ ~row.there /\ UNCHANGED << documents, callback, admin, job >> /\ Settled
      /\ expected'.link = MirrorOf(r).id
      /\ session'[s].pc \in { "tokens", "registerLink", "check", "password" } /\ session'[s].user = r
      /\ \A t \in Sessions \ { s } : session'[t] = session[t]
  BY <1>1, RoleInField DEF CreatesRow, Call
<1>3. \A t \in Sessions : session[t].pc \notin Rowed
  BY <1>2 DEF KnownInv, SessionKnown
<1>4. \A t \in Sessions : session'[t].pc \in { "check", "resolve" } => session'[t].user.link = r.link
  BY <1>2, <1>3 DEF Rowed
<1>5. LinkStands'
  BY <1>0, <1>2, <1>4, LinkMade
<1>6. \A t \in Sessions : session'[t].pc \notin { "linkRow", "doc" }
  BY <1>2, <1>3 DEF Rowed
<1> QED
  BY <1>5, <1>6 DEF LinkInv

LEMMA LinkPuts ==
  ASSUME TypeInv, KnownInv, LinkInv, NEW s \in Sessions, Call(s), Puts(s), "link" \in sure'
  PROVE  LinkInv'
<1>0. DataType
  BY DEF TypeInv
<1>1. PICK v \in Docs : PutsDoc(s, v)
  BY DEF Puts
<1>2. PICK d \in Ids : d = session[s].uid
  BY <1>1 DEF PutsDoc
<1>3. /\ session[s].pc = "doc" /\ PutDoc(d, v) /\ v.there /\ "link" \in sure /\ session'[s].pc = "idle"
      /\ UNCHANGED << row, mirrors, expected, callback, admin, job >>
      /\ \A t \in Sessions \ { s } : session'[t] = session[t]
  BY <1>1, <1>2 DEF PutsDoc, Call, account
<1>4. d = expected.link
  BY <1>2, <1>3 DEF LinkInv
<1>5. \A t \in Sessions : session'[t].pc = "idle" \/ session'[t] = session[t]
  BY <1>3
<1>6. LinkStands => LinkStands'
  BY <1>0, <1>3, <1>4, <1>5, LinkPut
<1>7. AtLink => AtLink'
  BY <1>3 DEF AtLink
<1> QED
  BY <1>3, <1>5, <1>6, <1>7 DEF LinkInv

LEMMA LinkCall == ASSUME TypeInv, KnownInv, KnownInv', LinkInv, NEW s \in Sessions, Call(s) PROVE LinkInv'
<1>1. "link" \notin sure' => LinkInv'
  BY DEF LinkInv
<1> QED
  BY <1>1, LinkLooks, LinkResolves, LinkWrites, LinkCreates, LinkPuts DEF Call

LEMMA LinkAdmin ==
  ASSUME TypeInv, KnownInv, LinkInv, "link" \in sure',
         \/ Rests
         \/ \E status \in Statuses : AsksStatus(status)
         \/ \E r \in Rows : GivesRole(r) \/ Deletes(r) \/ GivesStatus(r)
         \/ EndsStatus
  PROVE  LinkInv'
<1>0. DataType /\ row \in Rows /\ expected.link \in Ids
  BY DEF TypeInv, DataType, KnownInv
<1>1. CASE Rests
  <2>1. /\ UNCHANGED << row, mirrors, documents, callback, session, admin, job, expected >> /\ LinkKept
    BY <1>1 DEF Rests, account, LinkKept
  <2>2. JobHas' = JobHas
    BY <2>1 DEF JobHas
  <2>3. LinkStands => LinkStands'
    <3>1. SUFFICES ASSUME LinkStands PROVE LinkStands'
      OBVIOUS
    <3>2. (admin'.pc # "idle" => admin'.link = expected.link) /\ JobHas' \subseteq { expected.link }
      BY <2>1, <2>2, <3>1 DEF LinkStands
    <3> QED
      BY <2>1, <3>1, <3>2, LinkSame
  <2> QED
    BY <2>1, <2>3, LinkFrom
<1>2. ASSUME NEW status \in Statuses, AsksStatus(status) PROVE LinkInv'
  <2>1. /\ UNCHANGED << row, mirrors, documents, callback, session, job >> /\ Settled /\ row.there
        /\ expected'.link = expected.link /\ admin'.link = row.link /\ LinkKept
    BY <1>2, RoleInField DEF AsksStatus, account, Expects, LinkKept
  <2>2. ASSUME LinkStands PROVE LinkStands'
    <3>1. row.link = expected.link
      BY <2>1, <2>2, LinkStill DEF Settled
    <3>2. JobHas' = JobHas
      BY <2>1 DEF JobHas
    <3>3. JobHas \subseteq { expected.link }
      BY <2>2 DEF LinkStands
    <3> QED
      BY <2>1, <2>2, <3>1, <3>2, <3>3, LinkSame
  <2> QED
    BY <2>1, <2>2, LinkFrom
<1>3. ASSUME NEW r \in Rows, Rewrites(r), expected'.link = expected.link,
             admin'.pc # "idle" => admin.pc # "idle" /\ admin'.link = admin.link
      PROVE  LinkInv'
  <2>1. /\ Write(r) /\ row.there /\ r.link = row.link /\ UNCHANGED << documents, callback, session, job >> /\ LinkKept
    BY <1>3 DEF Rewrites, LinkKept
  <2>2. ASSUME LinkStands PROVE LinkStands'
    <3>1. r.link = expected.link \/ (r.link = "none" /\ expected.link = "row")
      BY <2>1, <2>2 DEF LinkStands
    <3>2. JobHas' = JobHas /\ expected.link # "none"
      BY <1>0, <2>1 DEF JobHas, Ids
    <3> QED
      BY <1>0, <1>3, <2>1, <2>2, <3>1, <3>2, LinkWritten
  <2> QED
    BY <2>1, <2>2, LinkFrom
<1>4. ASSUME NEW r \in Rows, GivesRole(r) \/ Deletes(r) \/ GivesStatus(r) PROVE LinkInv'
  <2>1. Rewrites(r) /\ expected'.link = expected.link /\ (admin'.pc # "idle" => admin.pc # "idle" /\ admin'.link = admin.link)
    BY <1>4 DEF GivesRole, Deletes, GivesStatus, ExpectsSame, Expects
  <2> QED
    BY <1>3, <2>1
<1>5. CASE EndsStatus
  <2>1. /\ UNCHANGED << row, mirrors, callback, session, job >> /\ admin.pc = "doc" /\ admin'.pc = "idle" /\ LinkKept
        /\ expected'.link = expected.link
    BY <1>5 DEF EndsStatus, account, ExpectsSame, Expects, LinkKept
  <2>2. ASSUME UNCHANGED documents, LinkStands PROVE LinkStands'
    <3>1. JobHas' \subseteq { expected.link }
      BY <2>1, <2>2 DEF JobHas, LinkStands
    <3> QED
      BY <2>1, <2>2, <3>1, LinkSame
  <2>3. ASSUME NEW v \in Docs, PutsStatus(v), LinkStands PROVE LinkStands'
    <3>1. PICK d \in Ids : d = admin.link
      BY <2>3 DEF PutsStatus
    <3>2. PutDoc(d, v) /\ v.there
      BY <2>3, <3>1 DEF PutsStatus
    <3>3. d = expected.link
      BY <2>1, <2>3, <3>1 DEF LinkStands
    <3> QED
      BY <1>0, <2>1, <2>3, <3>2, <3>3, LinkPut
  <2>4. LinkStands => LinkStands'
    BY <1>5, <2>2, <2>3 DEF EndsStatus
  <2> QED
    BY <2>1, <2>4, LinkFrom
<1> QED
  BY <1>1, <1>2, <1>4, <1>5

LEMMA LinkDocuments ==
  ASSUME TypeInv, KnownInv, LinkInv, "link" \in sure',
         \/ \E v \in Docs : AppPuts(v) \/ AppTakes(v)
         \/ \E m \in BagToSet(mirrors) : (\E v \in Docs : MirrorPuts(m, v)) \/ Loses(m)
  PROVE  LinkInv'
<1>0. DataType /\ "auth" \in Ids
  BY DEF TypeInv, Ids
<1>1. ASSUME NEW v \in Docs, AppPuts(v) PROVE LinkInv'
  <2>1. /\ PutDoc("auth", v) /\ v.there /\ UNCHANGED << row, mirrors, callback, session, admin, job >> /\ Quiet
        /\ (\A d \in Ids : doc[d].there => d = "auth") /\ expected'.link = "auth" /\ "link" \in sure
    BY <1>1, RoleInField DEF AppPuts, account, Expects
  <2>2. /\ mirrors = EmptyBag /\ BagToSet(mirrors) = {} /\ JobHas = {} /\ admin.pc = "idle"
        /\ \A d \in Ids : Carries(d) = {} /\ Coming(d) = {}
    BY <2>1, SettledIs DEF Quiet
  <2>3. \A s \in Sessions : session[s].pc = "idle"
    BY <2>1 DEF Quiet, SessionsIdle
  <2>4. LinkStands
    BY <2>1, <2>3 DEF LinkInv, AtLink
  <2>5. row.there => expected.link = "auth" /\ row.link = "auth"
    BY <2>1, <2>2, <2>3, <2>4 DEF LinkStands, LinkComes, KnownInv
  <2>6. \A e \in Ids : e # "auth" => Carries(e)' = Carries(e)
    BY <1>0, <2>1, FlowPut
  <2>7. JobHas' = JobHas
    BY <2>1 DEF JobHas
  <2>8. LinkStands'
    BY <2>1, <2>2, <2>3, <2>5, <2>6, <2>7 DEF LinkStands
  <2> QED
    BY <2>1, <2>3, <2>8 DEF LinkInv
<1>2. ASSUME NEW v \in Docs, AppTakes(v) PROVE LinkInv'
  <2>1. /\ PutDoc("auth", v) /\ ~v.there /\ UNCHANGED << row, mirrors, callback, session, admin, job >>
        /\ expected'.link = expected.link /\ Quiet /\ OneDocument /\ doc["auth"].there /\ "link" \in sure
    BY <1>2, RoleInField DEF AppTakes, account, Expects
  <2>2. \A s \in Sessions : session[s].pc = "idle"
    BY <2>1 DEF Quiet, SessionsIdle
  <2>3. LinkStands
    BY <2>1, <2>2 DEF LinkInv, AtLink
  <2>4. row.link = "auth" /\ row.there
    BY <1>0, <2>1 DEF OneDocument, KnownInv
  <2>5. expected.link = "auth"
    BY <2>1, <2>3, <2>4, LinkStill DEF Quiet, Settled
  <2>6. \A e \in Ids : Carries(e)' = Carries(e) /\ Coming(e)' = Coming(e)
    BY <1>0, <2>1, FlowPut
  <2>7. JobHas' = JobHas
    BY <2>1 DEF JobHas
  <2>8. LinkStands'
    BY <2>1, <2>2, <2>3, <2>4, <2>5, <2>6, <2>7 DEF LinkStands
  <2> QED
    BY <2>1, <2>2, <2>8 DEF LinkInv
<1>3. ASSUME NEW m \in BagToSet(mirrors), NEW v \in Docs, MirrorPuts(m, v) PROVE LinkInv'
  <2>1. /\ PutDoc(m.id, v) /\ v.there /\ UNCHANGED << row, callback, session, admin, job, expected >> /\ LinkKept
        /\ mirrors' = mirrors (-) SetToBag({ m })
    BY <1>3 DEF MirrorPuts, LinkKept
  <2>2. m.id \in Ids
    BY <1>0 DEF DataType, Mirrors
  <2>3. BagToSet(mirrors') \subseteq BagToSet(mirrors)
    BY <1>0, <2>1, MirrorTaken
  <2>4. ASSUME LinkStands PROVE LinkStands'
    <3>1. m.id = expected.link
      BY <2>4 DEF LinkStands
    <3> QED
      BY <1>0, <2>1, <2>2, <2>3, <2>4, <3>1, LinkPut
  <2> QED
    BY <2>1, <2>4, LinkFrom
<1>4. ASSUME NEW m \in BagToSet(mirrors), Loses(m) PROVE LinkInv'
  BY <1>4 DEF Loses
<1> QED
  BY <1>1, <1>2, <1>3, <1>4

LEMMA LinkListener ==
  ASSUME TypeInv, KnownInv, CarriedInv, LinkInv, NEW d \in Ids, Called(d) \/ SyncUserToPostgres(d), "link" \in sure'
  PROVE  LinkInv'
<1>0. DataType /\ row \in Rows /\ callback[d] \in Callbacks /\ VersionsInv(d) /\ inbox[d] \in Seq(Docs)
  BY DEF TypeInv, DataType, CarriedInv
<1>1. CASE Called(d)
  <2>1. /\ row'.there = row.there /\ row'.link = row.link
        /\ UNCHANGED << doc, mirrors, session, admin, job, expected, sure >> /\ LinkKept
    BY <1>0, <1>1, CalledRow DEF LinkKept
  <2>2. (\A e \in Ids : Carries(e)' = Carries(e)) /\ (row.there => \A e \in Ids : Coming(e)' = Coming(e))
    BY <1>0, <1>1, FlowCalled
  <2>3. JobHas' = JobHas /\ (row.there => LinkComes' = LinkComes)
    BY <2>1, <2>2 DEF JobHas, LinkComes
  <2>4. LinkStands => LinkStands'
    BY <2>1, <2>2, <2>3 DEF LinkStands
  <2> QED
    BY <2>1, <2>4, LinkFrom
<1>2. CASE SyncUserToPostgres(d)
  <2>0. PICK v \in Docs : v = callback[d].doc
    BY <1>0 DEF Callbacks
  <2>1. /\ row' = SyncedRow(callback[d].existing, d, v) /\ callback[d].pc = "write"
        /\ UNCHANGED << doc, mirrors, session, admin, job, expected, sure >> /\ LinkKept
    BY <1>2, <2>0 DEF SyncUserToPostgres, WriteBypassed, documents, NoNews, LinkKept
  <2>2. /\ \A e \in Ids : Carries(e)' \subseteq Carries(e)
        /\ ~callback[d].existing => \A e \in Ids : Coming(e)' = Coming(e)
    BY <1>0, <1>2, FlowSynced
  <2>3. JobHas' = JobHas
    BY <2>1 DEF JobHas
  <2>4. ASSUME LinkStands PROVE LinkStands'
    <3>1. d = expected.link
      BY <2>1, <2>4 DEF LinkStands, Carries
    <3>2. CASE callback[d].existing \/ ~row.there
      <4>1. row'.link = d
        BY <1>0, <2>1, <3>2, CarriedType DEF SyncedRow
      <4>2. d = "auth" \/ doc[d].there
        <5>1. inbox[d] # << >> => Len(inbox[d]) \in 1 .. Len(inbox[d])
          BY <1>0
        <5> QED
          BY <1>0, <2>1, <5>1 DEF VersionsInv
      <4> QED
        BY <2>1, <2>2, <2>3, <2>4, <3>1, <4>1, <4>2 DEF LinkStands
    <3>3. CASE ~callback[d].existing /\ row.there
      <4>1. row' = row
        BY <2>1, <3>3 DEF SyncedRow
      <4>2. LinkComes' = LinkComes
        BY <2>1, <2>2, <3>3 DEF LinkComes
      <4> QED
        BY <2>1, <2>2, <2>3, <2>4, <4>1, <4>2 DEF LinkStands
    <3> QED
      BY <3>2, <3>3
  <2> QED
    BY <2>1, <2>4, LinkFrom
<1> QED
  BY <1>1, <1>2

LEMMA LinkJob ==
  ASSUME TypeInv, KnownInv, LinkInv, JobBegins \/ JobGoes \/ JobCarries \/ JobBans, "link" \in sure'
  PROVE  LinkInv'
<1>0. DataType /\ row \in Rows /\ OthersType /\ expected.link \in Ids
  BY DEF TypeInv, DataType, KnownInv
<1>1. CASE JobBegins
  <2>1. /\ UNCHANGED << row, mirrors, documents, callback, session, admin, expected >> /\ Settled /\ OneDocument
        /\ JobHas' = { d \in Ids : doc[d].there } /\ LinkKept
    BY <1>1, RoleInField DEF JobBegins, account, LinkKept
  <2>2. ASSUME LinkStands PROVE LinkStands'
    <3>1. admin.pc = "idle"
      BY <2>1 DEF Settled
    <3>2. ASSUME NEW d \in JobHas' PROVE d = expected.link
      <4>1. d = row.link /\ d \in Ids
        BY <2>1, <3>2 DEF OneDocument
      <4>2. row.there
        BY <4>1 DEF KnownInv, Ids
      <4> QED
        BY <2>1, <2>2, <4>1, <4>2, LinkStill DEF Settled
    <3> QED
      BY <2>1, <2>2, <3>1, <3>2, LinkSame
  <2> QED
    BY <2>1, <2>2, LinkFrom
<1>2. CASE JobGoes
  <2>1. /\ UNCHANGED << row, mirrors, documents, callback, session, admin, expected >> /\ LinkKept /\ JobHas' \subseteq JobHas
    BY <1>2 DEF JobGoes, account, LinkKept
  <2>2. ASSUME LinkStands PROVE LinkStands'
    <3>1. JobHas' \subseteq { expected.link } /\ (admin'.pc # "idle" => admin'.link = expected.link)
      BY <2>1, <2>2 DEF LinkStands
    <3> QED
      BY <2>1, <2>2, <3>1, LinkSame
  <2> QED
    BY <2>1, <2>2, LinkFrom
<1>3. CASE JobCarries
  <2>1. PICK v \in Docs : v = job.snapshot[job.of]
    BY <1>0, <1>3 DEF OthersType, JobStates, JobCarries
  <2>2. PICK r : r = SyncedRow(job.existing, job.of, v)
    OBVIOUS
  <2>3. /\ Write(r) /\ UNCHANGED << documents, callback, session, admin, expected >> /\ LinkKept
        /\ JobHas' \subseteq JobHas /\ job.of \in JobHas /\ job.of \in Ids /\ (job.existing \/ ~row.there)
    BY <1>3, <2>1, <2>2 DEF JobCarries, LinkKept
  <2>4. ASSUME LinkStands PROVE LinkStands'
    <3>1. job.of = expected.link
      BY <2>3, <2>4 DEF LinkStands
    <3>2. r.link = expected.link /\ expected.link # "none"
      <4>1. CASE job.existing
        BY <1>0, <2>1, <2>2, <2>3, <3>1, <4>1, CarriedType DEF SyncedRow, Ids
      <4>2. CASE ~job.existing /\ ~row.there
        BY <1>0, <2>1, <2>2, <2>3, <3>1, <4>2, CarriedType DEF SyncedRow, Ids
      <4> QED
        BY <2>3, <4>1, <4>2
    <3> QED
      BY <1>0, <2>3, <2>4, <3>2, LinkWritten
  <2> QED
    BY <2>3, <2>4, LinkFrom
<1>4. CASE JobBans
  <2>1. /\ UNCHANGED << mirrors, documents, callback, session, admin >> /\ expected'.link = expected.link /\ LinkKept
        /\ row' = Banned(row) /\ JobHas' = {}
    BY <1>4 DEF JobBans, LinkKept
  <2>2. row'.there = row.there /\ row'.link = row.link
    BY <1>0, <2>1, BannedIs
  <2>3. ASSUME LinkStands PROVE LinkStands'
    <3>1. admin'.pc # "idle" => admin'.link = expected.link
      BY <2>1, <2>3 DEF LinkStands
    <3> QED
      BY <2>1, <2>2, <2>3, <3>1, LinkSame
  <2> QED
    BY <2>1, <2>3, LinkFrom
<1> QED
  BY <1>1, <1>2, <1>3, <1>4

LEMMA LinkStep == ASSUME TypeInv, KnownInv, KnownInv', CarriedInv, LinkInv, Form PROVE LinkInv'
<1>1. "link" \notin sure' => LinkInv'
  BY DEF LinkInv
<1> QED
  BY <1>1, LinkCall, LinkAdmin, LinkDocuments, LinkListener, LinkJob DEF Form

(***************************************************************************)
(* The status stays the last one                                           *)
(***************************************************************************)

\* A status that is not the last one.
Old(status) == status \notin { expected.status, "none" }

\* What will set an old status right in the document: the administrator's call, or the mirror
\* when its write of the document was lost.
Replaced(d) ==
  \/ admin.pc = "row" /\ d = admin.link
  \/ admin.pc = "doc" /\ d = admin.link /\ (faults = 0 => MirrorTo(d))
  \/ admin.pc = "idle" /\ faults # 0 /\ MirrorTo(d)

\* What will set it right in the row.
StatusComes ==
  \/ \E d \in Ids : Old(doc[d].status)
  \/ \E d \in Ids : \E v \in Coming(d) : v.status = expected.status
  \/ Removing

NothingOld == \A d \in Ids : ~Old(doc[d].status) /\ \A v \in Carries(d) : ~Old(v.status)

\* The removal of the document finds the row it is about.
RemovalFinds ==
  /\ row.link = "auth" /\ mirrors = EmptyBag
  /\ \A d \in Ids : Carries(d) # {} => d = "auth"
  /\ \A s \in Sessions :
       /\ session[s].pc = "doc" => session[s].uid = "auth"
       /\ session[s].pc \in { "check", "resolve" } => session[s].user.link = "auth"

MirrorsLast == \A m \in BagToSet(mirrors) : m.status = expected.status
DocsReplaced == \A d \in Ids : Old(doc[d].status) => Replaced(d)
AdminLast == admin.pc # "idle" => admin.status = expected.status /\ job.pc = "idle"

JobLast ==
  job.pc # "idle" =>
    /\ NothingOld /\ (row.there => row.status = expected.status)
    /\ \A d \in JobHas : ~Old(job.snapshot[d].status)

\* Before there is a row.
FirstLast ==
  ~row.there =>
    /\ \A d \in Ids : doc[d].there => doc[d].status = expected.status
    /\ \A d \in Ids : \A v \in Carries(d) : v.status = expected.status
    /\ JobHas = {}

\* An old version without an end would leave the row with the status it has.
VersionsLast == \A d \in Ids : (\E v \in Carries(d) : Old(v.status)) => doc[d].status # "none"
RowLast == row.there => row.status = expected.status \/ StatusComes
RemovalLast ==
  Removing => /\ expected.status = "BANNED" /\ NothingOld /\ admin.pc = "idle" /\ job.pc = "idle"
              /\ row.there => row.status = "BANNED" \/ RemovalFinds

\* Everything that carries a status carries the last one, what has not got it will, and the
\* administrator's own write of the row comes before all that.
StatusStands ==
  /\ MirrorsLast /\ DocsReplaced /\ AdminLast /\ JobLast /\ FirstLast
  /\ admin.pc # "row" => VersionsLast /\ RowLast /\ RemovalLast

StatusInv == "status" \in sure => StatusStands

\* When nothing is on its way row and documents have it.
LEMMA StatusSettled ==
  ASSUME StatusStands, Settled
  PROVE  (\A d \in Ids : ~Old(doc[d].status)) /\ (row.there => row.status = expected.status)
<1>1. /\ ~Removing /\ admin.pc = "idle" /\ \A d \in Ids : Coming(d) = {} /\ ~MirrorTo(d)
  BY SettledIs
<1>2. \A d \in Ids : ~Old(doc[d].status)
  BY <1>1 DEF StatusStands, DocsReplaced, Replaced
<1>3. ~StatusComes
  BY <1>1, <1>2 DEF StatusComes
<1> QED
  BY <1>1, <1>2, <1>3 DEF StatusStands, RowLast

\* Neither row nor documents get another status.
LEMMA StatusSame ==
  ASSUME StatusStands, UNCHANGED << mirrors, documents, callback, admin >>, expected'.status = expected.status,
         row'.there = row.there, row'.status = row.status, faults # 0 => faults' # 0,
         job'.pc # "idle" => job.pc # "idle",
         JobHas' \subseteq JobHas, JobHas' # {} => job'.snapshot = job.snapshot,
         RemovalFinds => RemovalFinds'
  PROVE  StatusStands'
<1>1. /\ \A d \in Ids : Carries(d)' = Carries(d) /\ Coming(d)' = Coming(d) /\ MirrorTo(d)' = MirrorTo(d)
      /\ Removing' = Removing /\ doc' = doc
  BY FlowStays DEF documents, MirrorTo
<1>2. MirrorsLast' /\ AdminLast'
  BY DEF StatusStands, MirrorsLast, AdminLast
<1>3. DocsReplaced'
  BY <1>1 DEF StatusStands, DocsReplaced, Old, Replaced
<1>4. NothingOld' = NothingOld
  BY <1>1 DEF NothingOld, Old
<1>5. JobLast'
  BY <1>4 DEF StatusStands, JobLast, Old
<1>6. FirstLast'
  BY <1>1 DEF StatusStands, FirstLast
<1>7. admin.pc # "row" => VersionsLast' /\ RowLast'
  BY <1>1 DEF StatusStands, VersionsLast, RowLast, StatusComes, Old
<1>8. admin.pc # "row" => RemovalLast'
  BY <1>1, <1>4 DEF StatusStands, RemovalLast
<1> QED
  BY <1>2, <1>3, <1>5, <1>6, <1>7, <1>8 DEF StatusStands

\* The row is written with the status that is expected.
LEMMA StatusWritten ==
  ASSUME DataType, StatusStands, NEW r, Write(r), r.there, r.status = expected.status,
         expected'.status = expected.status, UNCHANGED << documents, callback, admin, faults >>,
         job'.pc # "idle" => job.pc # "idle",
         JobHas' \subseteq JobHas, JobHas' # {} => job'.snapshot = job.snapshot
  PROVE  StatusStands'
<1>1. /\ \A d \in Ids : Carries(d)' = Carries(d) /\ Coming(d)' = Coming(d)
      /\ Removing' = Removing /\ doc' = doc
  BY FlowStays DEF documents
<1>2. row' = r /\ BagToSet(mirrors') = BagToSet(mirrors) \cup { MirrorOf(r) } /\ MirrorOf(r).status = r.status
  BY MirrorAdded DEF MirrorOf
<1>3. \A d \in Ids : MirrorTo(d) => MirrorTo(d)'
  BY <1>2 DEF MirrorTo
<1>4. MirrorsLast' /\ AdminLast'
  BY <1>2 DEF StatusStands, MirrorsLast, AdminLast
<1>5. DocsReplaced'
  BY <1>1, <1>3 DEF StatusStands, DocsReplaced, Old, Replaced
<1>6. NothingOld' = NothingOld
  BY <1>1 DEF NothingOld, Old
<1>7. JobLast' /\ FirstLast'
  BY <1>2, <1>6 DEF StatusStands, JobLast, FirstLast, Old
<1>8. admin.pc # "row" => VersionsLast' /\ RowLast'
  BY <1>1, <1>2 DEF StatusStands, VersionsLast, RowLast, Old
<1>9. admin.pc # "row" => RemovalLast'
  BY <1>1, <1>2, <1>6 DEF StatusStands, RemovalLast
<1> QED
  BY <1>4, <1>5, <1>7, <1>8, <1>9 DEF StatusStands

LEMMA StatusLooks ==
  ASSUME StatusStands, NEW s \in Sessions, Call(s), Looks(s) \/ Resolves(s), expected \in Expectations
  PROVE  StatusStands'
<1>1. /\ UNCHANGED << row, mirrors, documents, callback, admin, job >> /\ (faults # 0 => faults' # 0)
      /\ \A t \in Sessions \ { s } : session'[t] = session[t]
  BY DEF Looks, Resolves, account, Call
<1>2. expected'.status = expected.status
  BY DEF Looks, Resolves, Expectations
<1>3. ASSUME RemovalFinds PROVE RemovalFinds'
  <2>1. \A d \in Ids : Carries(d)' = Carries(d)
    BY <1>1, FlowStays DEF documents
  <2>2. /\ session'[s].pc = "doc" => session'[s].uid = "auth"
        /\ session'[s].pc \in { "check", "resolve" } => session'[s].user.link = "auth"
    BY <1>3 DEF RemovalFinds, Looks, Resolves
  <2> QED
    BY <1>1, <1>3, <2>1, <2>2 DEF RemovalFinds
<1>4. JobHas' = JobHas
  BY <1>1 DEF JobHas
<1> QED
  BY <1>1, <1>2, <1>3, <1>4, StatusSame

LEMMA StatusCreates ==
  ASSUME TypeInv, KnownInv, NEW s \in Sessions, Call(s), Creates(s), "status" \in sure'
  PROVE  StatusStands'
<1>0. DataType
  BY DEF TypeInv
<1>1. PICK r \in Rows : CreatesRow(s, r)
  BY DEF Creates
<1>2. /\ Write(r) /\ r.there /\ UNCHANGED << documents, callback, admin, job >> /\ Settled
      /\ (\A d \in Ids : ~doc[d].there) /\ expected'.status = r.status
  BY <1>1, RoleInField DEF CreatesRow, Call
<1>3. /\ BagToSet(mirrors) = {} /\ ~Removing /\ admin.pc = "idle" /\ job.pc = "idle" /\ JobHas = {}
      /\ \A d \in Ids : Carries(d) = {}
  BY <1>2, SettledIs
<1>4. /\ \A d \in Ids : Carries(d)' = {}
      /\ ~Removing' /\ doc' = doc
  BY <1>2, <1>3, FlowStays DEF documents
<1>5. row' = r /\ BagToSet(mirrors') = { MirrorOf(r) } /\ MirrorOf(r).status = r.status
  BY <1>0, <1>2, <1>3, MirrorAdded DEF MirrorOf
<1>6. \A d \in Ids : doc'[d].status = "none"
  BY <1>2, <1>4 DEF KnownInv
<1> QED
  BY <1>2, <1>3, <1>4, <1>5, <1>6
     DEF StatusStands, MirrorsLast, DocsReplaced, AdminLast, JobLast, FirstLast, VersionsLast, RowLast, RemovalLast, Old

LEMMA StatusPuts ==
  ASSUME TypeInv, KnownInv, StatusStands, NEW s \in Sessions, Call(s), Puts(s)
  PROVE  StatusStands'
<1>0. DataType
  BY DEF TypeInv
<1>1. PICK v \in Docs : PutsDoc(s, v)
  BY DEF Puts
<1>2. PICK d \in Ids : d = session[s].uid
  BY <1>1 DEF PutsDoc
<1>3. /\ session[s].pc = "doc" /\ PutDoc(d, v) /\ v.there /\ v.status = doc[d].status /\ session'[s].pc = "idle"
      /\ UNCHANGED << row, mirrors, expected, callback, admin, job, faults >>
      /\ \A t \in Sessions \ { s } : session'[t] = session[t]
  BY <1>1, <1>2 DEF PutsDoc, Call, account
<1>4. row.there
  BY <1>3 DEF KnownInv, SessionKnown, Rowed
<1>5. /\ \A e \in Ids : doc'[e].status = doc[e].status /\ Coming(e) \subseteq Coming(e)'
      /\ \A e \in Ids : e # d => Carries(e)' = Carries(e)
      /\ Carries(d)' = Carries(d) \cup { v } /\ Removing' = Removing
  BY <1>0, <1>3, FlowPut
<1>6. \A e \in Ids : MirrorTo(e)' = MirrorTo(e)
  BY <1>3 DEF MirrorTo
<1>7. MirrorsLast' /\ AdminLast' /\ FirstLast'
  BY <1>3, <1>4 DEF StatusStands, MirrorsLast, AdminLast, FirstLast
<1>8. DocsReplaced'
  BY <1>3, <1>5, <1>6 DEF StatusStands, DocsReplaced, Old, Replaced
<1>9. NothingOld => NothingOld'
  BY <1>3, <1>5 DEF NothingOld, Old
<1>10. JobLast'
  BY <1>3, <1>9 DEF StatusStands, JobLast, JobHas, Old
<1>11. admin.pc # "row" => VersionsLast'
  BY <1>3, <1>5 DEF StatusStands, VersionsLast, Old
<1>12. admin.pc # "row" => RowLast'
  BY <1>3, <1>5 DEF StatusStands, RowLast, StatusComes, Old
<1>13. RemovalFinds => RemovalFinds'
  BY <1>2, <1>3, <1>5 DEF RemovalFinds
<1>14. admin.pc # "row" => RemovalLast'
  BY <1>3, <1>5, <1>9, <1>13 DEF StatusStands, RemovalLast
<1> QED
  BY <1>3, <1>7, <1>8, <1>10, <1>11, <1>12, <1>14 DEF StatusStands

LEMMA StatusCall ==
  ASSUME TypeInv, KnownInv, StatusInv, NEW s \in Sessions, Call(s), "status" \in sure'
  PROVE  StatusInv'
<1>0. DataType /\ expected \in Expectations
  BY DEF TypeInv, HistoryType
<1>1. CASE Looks(s) \/ Resolves(s)
  <2>1. StatusStands
    BY <1>1 DEF StatusInv, Looks, Resolves
  <2> QED
    BY <1>0, <1>1, <2>1, StatusLooks DEF StatusInv
<1>2. CASE Writes(s)
  <2>1. PICK r \in Rows : WritesRow(s, r)
    BY <1>2 DEF Writes
  <2>2. /\ StatusStands /\ Write(r) /\ UNCHANGED << documents, callback, admin, job, faults >>
        /\ row.status = expected.status /\ r.status = row.status /\ r.there
    BY <2>1 DEF WritesRow, StatusInv, Overtaken, Call
  <2>3. expected'.status = expected.status
    BY <1>0, <2>1 DEF WritesRow, Expectations
  <2>4. JobHas' = JobHas
    BY <2>2 DEF JobHas
  <2> QED
    BY <1>0, <2>2, <2>3, <2>4, StatusWritten DEF StatusInv
<1>3. CASE Creates(s)
  BY <1>3, StatusCreates DEF StatusInv
<1>4. CASE Puts(s)
  <2>1. StatusStands
    BY <1>4 DEF StatusInv, Puts, PutsDoc
  <2> QED
    BY <1>4, <2>1, StatusPuts DEF StatusInv
<1> QED
  BY <1>1, <1>2, <1>3, <1>4 DEF Call

LEMMA StatusAsked ==
  ASSUME TypeInv, KnownInv, NEW status \in Statuses, AsksStatus(status), "status" \in sure'
  PROVE  StatusStands'
<1>1. /\ UNCHANGED << row, mirrors, documents, callback, job >> /\ Settled /\ OneDocument /\ row.there
      /\ admin'.pc = "row" /\ admin'.link = row.link /\ admin'.status = status /\ expected'.status = status
  BY RoleInField DEF AsksStatus, account, Expects
<1>2. BagToSet(mirrors) = {} /\ job.pc = "idle" /\ doc' = doc
  BY <1>1, SettledIs DEF documents
<1>3. DocsReplaced'
  <2>1. ASSUME NEW d \in Ids, Old(doc[d].status)' PROVE d = row.link
    <3>1. doc[d].there
      BY <1>2, <2>1 DEF Old, KnownInv
    <3> QED
      BY <1>1, <3>1 DEF OneDocument
  <2> QED
    BY <1>1, <2>1 DEF DocsReplaced, Replaced
<1> QED
  BY <1>1, <1>2, <1>3 DEF StatusStands, MirrorsLast, AdminLast, JobLast, FirstLast

LEMMA StatusGiven ==
  ASSUME TypeInv, KnownInv, StatusStands, NEW r \in Rows, GivesStatus(r), "status" \in sure'
  PROVE  StatusStands'
<1>0. DataType
  BY DEF TypeInv
<1>1. /\ Write(r) /\ r.there /\ r.link = row.link /\ r.status = admin.status /\ UNCHANGED << documents, callback, job, faults >>
      /\ admin.pc = "row" /\ admin'.pc = "doc" /\ admin'.link = admin.link /\ admin'.status = admin.status
      /\ expected'.status = expected.status /\ Still /\ row.link = admin.link
  BY DEF GivesStatus, Rewrites, ExpectsSame, Expects
<1>2. /\ BagToSet(mirrors) = {} /\ ~Removing /\ \A d \in Ids : Carries(d) = {}
  BY <1>1, StillFlow
<1>3. (\A d \in Ids : Carries(d)' = {}) /\ ~Removing' /\ doc' = doc
  BY <1>1, <1>2, FlowStays DEF documents
<1>4. row' = r /\ BagToSet(mirrors') = { MirrorOf(r) } /\ MirrorOf(r).status = r.status
  BY <1>0, <1>1, <1>2, MirrorAdded DEF MirrorOf
<1>5. admin.status = expected.status /\ job.pc = "idle"
  BY <1>1 DEF StatusStands, AdminLast
<1>6. DocsReplaced'
  <2>1. ASSUME NEW d \in Ids, Old(doc[d].status)' PROVE Replaced(d)'
    <3>1. d = admin.link
      BY <1>1, <1>3, <2>1 DEF StatusStands, DocsReplaced, Replaced, Old
    <3>2. MirrorOf(r).id = d
      BY <1>1, <3>1 DEF MirrorOf, Ids
    <3>3. MirrorTo(d)'
      BY <1>4, <3>2 DEF MirrorTo
    <3> QED
      BY <1>1, <3>1, <3>3 DEF Replaced
  <2> QED
    BY <2>1 DEF DocsReplaced
<1> QED
  BY <1>1, <1>3, <1>4, <1>5, <1>6
     DEF StatusStands, MirrorsLast, AdminLast, JobLast, FirstLast, VersionsLast, RowLast, RemovalLast

LEMMA StatusEnds ==
  ASSUME TypeInv, KnownInv, StatusStands, EndsStatus, "status" \in sure'
  PROVE  StatusStands'
<1>0. DataType /\ expected.status \in Statuses
  BY DEF TypeInv, HistoryType, Expectations
<1>1. /\ UNCHANGED << row, mirrors, callback, job >> /\ admin.pc = "doc" /\ admin'.pc = "idle"
      /\ expected'.status = expected.status /\ row.there
  BY DEF EndsStatus, account, ExpectsSame, Expects, KnownInv
<1>2. admin.status = expected.status /\ job.pc = "idle" /\ ~Removing
  BY <1>1 DEF StatusStands, AdminLast, RemovalLast
<1>3. MirrorsLast' /\ AdminLast' /\ JobLast' /\ FirstLast'
  BY <1>1, <1>2 DEF StatusStands, MirrorsLast, AdminLast, JobLast, FirstLast
<1>4. \A d \in Ids : Old(doc[d].status) => d = admin.link /\ (faults = 0 => MirrorTo(d))
  BY <1>1 DEF StatusStands, DocsReplaced, Replaced
<1>5. VersionsLast /\ RowLast
  BY <1>1 DEF StatusStands
<1>6. ASSUME NEW v \in Docs, PutsStatus(v) PROVE StatusStands'
  <2>1. PICK d \in Ids : d = admin.link
    BY <1>6 DEF PutsStatus
  <2>2. PutDoc(d, v) /\ v.there /\ v.status = expected.status
    BY <1>2, <1>6, <2>1 DEF PutsStatus
  <2>3. /\ doc'[d] = v /\ \A e \in Ids : e # d => doc'[e] = doc[e] /\ Carries(e)' = Carries(e)
        /\ Carries(d)' = Carries(d) \cup { v } /\ Coming(d)' = Coming(d) \cup { v } /\ ~Removing'
    BY <1>0, <1>1, <1>2, <2>2, FlowPut
  <2>4. DocsReplaced'
    BY <1>1, <1>4, <2>1, <2>2, <2>3 DEF DocsReplaced, Old
  <2>5. VersionsLast'
    BY <1>0, <1>1, <1>5, <2>2, <2>3 DEF VersionsLast, Old, Statuses
  <2>6. RowLast'
    BY <1>1, <2>2, <2>3 DEF RowLast, StatusComes
  <2> QED
    BY <1>3, <2>3, <2>4, <2>5, <2>6 DEF StatusStands, RemovalLast
<1>7. ASSUME UNCHANGED documents, \A d \in Ids : Old(doc[d].status) => faults' # 0 /\ MirrorTo(d) PROVE StatusStands'
  <2>1. /\ \A d \in Ids : Carries(d)' = Carries(d) /\ Coming(d)' = Coming(d) /\ MirrorTo(d)' = MirrorTo(d)
        /\ Removing' = Removing /\ doc' = doc
    BY <1>1, <1>7, FlowStays DEF documents, MirrorTo
  <2>2. DocsReplaced'
    BY <1>1, <1>7, <2>1 DEF DocsReplaced, Replaced, Old
  <2>3. VersionsLast' /\ RowLast'
    BY <1>1, <1>5, <2>1 DEF VersionsLast, RowLast, StatusComes, Old
  <2> QED
    BY <1>2, <1>3, <2>1, <2>2, <2>3 DEF StatusStands, RemovalLast
<1>8. CASE UNCHANGED << documents, faults >> /\ ~(admin.link \in Ids /\ doc[admin.link].there)
  <2>1. \A d \in Ids : ~Old(doc[d].status)
    BY <1>4, <1>8 DEF KnownInv, Old
  <2> QED
    BY <1>7, <1>8, <2>1
<1>9. CASE UNCHANGED documents /\ faults' # 0 /\ (faults # 0 => sure' = {})
  BY <1>4, <1>7, <1>9
<1> QED
  BY <1>6, <1>8, <1>9 DEF EndsStatus

LEMMA StatusAdmin ==
  ASSUME TypeInv, KnownInv, StatusInv, "status" \in sure',
         \/ Rests
         \/ \E status \in Statuses : AsksStatus(status)
         \/ \E r \in Rows : GivesRole(r) \/ Deletes(r) \/ GivesStatus(r)
         \/ EndsStatus
  PROVE  StatusInv'
<1>0. DataType
  BY DEF TypeInv
<1>1. CASE Rests
  <2>1. /\ StatusStands /\ UNCHANGED << row, mirrors, documents, callback, session, admin, job, faults, expected >>
    BY <1>1 DEF Rests, StatusInv, account
  <2>2. JobHas' = JobHas
    BY <2>1 DEF JobHas
  <2>3. RemovalFinds => RemovalFinds'
    <3>1. \A d \in Ids : Carries(d)' = Carries(d)
      BY <2>1, FlowStays DEF documents
    <3> QED
      BY <2>1, <3>1 DEF RemovalFinds
  <2> QED
    BY <2>1, <2>2, <2>3, StatusSame DEF StatusInv
<1>2. ASSUME NEW r \in Rows, GivesRole(r) \/ Deletes(r) PROVE StatusInv'
  <2>1. /\ StatusStands /\ Write(r) /\ r.there /\ row.there /\ r.status = row.status
        /\ UNCHANGED << documents, callback, admin, job, faults >> /\ expected'.status = expected.status
    BY <1>2 DEF GivesRole, Deletes, Rewrites, ExpectsSame, Expects, StatusInv
  <2>2. row.status = expected.status
    <3>1. CASE GivesRole(r)
      BY <2>1, <3>1, RoleInField, StatusSettled DEF GivesRole
    <3>2. CASE Deletes(r)
      BY <3>2 DEF Deletes, Overtaken
    <3> QED
      BY <1>2, <3>1, <3>2
  <2>3. JobHas' = JobHas
    BY <2>1 DEF JobHas
  <2> QED
    BY <1>0, <2>1, <2>2, <2>3, StatusWritten DEF StatusInv
<1>3. ASSUME NEW r \in Rows, GivesStatus(r), StatusStands PROVE StatusInv'
  BY <1>3, StatusGiven DEF StatusInv
<1>4. ASSUME EndsStatus PROVE StatusInv'
  <2>1. StatusStands
    BY <1>4 DEF EndsStatus, StatusInv
  <2> QED
    BY <1>4, <2>1, StatusEnds DEF StatusInv
<1>5. ASSUME NEW r \in Rows, GivesStatus(r) PROVE StatusStands
  BY <1>5 DEF GivesStatus, Rewrites, StatusInv
<1> QED
  BY <1>1, <1>2, <1>3, <1>4, <1>5, StatusAsked DEF StatusInv

LEMMA StatusDocuments ==
  ASSUME TypeInv, KnownInv, StatusInv, "status" \in sure',
         \/ \E v \in Docs : AppPuts(v) \/ AppTakes(v)
         \/ \E m \in BagToSet(mirrors) : (\E v \in Docs : MirrorPuts(m, v)) \/ Loses(m)
  PROVE  StatusInv'
<1> SUFFICES StatusStands'
  BY DEF StatusInv
<1>0. DataType /\ "auth" \in Ids /\ expected.status \in Statuses
  BY DEF TypeInv, Ids, HistoryType, Expectations
<1>1. ASSUME NEW v \in Docs, AppPuts(v) PROVE StatusStands'
  <2>1. /\ PutDoc("auth", v) /\ v.there /\ UNCHANGED << row, mirrors, callback, session, admin, job >> /\ Settled
        /\ (\A d \in Ids : doc[d].there => d = "auth") /\ expected'.status = v.status
    BY <1>1, RoleInField DEF AppPuts, account, Expects, Quiet
  <2>2. /\ BagToSet(mirrors) = {} /\ JobHas = {} /\ admin.pc = "idle" /\ job.pc = "idle" /\ ~Removing
        /\ \A d \in Ids : Carries(d) = {}
    BY <2>1, SettledIs
  <2>3. /\ doc'["auth"] = v /\ \A e \in Ids : e # "auth" => doc'[e] = doc[e] /\ Carries(e)' = {}
        /\ Carries("auth")' = { v } /\ v \in Coming("auth")' /\ ~Removing'
    BY <1>0, <2>1, <2>2, FlowPut
  <2>4. JobHas' = {}
    BY <2>1, <2>2 DEF JobHas
  <2>5. \A e \in Ids : e # "auth" => ~doc'[e].there /\ doc'[e].status = "none"
    BY <2>1, <2>3 DEF KnownInv
  <2>6. DocsReplaced' /\ VersionsLast'
    BY <2>1, <2>3, <2>5 DEF DocsReplaced, VersionsLast, Old
  <2>7. FirstLast'
    BY <2>1, <2>3, <2>4, <2>5 DEF FirstLast
  <2>8. RowLast'
    BY <1>0, <2>1, <2>3 DEF RowLast, StatusComes
  <2> QED
    BY <2>1, <2>2, <2>3, <2>6, <2>7, <2>8 DEF StatusStands, MirrorsLast, AdminLast, JobLast, RemovalLast
<1>2. ASSUME NEW v \in Docs, AppTakes(v) PROVE StatusStands'
  <2>1. /\ PutDoc("auth", v) /\ ~v.there /\ v.status = "none" /\ UNCHANGED << row, mirrors, callback, session, admin, job >>
        /\ expected'.status = "BANNED" /\ Quiet /\ OneDocument /\ doc["auth"].there
    BY <1>2, RoleInField DEF AppTakes, account, Expects
  <2>2. /\ mirrors = EmptyBag /\ BagToSet(mirrors) = {} /\ admin.pc = "idle" /\ job.pc = "idle"
        /\ \A d \in Ids : Carries(d) = {}
    BY <2>1, SettledIs DEF Quiet
  <2>3. \A s \in Sessions : session[s].pc = "idle"
    BY <2>1 DEF Quiet, SessionsIdle
  <2>4. row.link = "auth" /\ row.there
    BY <1>0, <2>1 DEF OneDocument, KnownInv
  <2>5. /\ doc'["auth"] = v /\ \A e \in Ids : e # "auth" => doc'[e] = doc[e]
        /\ (\A e \in Ids : Carries(e)' = {}) /\ Removing'
    BY <1>0, <2>1, <2>2, FlowPut
  <2>6. \A e \in Ids : doc'[e].status = "none"
    BY <2>1, <2>4, <2>5 DEF OneDocument, KnownInv
  <2>7. DocsReplaced' /\ VersionsLast' /\ NothingOld'
    BY <2>5, <2>6 DEF DocsReplaced, VersionsLast, NothingOld, Old
  <2>8. RemovalFinds'
    BY <2>1, <2>2, <2>3, <2>4, <2>5 DEF RemovalFinds
  <2>9. RowLast' /\ RemovalLast'
    BY <2>1, <2>2, <2>5, <2>7, <2>8 DEF RowLast, StatusComes, RemovalLast
  <2> QED
    BY <2>1, <2>2, <2>4, <2>7, <2>9 DEF StatusStands, MirrorsLast, AdminLast, JobLast, FirstLast
<1>3. ASSUME NEW m \in BagToSet(mirrors), NEW v \in Docs, MirrorPuts(m, v) PROVE StatusStands'
  <2>1. /\ StatusStands /\ PutDoc(m.id, v) /\ v.there /\ v.status = m.status
        /\ UNCHANGED << row, callback, session, admin, job, faults, expected >>
        /\ mirrors' = mirrors (-) SetToBag({ m })
    BY <1>3 DEF MirrorPuts, StatusInv
  <2>2. PICK d \in Ids : d = m.id
    BY <1>0 DEF DataType, Mirrors
  <2>3. /\ BagToSet(mirrors') \subseteq BagToSet(mirrors) /\ BagToSet(mirrors) \ { m } \subseteq BagToSet(mirrors')
    BY <1>0, <2>1, MirrorTaken
  <2>4. \A e \in Ids : e # d /\ MirrorTo(e) => MirrorTo(e)'
    BY <2>2, <2>3 DEF MirrorTo
  <2>5. v.status = expected.status /\ v.status # "none"
    BY <1>0, <2>1 DEF StatusStands, MirrorsLast, Statuses
  <2>6. /\ doc'[d] = v /\ \A e \in Ids : e # d => doc'[e] = doc[e] /\ Carries(e)' = Carries(e)
        /\ Carries(d)' = Carries(d) \cup { v } /\ v \in Coming(d)' /\ Removing' = Removing
    BY <1>0, <2>1, <2>2, FlowPut
  <2>7. MirrorsLast' /\ AdminLast'
    BY <2>1, <2>3 DEF StatusStands, MirrorsLast, AdminLast
  <2>8. DocsReplaced'
    BY <2>1, <2>4, <2>5, <2>6 DEF StatusStands, DocsReplaced, Replaced, Old
  <2>9. NothingOld => NothingOld'
    BY <2>1, <2>5, <2>6 DEF NothingOld, Old
  <2>10. JobLast'
    BY <2>1, <2>9 DEF StatusStands, JobLast, JobHas, Old
  <2>11. FirstLast'
    BY <2>1, <2>5, <2>6 DEF StatusStands, FirstLast, JobHas
  <2>12. admin.pc # "row" => VersionsLast'
    BY <2>1, <2>5, <2>6 DEF StatusStands, VersionsLast, Old
  <2>13. RowLast'
    BY <2>1, <2>5, <2>6 DEF RowLast, StatusComes
  <2>14. ~RemovalFinds
    BY NoMirror DEF RemovalFinds
  <2>15. admin.pc # "row" => RemovalLast'
    BY <2>1, <2>6, <2>9, <2>14 DEF StatusStands, RemovalLast
  <2> QED
    BY <2>1, <2>7, <2>8, <2>10, <2>11, <2>12, <2>13, <2>15 DEF StatusStands
<1>4. ASSUME NEW m \in BagToSet(mirrors), Loses(m) PROVE StatusStands'
  <2>1. /\ StatusStands /\ UNCHANGED << row, documents, callback, session, admin, job, expected >>
        /\ mirrors' = mirrors (-) SetToBag({ m }) /\ faults = 0 /\ faults' # 0
    BY <1>4 DEF Loses, StatusInv
  <2>2. BagToSet(mirrors') \subseteq BagToSet(mirrors)
    BY <1>0, <2>1, MirrorTaken
  <2>3. /\ \A d \in Ids : Carries(d)' = Carries(d) /\ Coming(d)' = Coming(d)
        /\ Removing' = Removing /\ doc' = doc /\ JobHas' = JobHas
    BY <2>1, FlowStays DEF documents, JobHas
  <2>4. MirrorsLast' /\ AdminLast' /\ FirstLast'
    BY <2>1, <2>2, <2>3 DEF StatusStands, MirrorsLast, AdminLast, FirstLast
  <2>5. DocsReplaced'
    BY <2>1, <2>3 DEF StatusStands, DocsReplaced, Replaced, Old
  <2>6. NothingOld' = NothingOld
    BY <2>1, <2>3 DEF NothingOld, Old
  <2>7. JobLast'
    BY <2>1, <2>3, <2>6 DEF StatusStands, JobLast, Old
  <2>8. admin.pc # "row" => VersionsLast' /\ RowLast'
    BY <2>1, <2>3 DEF StatusStands, VersionsLast, RowLast, StatusComes, Old
  <2>9. ~RemovalFinds
    BY NoMirror DEF RemovalFinds
  <2>10. admin.pc # "row" => RemovalLast'
    BY <2>1, <2>3, <2>6, <2>9 DEF StatusStands, RemovalLast
  <2> QED
    BY <2>1, <2>4, <2>5, <2>7, <2>8, <2>10 DEF StatusStands
<1> QED
  BY <1>1, <1>2, <1>3, <1>4

LEMMA StatusCalled ==
  ASSUME TypeInv, KnownInv, CarriedInv, StatusInv, NEW d \in Ids, Called(d)
  PROVE  StatusInv'
<1> SUFFICES ASSUME "status" \in sure' PROVE StatusStands'
  BY DEF StatusInv
<1>0. DataType /\ inbox[d] \in Seq(Docs) /\ inbox[d] # << >> /\ VersionsInv(d)
  BY DEF TypeInv, DataType, CarriedInv, Called
<1>1. /\ row'.there = row.there /\ row'.link = row.link
      /\ row' = row \/ (row.there /\ row'.status = "BANNED" /\ ~Head(inbox[d]).there)
      /\ ~Head(inbox[d]).there /\ row' = row /\ row.there => row.link # d \/ row.status = "BANNED"
      /\ UNCHANGED << doc, mirrors, session, admin, job, faults, expected, sure >>
  BY <1>0, CalledRow
<1>2. /\ \A e \in Ids : Carries(e)' = Carries(e) /\ (row.there => Coming(e)' = Coming(e))
      /\ Removing' => Removing
      /\ Removing /\ ~Removing' => d = "auth" /\ ~Head(inbox["auth"]).there
  BY <1>0, FlowCalled
<1>3. ~Head(inbox[d]).there => Removing
  <2>1. Head(inbox[d]) = inbox[d][1] /\ 1 \in 1 .. Len(inbox[d])
    BY <1>0
  <2> QED
    BY <1>0, <2>1 DEF VersionsInv, Removing
<1>4. StatusStands /\ JobHas' = JobHas /\ \A e \in Ids : MirrorTo(e)' = MirrorTo(e)
  BY <1>1 DEF StatusInv, JobHas, MirrorTo
<1>5. MirrorsLast' /\ AdminLast' /\ FirstLast'
  BY <1>1, <1>2, <1>4 DEF StatusStands, MirrorsLast, AdminLast, FirstLast
<1>6. DocsReplaced' /\ NothingOld' = NothingOld
  BY <1>1, <1>2, <1>4 DEF StatusStands, DocsReplaced, Replaced, NothingOld, Old
<1>7. JobLast'
  <2>1. job.pc # "idle" => ~Removing
    BY <1>4 DEF StatusStands, AdminLast, RemovalLast
  <2> QED
    BY <1>1, <1>3, <1>4, <1>6, <2>1 DEF StatusStands, JobLast, Old
<1>8. admin.pc # "row" => VersionsLast'
  BY <1>1, <1>2, <1>4 DEF StatusStands, VersionsLast, Old
<1>9. admin.pc # "row" => RowLast'
  <2> SUFFICES ASSUME admin.pc # "row", row.there PROVE row'.status = expected.status \/ StatusComes'
    BY <1>1 DEF RowLast
  <2>1. RowLast /\ RemovalLast
    BY <1>4 DEF StatusStands
  <2>2. CASE row' # row
    BY <1>1, <1>3, <2>1, <2>2 DEF RemovalLast
  <2>3. CASE row' = row /\ Removing /\ ~Removing'
    <3>1. row.link # "auth" \/ row.status = "BANNED"
      BY <1>1, <1>2, <2>3
    <3> QED
      BY <2>1, <2>3, <3>1 DEF RemovalLast, RemovalFinds
  <2>4. CASE row' = row /\ Removing' = Removing
    <3>1. StatusComes' = StatusComes
      BY <1>1, <1>2, <2>4 DEF StatusComes, Old
    <3> QED
      BY <2>1, <2>4, <3>1 DEF RowLast
  <2>5. Removing \in BOOLEAN /\ Removing' \in BOOLEAN
    BY DEF Removing
  <2> QED
    BY <1>2, <2>2, <2>3, <2>4, <2>5
<1>10. admin.pc # "row" => RemovalLast'
  <2>1. RemovalFinds => RemovalFinds'
    BY <1>1, <1>2 DEF RemovalFinds
  <2> QED
    BY <1>1, <1>2, <1>4, <1>6, <2>1 DEF StatusStands, RemovalLast
<1> QED
  BY <1>1, <1>5, <1>6, <1>7, <1>8, <1>9, <1>10 DEF StatusStands

\* A version leaves a row with its status, if it has one.
LEMMA CarriedStatus ==
  ASSUME NEW r \in Rows, NEW d \in Ids, NEW v \in Docs
  PROVE  Carried(r, d, v).status = IF v.status = "none" THEN r.status ELSE v.status
BY DEF Carried, Rows

LEMMA StatusSynced ==
  ASSUME TypeInv, KnownInv, CarriedInv, StatusInv, NEW d \in Ids, SyncUserToPostgres(d)
  PROVE  StatusInv'
<1> SUFFICES ASSUME "status" \in sure' PROVE StatusStands'
  BY DEF StatusInv
<1>0. /\ DataType /\ row \in Rows /\ callback[d] \in Callbacks /\ VersionsInv(d)
      /\ callback[d].existing \in BOOLEAN /\ expected.status \in Statuses
  BY DEF TypeInv, DataType, CarriedInv, Callbacks, HistoryType, Expectations
<1>1. PICK v \in Docs : v = callback[d].doc
  BY <1>0 DEF Callbacks
<1>2. /\ row' = SyncedRow(callback[d].existing, d, v) /\ callback[d].pc = "write"
      /\ UNCHANGED << doc, mirrors, session, admin, job, faults, expected, sure >>
  BY <1>1 DEF SyncUserToPostgres, WriteBypassed, documents, NoNews
<1>3. /\ \A e \in Ids : e # d => Carries(e)' = Carries(e) /\ Coming(e)' = Coming(e)
      /\ Carries(d) = Carries(d)' \cup { v }
      /\ Coming(d) = Coming(d)' \cup (IF callback[d].existing THEN { v } ELSE {})
      /\ Removing' = Removing
      /\ doc[d].there => doc[d] \in Coming(d)' \/ doc[d] = v
  BY <1>0, <1>1, FlowSynced
<1>4. StatusStands /\ JobHas' = JobHas /\ \A e \in Ids : MirrorTo(e)' = MirrorTo(e)
  BY <1>2 DEF StatusInv, JobHas, MirrorTo
<1>5. \/ callback[d].existing /\ row.there
      \/ ~callback[d].existing /\ row.there
      \/ ~callback[d].existing /\ ~row.there
  BY <1>0, <1>2 DEF VersionsInv, Rows
<1>6. callback[d].existing /\ row.there =>
        row'.status = (IF v.status = "none" THEN row.status ELSE v.status) /\ row'.link = d
  BY <1>0, <1>2, CarriedStatus, CarriedType DEF SyncedRow
<1>7. ~callback[d].existing /\ row.there => row' = row
  BY <1>2 DEF SyncedRow
<1>8. ~row.there => row'.status = expected.status
  <2> SUFFICES ASSUME ~row.there PROVE row'.status = expected.status
    OBVIOUS
  <2>1. v.status = expected.status
    BY <1>3, <1>4 DEF StatusStands, FirstLast
  <2>2. v.status \in { "none", row'.status }
    BY <1>0, <1>2, <1>5, CarriedType DEF SyncedRow
  <2> QED
    BY <1>0, <2>1, <2>2 DEF Statuses
<1>9. row'.there
  BY <1>0, <1>2, <1>5, CarriedType DEF SyncedRow
<1>10. MirrorsLast' /\ AdminLast' /\ FirstLast' /\ DocsReplaced'
  BY <1>2, <1>4, <1>9 DEF StatusStands, MirrorsLast, AdminLast, FirstLast, DocsReplaced, Replaced, Old
<1>11. (NothingOld => NothingOld') /\ (NothingOld => ~Old(v.status))
  BY <1>2, <1>3 DEF NothingOld, Old
<1>12. JobLast'
  <2>1. ASSUME job.pc # "idle" PROVE row'.status = expected.status
    <3>1. ~Old(v.status) /\ (row.there => row.status = expected.status)
      BY <1>4, <1>11, <2>1 DEF StatusStands, JobLast
    <3> QED
      BY <1>5, <1>6, <1>7, <1>8, <3>1 DEF Old
  <2> QED
    BY <1>2, <1>4, <1>11, <2>1 DEF StatusStands, JobLast, Old
<1>13. admin.pc # "row" => VersionsLast'
  BY <1>2, <1>3, <1>4 DEF StatusStands, VersionsLast, Old
<1>14. admin.pc # "row" => RowLast'
  <2> SUFFICES ASSUME admin.pc # "row" PROVE row'.status = expected.status \/ StatusComes'
    BY <1>2 DEF RowLast
  <2>1. VersionsLast /\ RowLast
    BY <1>4 DEF StatusStands
  <2>2. CASE ~callback[d].existing /\ row.there
    <3>1. StatusComes' = StatusComes
      BY <1>2, <1>3, <2>2 DEF StatusComes, Old
    <3> QED
      BY <1>7, <2>1, <2>2, <3>1 DEF RowLast
  <2>3. CASE callback[d].existing /\ row.there
    <3>1. CASE v.status = expected.status
      BY <1>0, <1>6, <2>3, <3>1 DEF Statuses
    <3>2. CASE v.status = "none"
      <4>1. StatusComes => StatusComes'
        BY <1>0, <1>2, <1>3, <2>3, <3>2 DEF StatusComes, Old, Statuses
      <4> QED
        BY <1>6, <2>1, <2>3, <3>2, <4>1 DEF RowLast
    <3>3. CASE Old(v.status)
      <4>1. doc[d].status # "none"
        BY <1>3, <2>1, <3>3 DEF VersionsLast
      <4>2. doc[d].there
        BY <4>1 DEF KnownInv
      <4>3. CASE doc[d].status = expected.status
        BY <1>2, <1>3, <3>3, <4>2, <4>3 DEF StatusComes, Old
      <4>4. CASE Old(doc[d].status)
        BY <1>2, <4>4 DEF StatusComes, Old
      <4> QED
        BY <4>1, <4>3, <4>4 DEF Old
    <3> QED
      BY <3>1, <3>2, <3>3 DEF Old
  <2> QED
    BY <1>5, <1>8, <2>2, <2>3
<1>15. admin.pc # "row" => RemovalLast'
  <2> SUFFICES ASSUME admin.pc # "row", Removing PROVE RemovalLast'
    BY <1>3 DEF RemovalLast
  <2>1. RemovalLast
    BY <1>4 DEF StatusStands
  <2>2. row'.status = "BANNED" \/ RemovalFinds'
    <3>1. CASE RemovalFinds /\ row.there
      <4>1. d = "auth"
        BY <1>3, <3>1 DEF RemovalFinds
      <4>2. row'.link = "auth"
        BY <1>5, <1>6, <1>7, <3>1, <4>1 DEF RemovalFinds
      <4> QED
        BY <1>2, <1>3, <3>1, <4>1, <4>2 DEF RemovalFinds
    <3>2. CASE row.there /\ row.status = "BANNED"
      BY <1>5, <1>6, <1>7, <1>11, <2>1, <3>2 DEF RemovalLast, Old
    <3> QED
      BY <1>8, <2>1, <3>1, <3>2 DEF RemovalLast
  <2> QED
    BY <1>2, <1>3, <1>11, <2>1, <2>2 DEF RemovalLast
<1> QED
  BY <1>2, <1>10, <1>12, <1>13, <1>14, <1>15 DEF StatusStands

LEMMA StatusJob ==
  ASSUME TypeInv, KnownInv, StatusInv, JobBegins \/ JobGoes \/ JobCarries \/ JobBans, "status" \in sure'
  PROVE  StatusInv'
<1> SUFFICES StatusStands'
  BY DEF StatusInv
<1>0. DataType /\ row \in Rows /\ OthersType
  BY DEF TypeInv, DataType
<1>1. CASE JobBegins
  <2>1. /\ StatusStands /\ UNCHANGED << row, mirrors, documents, callback, session, admin, faults, expected >>
        /\ Settled /\ OneDocument /\ job'.snapshot = doc /\ JobHas' = { d \in Ids : doc[d].there }
    BY <1>1, RoleInField DEF JobBegins, StatusInv, account
  <2>2. (\A d \in Ids : ~Old(doc[d].status)) /\ (row.there => row.status = expected.status)
    BY <2>1, StatusSettled
  <2>3. /\ BagToSet(mirrors) = {} /\ ~Removing /\ admin.pc = "idle" /\ \A d \in Ids : Carries(d) = {}
    BY <2>1, SettledIs
  <2>4. (\A d \in Ids : Carries(d)' = {}) /\ ~Removing' /\ doc' = doc
    BY <2>1, <2>3, FlowStays DEF documents
  <2>5. \A d \in Ids : ~Old(doc[d].status)'
    BY <2>1, <2>2, <2>4 DEF Old
  <2>6. MirrorsLast' /\ AdminLast' /\ DocsReplaced'
    BY <2>1, <2>3, <2>5 DEF MirrorsLast, AdminLast, DocsReplaced
  <2>7. JobLast'
    BY <2>1, <2>2, <2>4, <2>5 DEF JobLast, NothingOld, Old
  <2>8. ~row.there => JobHas' = {}
    BY <2>1 DEF OneDocument, KnownInv, Ids
  <2>9. FirstLast'
    BY <2>1, <2>4, <2>8 DEF StatusStands, FirstLast
  <2>10. VersionsLast' /\ RowLast' /\ RemovalLast'
    BY <2>1, <2>2, <2>4 DEF VersionsLast, RowLast, RemovalLast
  <2> QED
    BY <2>6, <2>7, <2>9, <2>10 DEF StatusStands
<1>2. CASE JobGoes
  <2>1. /\ StatusStands /\ UNCHANGED << row, mirrors, documents, callback, session, admin, faults, expected >>
        /\ job.pc # "idle" /\ JobHas' \subseteq JobHas /\ (job'.pc # "idle" => job'.snapshot = job.snapshot)
    BY <1>2 DEF JobGoes, StatusInv, account
  <2>2. JobHas' # {} => job'.pc # "idle"
    BY DEF JobHas
  <2>3. RemovalFinds => RemovalFinds'
    <3>1. \A d \in Ids : Carries(d)' = Carries(d)
      BY <2>1, FlowStays DEF documents
    <3> QED
      BY <2>1, <3>1 DEF RemovalFinds
  <2> QED
    BY <2>1, <2>2, <2>3, StatusSame
<1>3. CASE JobCarries
  <2>1. PICK v \in Docs : v = job.snapshot[job.of]
    BY <1>0, <1>3 DEF OthersType, JobStates, JobCarries
  <2>2. PICK r : r = SyncedRow(job.existing, job.of, v)
    OBVIOUS
  <2>3. /\ StatusStands /\ Write(r) /\ UNCHANGED << documents, callback, admin, faults, expected >> /\ job.pc = "write"
        /\ JobHas' \subseteq JobHas /\ job'.snapshot = job.snapshot /\ job.of \in JobHas /\ job.of \in Ids
        /\ job.existing \/ ~row.there
    BY <1>3, <2>1, <2>2 DEF JobCarries, StatusInv
  <2>4. row.there /\ row.status = expected.status /\ ~Old(v.status)
    BY <1>0, <2>1, <2>3 DEF StatusStands, JobLast, FirstLast
  <2>5. r = Carried(row, job.of, v)
    BY <2>2, <2>3, <2>4 DEF SyncedRow
  <2>6. r.there /\ r.status = expected.status
    BY <1>0, <2>3, <2>4, <2>5, CarriedType, CarriedStatus DEF Old
  <2> QED
    BY <1>0, <2>3, <2>6, StatusWritten
<1>4. CASE JobBans
  <2>1. /\ StatusStands /\ UNCHANGED << mirrors, documents, callback, session, admin, faults >>
        /\ expected'.status = "BANNED" /\ Still /\ (\A d \in Ids : ~doc[d].there)
        /\ job.pc # "idle" /\ job'.pc = "idle" /\ row' = Banned(row) /\ JobHas' = {}
    BY <1>4 DEF JobBans, StatusInv
  <2>2. row'.there = row.there /\ row'.link = row.link /\ row'.status = "BANNED"
    BY <1>0, <2>1, BannedIs
  <2>3. BagToSet(mirrors) = {} /\ ~Removing /\ \A d \in Ids : Carries(d) = {}
    BY <2>1, StillFlow
  <2>4. (\A d \in Ids : Carries(d)' = {}) /\ ~Removing' /\ doc' = doc
    BY <2>1, <2>3, FlowStays DEF documents
  <2>5. admin.pc = "idle"
    BY <2>1 DEF StatusStands, AdminLast
  <2>6. \A d \in Ids : doc'[d].status = "none" /\ ~doc'[d].there
    BY <2>1, <2>4 DEF KnownInv
  <2>7. MirrorsLast' /\ AdminLast' /\ DocsReplaced' /\ JobLast'
    BY <2>1, <2>3, <2>5, <2>6 DEF MirrorsLast, AdminLast, DocsReplaced, JobLast, Old
  <2>8. FirstLast' /\ VersionsLast' /\ RowLast' /\ RemovalLast'
    BY <2>1, <2>2, <2>4, <2>6 DEF FirstLast, VersionsLast, RowLast, RemovalLast
  <2> QED
    BY <2>7, <2>8 DEF StatusStands
<1> QED
  BY <1>1, <1>2, <1>3, <1>4

LEMMA StatusStep == ASSUME TypeInv, KnownInv, CarriedInv, StatusInv, Form PROVE StatusInv'
<1>1. "status" \notin sure' => StatusInv'
  BY DEF StatusInv
<1> QED
  BY <1>1, StatusCall, StatusAdmin, StatusDocuments, StatusCalled, StatusSynced, StatusJob DEF Form

(***************************************************************************)
(* What the last input set stays                                           *)
(***************************************************************************)

LEMMA LastInit == ASSUME Init PROVE RoleInv /\ LinkInv /\ StatusInv
<1>0. scenario \in Scenarios /\ scenario.role \in Roles
  BY ScenarioType, AccountsAssumption DEF Init
<1>1. /\ mirrors = EmptyBag /\ callback = [ d \in Ids |-> IdleCallback ] /\ admin = IdleAdmin /\ job = IdleJob
      /\ session = [ s \in Sessions |-> IdleSession ]
  BY DEF Init
<1>2. /\ BagToSet(mirrors) = {} /\ admin.pc = "idle" /\ job.pc = "idle" /\ JobHas = {}
      /\ \A s \in Sessions : session[s].pc = "idle"
  BY <1>1, NoMirror DEF IdleAdmin, IdleJob, IdleSession, JobHas
<1>3. \A d \in Ids : callback[d].pc = "idle"
  BY <1>1 DEF IdleCallback
<1>4. PICK v : v = Doc(expected.role, "ACTIVE")
  OBVIOUS
<1>5. v.there /\ v.role = expected.role /\ v.status = "ACTIVE"
  BY <1>4 DEF Doc
<1>6. /\ expected.status = "ACTIVE" /\ expected.link \in { "row", "auth" }
      /\ \A d \in Ids : doc[d] = NoDoc \/ (doc[d] = v /\ d = expected.link)
      /\ \A d \in Ids : inbox[d] = << >> \/ (inbox[d] = << doc[d] >> /\ doc[d] = v)
      /\ row.there => row.role = expected.role /\ row.status = "ACTIVE" /\ row.link = expected.link
                      /\ doc[expected.link] = v
  BY <1>4 DEF Init, NewRow, NoRow, Ids
<1>7. \A d \in Ids : (doc[d].there => doc[d] = v) /\ (doc[d].status \in { "none", "ACTIVE" })
  BY <1>5, <1>6 DEF NoDoc
<1>8. \A d \in Ids : Versions(d) \subseteq { v } /\ (Versions(d) # {} => d = expected.link)
  BY <1>5, <1>6 DEF Versions, NoDoc
<1>9. \A d \in Ids : Carries(d) \subseteq { v } /\ (Carries(d) # {} => d = expected.link)
  BY <1>3, <1>8 DEF Carries
<1>10. ~Removing
  BY <1>5, <1>6 DEF Removing, Ids
<1>11. RoleStands
  BY <1>2, <1>5, <1>6, <1>7, <1>9 DEF RoleStands
<1>12. LinkStands
  BY <1>2, <1>5, <1>6, <1>9 DEF LinkStands
<1>13. \A d \in Ids : ~Old(doc[d].status) /\ \A w \in Carries(d) : ~Old(w.status)
  BY <1>5, <1>6, <1>7, <1>9 DEF Old
<1>14. MirrorsLast /\ DocsReplaced /\ AdminLast /\ JobLast /\ VersionsLast /\ RowLast /\ RemovalLast
  BY <1>2, <1>6, <1>10, <1>13 DEF MirrorsLast, DocsReplaced, AdminLast, JobLast, VersionsLast, RowLast, RemovalLast
<1>15. FirstLast
  BY <1>2, <1>5, <1>6, <1>7, <1>9 DEF FirstLast
<1>16. StatusStands
  BY <1>14, <1>15 DEF StatusStands
<1> QED
  BY <1>2, <1>11, <1>12, <1>16 DEF RoleInv, LinkInv, StatusInv

\* With nothing on its way the row is as the last inputs made it.
LEMMA LastHolds == ASSUME TypeInv, RoleInv, LinkInv, StatusInv PROVE LastInputWins
<1> SUFFICES ASSUME Quiet, row.there, NEW f \in sure \cap Fields PROVE row[f] = expected[f]
  BY DEF LastInputWins
<1>1. Settled /\ Still /\ ~AtLink
  BY DEF Quiet, Settled, SessionsIdle, AtLink
<1>2. CASE f = "role"
  <2>1. \A d \in Ids : Coming(d) = {}
    BY <1>1, SettledIs
  <2> QED
    BY <1>2, <2>1 DEF RoleInv, RoleStands
<1>3. CASE f = "link"
  BY <1>1, <1>3, LinkStill DEF LinkInv
<1>4. CASE f = "status"
  BY <1>1, <1>4, StatusSettled DEF StatusInv
<1> QED
  BY <1>2, <1>3, <1>4 DEF Fields

\* A ban, a change of the role and a new link stay what the last input made them, whatever the
\* person's own calls, the echoes of the mirrors and the job carry about.
THEOREM LastStays == Spec => []LastInputWins
<1> DEFINE Inv == TypeInv /\ CarriedInv /\ KnownInv /\ RoleInv /\ LinkInv /\ StatusInv
<1>1. Init => Inv
  BY TypeInit, CarriedInit, KnownInit, LastInit
<1>2. Inv /\ [Next]_vars => Inv'
  <2> SUFFICES ASSUME Inv, [Next]_vars PROVE Inv'
    OBVIOUS
  <2>1. TypeInv' /\ CarriedInv'
    BY TypeStep, CarriedStep
  <2>2. Form /\ KnownInv'
    BY StepForm
  <2>3. RoleInv' /\ LinkInv' /\ StatusInv'
    BY <2>2, RoleStep, LinkStep, StatusStep
  <2> QED
    BY <2>1, <2>2, <2>3
<1>3. Inv => LastInputWins
  BY LastHolds
<1> QED
  BY <1>1, <1>2, <1>3, PTL DEF Spec
=============================================================================
