--------------------------- MODULE AccountsProofs ---------------------------
(***************************************************************************)
(* Theorems about Accounts, for any users, roles and requests in flight,   *)
(* any tokens and sessions and any number of requests.                     *)
(***************************************************************************)
EXTENDS Accounts, FiniteSetTheorems, SequenceTheorems, WellFoundedInduction, TLAPS

Names == {"none", "own", "erased"}
AllRoles == {"Admin", "Member", "Viewer"}
People == [email : Names, name : Names, active : BOOLEAN, role : AllRoles \union {"none"},
           password : BOOLEAN, sso : BOOLEAN]
States == {"none", "fresh", "valid", "used", "expired"}
Grants == [user : Users \union {"none"}, type : {"none", "invite", "reset"}, state : States]
Codes == {"c1", "c2"}
Factors == [enabled : {"no", "begun", "yes"}, codes : SUBSET Codes]
Items == [owner : Users \union {"none"}, label : Names, by : {"extraction", "user", "erasure"}]
Opened == [user : Users \union {"none"}, state : {"none", "open", "expired"}]

(* A token that can be used is that of a user.                             *)
TokensOK ==
  /\ token \in [Tokens -> Grants]
  /\ \A t \in Tokens : Valid(t) => token[t].user \in Users

RowsOK ==
  /\ user \in [Users -> People]
  /\ members \in [Users -> Seq(AllRoles)] /\ \A u \in Users : Len(members[u]) <= 2
  /\ TokensOK
  /\ mfa \in [Users -> Factors] /\ item \in Items
  /\ session \in [Sessions -> Opened]
  /\ erased \in [Users -> {"no", "alone", "raced"}]
SetsOK ==
  /\ access \subseteq Users /\ elsewhere \subseteq Users
  /\ revoked \subseteq Sessions /\ left \subseteq Sessions
  /\ events \in 0 .. MaxEvents

(* A request: what it is about, what it was given and what it has read.    *)
Asks(kinds, args, reads) ==
  [kind : kinds, actor : Users, user : Users, arg : args, seen : reads, overlap : BOOLEAN]
Given == [role : Roles, project : BOOLEAN]
Nothing == {"none"}
Invites == Asks({"invite"}, Given, [exists : BOOLEAN, active : BOOLEAN])
Creates == Asks({"create"}, Given, Nothing)
Changes == Asks({"role"}, Roles, Nothing)
Plain == Asks({"remove", "forgot", "provision"}, Nothing, Nothing)
Uses == Asks({"reset", "accept"}, Tokens, Nothing)
Verifies == Asks({"verify"}, Codes \union {"totp"}, SUBSET Codes)
Links == Asks({"sso"}, Nothing, {"subject", "email"})
Extracts == Asks({"extract"}, Nothing, Names)
Columns == SUBSET {"owner", "label"}
Updates == Asks({"update"}, Columns, Items)
Erasures == Asks({"erase"}, Nothing, [owned : BOOLEAN, rows : 0 .. 2])
InFlight == Invites \union Creates \union Changes \union Plain \union Uses
            \union Verifies \union Links \union Extracts \union Updates \union Erasures
ReqOK == req \in [Slots -> {Idle} \union InFlight]

(* A member is a user.                                                     *)
MembersExist == \A u \in Users : IsMember(u) => Exists(u)

(* Two requests in flight know of each other.                              *)
OverlapIsKnown == \A s, t \in Busy : s # t => req[s].overlap

(* What a request has read still stands, unless it overlapped another.     *)
Stands(kind, a, u, arg, seen) ==
  /\ kind = "invite" => ~IsMember(u)
  /\ kind = "role" =>
       /\ Len(members[u]) = 1
       /\ a = u /\ arg # "Admin" => Cardinality(AdminRows) > 1
  /\ kind = "remove" =>
       Len(members[u]) = 1 /\ (members[u][1] = "Admin" => Cardinality(AdminRows) > 1)
  /\ kind \in {"reset", "accept"} => token[arg].state # "used"
  /\ kind = "verify" => mfa[u].codes = seen /\ arg \in seen \union {"totp"}
  /\ kind = "erase" => seen.owned = (item.owner = u) /\ seen.rows = Len(members[u])
ReadsStand ==
  \A s \in Busy : ~req[s].overlap =>
    Stands(req[s].kind, req[s].actor, req[s].user, req[s].arg, req[s].seen)

(* A request about someone erased alone began after the erasure, and can   *)
(* do no more than use an old token, sign up elsewhere, be erased again,   *)
(* get an item in the anonymous name or be named by a user.                *)
Harmless(kind, seen) ==
  /\ kind \in {"reset", "accept", "provision", "extract", "update", "erase"}
  /\ kind = "extract" => seen = "erased"
ErasedIsLeftAlone ==
  \A s \in Busy : erased[req[s].user] = "alone" => Harmless(req[s].kind, req[s].seen)

(* A session that was logged out is on the list until it expires.          *)
LeftIsRevoked ==
  \A n \in left : session[n].state = "expired" \/ (session[n].state = "open" /\ n \in revoked)

(* The inductive invariant.                                                *)
AccountsInv ==
  /\ RowsOK /\ SetsOK /\ ReqOK
  /\ MembersExist /\ OverlapIsKnown /\ ReadsStand
  /\ ErasedIsLeftAlone /\ ErasedIsAnonymous /\ LeftIsRevoked
-----------------------------------------------------------------------------
(* Values *)

(* A set of numbers that is not empty has a lowest one.                    *)
LEMMA LowestIsOne ==
  ASSUME NEW S, S \subseteq Nat, S # {}
  PROVE  Lowest(S) \in S
<1> DEFINE Less == {p \in Nat \X Nat : p[1] < p[2]}
<1>1. IsWellFoundedOn(Less, Nat)
  BY NatLessThanWellFounded DEF OpToRel
<1> HIDE DEF Less
<1>2. PICK x \in S : \A y \in S : <<y, x>> \notin Less
  BY <1>1, WFMin
<1>3. \A y \in S : x <= y
  <2> SUFFICES ASSUME NEW y \in S
               PROVE  x <= y
    OBVIOUS
  <2>1. x \in Nat /\ y \in Nat
    OBVIOUS
  <2>2. ~(y < x)
    BY <1>2, <2>1 DEF Less
  <2> QED
    BY <2>1, <2>2
<1>4. \E z \in S : \A y \in S : z <= y
  BY <1>2, <1>3
<1> QED
  BY Zenon, <1>4 DEF Lowest

(* The rows of a member.                                                   *)
LEMMA MembersType ==
  ASSUME RowsOK, NEW u \in Users
  PROVE  members[u] \in Seq(AllRoles) /\ Len(members[u]) \in 0 .. 2
<1>1. members \in [Users -> Seq(AllRoles)] /\ Len(members[u]) <= 2
  BY Zenon DEF RowsOK
<1>2. members[u] \in Seq(AllRoles)
  BY <1>1
<1>3. Len(members[u]) \in Nat
  BY <1>2
<1>4. \A k \in Nat : k <= 2 => k \in 0 .. 2
  OBVIOUS
<1> QED
  BY Zenon, <1>1, <1>2, <1>3, <1>4

(* The kind of a request tells what it was given and what it has read.     *)
LEMMA RequestKinds ==
  ASSUME NEW r \in InFlight
  PROVE  /\ r.user \in Users /\ r.actor \in Users /\ r.overlap \in BOOLEAN
         /\ r.kind = "invite" => r \in Invites
         /\ r.kind = "create" => r \in Creates
         /\ r.kind = "role" => r \in Changes
         /\ r.kind \in {"remove", "forgot", "provision"} => r \in Plain
         /\ r.kind \in {"reset", "accept"} => r \in Uses
         /\ r.kind = "verify" => r \in Verifies
         /\ r.kind = "sso" => r \in Links
         /\ r.kind = "extract" => r \in Extracts
         /\ r.kind = "update" => r \in Updates
         /\ r.kind = "erase" => r \in Erasures
         /\ r.kind # "idle"
BY DEF InFlight, Invites, Creates, Changes, Plain, Uses, Verifies, Links, Extracts, Updates, Erasures, Asks

(* A request notes that it overlaps another one.                           *)
LEMMA NotedAsk ==
  ASSUME NEW kinds, NEW args, NEW reads, NEW r \in Asks(kinds, args, reads)
  PROVE  /\ [r EXCEPT !.overlap = TRUE] \in Asks(kinds, args, reads)
         /\ [r EXCEPT !.overlap = TRUE].overlap
         /\ [r EXCEPT !.overlap = TRUE].kind = r.kind
         /\ [r EXCEPT !.overlap = TRUE].actor = r.actor
         /\ [r EXCEPT !.overlap = TRUE].user = r.user
         /\ [r EXCEPT !.overlap = TRUE].arg = r.arg
         /\ [r EXCEPT !.overlap = TRUE].seen = r.seen
BY DEF Asks

(* That changes nothing else of it.                                        *)
LEMMA Noted ==
  ASSUME NEW r \in InFlight
  PROVE  /\ [r EXCEPT !.overlap = TRUE] \in InFlight
         /\ [r EXCEPT !.overlap = TRUE].overlap
         /\ [r EXCEPT !.overlap = TRUE].kind = r.kind
         /\ [r EXCEPT !.overlap = TRUE].actor = r.actor
         /\ [r EXCEPT !.overlap = TRUE].user = r.user
         /\ [r EXCEPT !.overlap = TRUE].arg = r.arg
         /\ [r EXCEPT !.overlap = TRUE].seen = r.seen
<1> DEFINE q == [r EXCEPT !.overlap = TRUE]
           Same == /\ q.overlap /\ q.kind = r.kind /\ q.actor = r.actor /\ q.user = r.user
                   /\ q.arg = r.arg /\ q.seen = r.seen
<1>1. \A kinds, args, reads :
        r \in Asks(kinds, args, reads) => q \in Asks(kinds, args, reads) /\ Same
  BY NotedAsk
<1> HIDE DEF q, Same
<1>2. q \in InFlight /\ Same
  BY Zenon, <1>1
     DEF InFlight, Invites, Creates, Changes, Plain, Uses, Verifies, Links, Extracts, Updates, Erasures
<1> QED
  BY <1>2 DEF q, Same

(* A slot is busy with a request, or idle.                                 *)
LEMMA BusyType ==
  ASSUME ReqOK
  PROVE  /\ Busy \subseteq Slots
         /\ \A s \in Busy : req[s] \in InFlight
         /\ \A s \in Slots \ Busy : req[s] = Idle
         /\ \A r \in InFlight : r # Idle
<1>1. \A r \in InFlight : r # Idle
  BY RequestKinds DEF Idle
<1> QED
  BY <1>1 DEF ReqOK, Busy

-----------------------------------------------------------------------------
(* Requests come and go *)

(* What a request has read stands as long as nobody changes it.            *)
LEMMA StandsStill ==
  ASSUME NEW kind, NEW a, NEW u, NEW arg, NEW seen, Stands(kind, a, u, arg, seen),
         members' = members, item' = item, mfa' = mfa,
         kind \in {"reset", "accept"} /\ token[arg].state # "used" => token'[arg].state # "used"
  PROVE  Stands(kind, a, u, arg, seen)'
<1>1. AdminRows' = AdminRows /\ (IsMember(u)' <=> IsMember(u))
  BY DEF AdminRows, IsMember
<1> QED
  BY Zenon, <1>1 DEF Stands

(* Where requests only note that they overlap, the others stay as they are.*)
NoteOverlap ==
  req' = [x \in Slots |-> IF x \in Busy THEN [req[x] EXCEPT !.overlap = TRUE] ELSE Idle]

(* All that are in flight then know of another.                            *)
LEMMA NoteForm ==
  ASSUME ReqOK, NoteOverlap
  PROVE  /\ ReqOK' /\ Busy' = Busy
         /\ \A x \in Busy : /\ req'[x].overlap /\ req'[x].kind = req[x].kind
                            /\ req'[x].user = req[x].user /\ req'[x].seen = req[x].seen
<1>1. ASSUME NEW x \in Busy
      PROVE  /\ req'[x] \in InFlight /\ req'[x].overlap /\ req'[x].kind = req[x].kind
             /\ req'[x].user = req[x].user /\ req'[x].seen = req[x].seen
  <2>1. req[x] \in InFlight /\ x \in Slots
    BY BusyType
  <2>2. req'[x] = [req[x] EXCEPT !.overlap = TRUE]
    BY <2>1 DEF NoteOverlap
  <2> QED
    BY <2>1, <2>2, Noted
<1>2. \A x \in Slots \ Busy : req'[x] = Idle
  BY DEF NoteOverlap
<1>3. ReqOK'
  BY <1>1, <1>2, BusyType DEF NoteOverlap, ReqOK
<1>4. Busy' = Busy
  BY <1>1, <1>2, BusyType DEF Busy
<1> QED
  BY <1>1, <1>3, <1>4

(* A request of one step is one between the steps of the others.           *)
LEMMA BetweenStep ==
  ASSUME AccountsInv, Between, UNCHANGED <<user, members, erased>>,
         item' = item \/ item'.by = "user",
         RowsOK', SetsOK', LeftIsRevoked'
  PROVE  AccountsInv'
<1>1. NoteOverlap
  BY Zenon DEF Between, NoteOverlap
<1>2. /\ ReqOK' /\ Busy' = Busy
      /\ \A x \in Busy : /\ req'[x].overlap /\ req'[x].kind = req[x].kind
                         /\ req'[x].user = req[x].user /\ req'[x].seen = req[x].seen
  BY <1>1, NoteForm DEF AccountsInv
<1>3. OverlapIsKnown'
  BY Zenon, <1>2 DEF OverlapIsKnown
<1>4. ReadsStand'
  BY Zenon, <1>2 DEF ReadsStand
<1>5. ErasedIsLeftAlone'
  BY <1>2 DEF ErasedIsLeftAlone, AccountsInv, Harmless
<1>6. MembersExist'
  BY Zenon DEF AccountsInv, MembersExist, IsMember, Exists
<1>7. ErasedIsAnonymous'
  BY Zenon DEF AccountsInv, ErasedIsAnonymous, IsMember
<1> QED
  BY Zenon, <1>2, <1>3, <1>4, <1>5, <1>6, <1>7 DEF AccountsInv

(* An event is counted.                                                    *)
LEMMA EventType ==
  ASSUME SetsOK, Event
  PROVE  events' \in 0 .. MaxEvents
BY AccountAssumption DEF SetsOK, Event

(* The data as they were.                                                  *)
LEMMA SameData ==
  ASSUME RowsOK, SetsOK, UNCHANGED <<people, signin, item, elsewhere, erased>>, events' \in 0 .. MaxEvents
  PROVE  RowsOK' /\ SetsOK'
BY Zenon DEF RowsOK, SetsOK, TokensOK, Valid, people, signin

(* A request begins: what it has read stands, and it is harmless to someone *)
(* who is erased.                                                          *)
LEMMA BeginStep ==
  ASSUME AccountsInv, NEW s \in Slots, NEW kind, NEW a \in Users, NEW u \in Users, NEW arg, NEW seen,
         Begin(s, kind, a, u, arg, seen),
         NEW kinds, NEW args, NEW reads, Asks(kinds, args, reads) \subseteq InFlight,
         kind \in kinds, arg \in args, seen \in reads,
         Stands(kind, a, u, arg, seen),
         erased[u] = "alone" => Harmless(kind, seen)
  PROVE  AccountsInv'
<1> DEFINE new == [kind |-> kind, actor |-> a, user |-> u, arg |-> arg, seen |-> seen, overlap |-> Busy # {}]
<1>1. /\ req' = [x \in Slots |-> IF x = s THEN new
                                 ELSE IF x \in Busy THEN [req[x] EXCEPT !.overlap = TRUE] ELSE Idle]
      /\ UNCHANGED <<people, signin, item, elsewhere, erased>> /\ Event
  BY Zenon DEF Begin
<1>2. new \in Asks(kinds, args, reads)
  BY DEF Asks
<1>3. /\ new \in InFlight /\ new.kind = kind /\ new.actor = a /\ new.user = u /\ new.arg = arg
      /\ new.seen = seen /\ (~new.overlap => Busy = {})
  BY <1>2
<1> HIDE DEF new
<1>4. /\ Busy \subseteq Slots
      /\ \A x \in Busy : req[x] \in InFlight
      /\ \A r \in InFlight : r # Idle
  BY BusyType DEF AccountsInv
<1>5. req'[s] = new /\ \A x \in Slots \ (Busy \union {s}) : req'[x] = Idle
  BY <1>1
<1>6. ASSUME NEW x \in Busy \ {s}
      PROVE  /\ req'[x] \in InFlight /\ req'[x].overlap /\ req'[x].kind = req[x].kind
             /\ req'[x].user = req[x].user /\ req'[x].seen = req[x].seen
  <2>1. req'[x] = [req[x] EXCEPT !.overlap = TRUE]
    BY <1>1, <1>4
  <2> QED
    BY <1>4, <2>1, Noted
<1>7. Busy' = Busy \union {s}
  BY <1>3, <1>4, <1>5, <1>6 DEF Busy
<1>8. ReqOK'
  <2>1. \A x \in Slots : req'[x] \in {Idle} \union InFlight
    BY <1>3, <1>5, <1>6
  <2> QED
    BY <1>1, <2>1 DEF ReqOK
<1>9. RowsOK' /\ SetsOK'
  BY <1>1, EventType, SameData DEF AccountsInv
<1>10. OverlapIsKnown'
  <2> SUFFICES ASSUME NEW x \in Busy', NEW y \in Busy', x # y
               PROVE  req'[x].overlap
    BY Zenon DEF OverlapIsKnown
  <2>1. CASE x = s
    BY <1>3, <1>5, <1>7, <2>1
  <2>2. CASE x # s
    BY <1>6, <1>7, <2>2
  <2> QED
    BY <2>1, <2>2
<1>11. ReadsStand'
  <2> SUFFICES ASSUME NEW x \in Busy', ~req'[x].overlap
               PROVE  Stands(req[x].kind, req[x].actor, req[x].user, req[x].arg, req[x].seen)'
    BY Zenon DEF ReadsStand
  <2>1. x = s
    BY <1>6, <1>7
  <2>2. members' = members /\ item' = item /\ mfa' = mfa /\ token' = token
    BY <1>1 DEF people, signin
  <2>3. Stands(kind, a, u, arg, seen)'
    BY <2>2, StandsStill
  <2> QED
    BY Zenon, <1>3, <1>5, <2>1, <2>3 DEF Stands
<1>12. ErasedIsLeftAlone'
  <2> SUFFICES ASSUME NEW x \in Busy', erased'[req'[x].user] = "alone"
               PROVE  Harmless(req'[x].kind, req'[x].seen)
    BY Zenon DEF ErasedIsLeftAlone, Harmless
  <2>1. CASE x = s
    BY <1>1, <1>3, <1>5, <2>1
  <2>2. CASE x # s
    BY <1>1, <1>6, <1>7, <2>2 DEF AccountsInv, ErasedIsLeftAlone
  <2> QED
    BY <2>1, <2>2
<1>13. MembersExist' /\ ErasedIsAnonymous' /\ LeftIsRevoked'
  BY Zenon, <1>1 DEF AccountsInv, MembersExist, ErasedIsAnonymous, LeftIsRevoked, IsMember, Exists, people, signin
<1> QED
  BY Zenon, <1>8, <1>9, <1>10, <1>11, <1>12, <1>13 DEF AccountsInv

(* A request ends: those that remain all know of it.                       *)
LEMMA EndStep ==
  ASSUME AccountsInv, NEW s \in Busy, End(s), RowsOK', SetsOK',
         MembersExist', ErasedIsAnonymous', LeftIsRevoked',
         \A t \in Busy \ {s} : erased'[req[t].user] = "alone" => erased[req[t].user] = "alone"
  PROVE  AccountsInv'
<1>1. /\ Busy \subseteq Slots
      /\ \A x \in Busy : req[x] \in InFlight
      /\ \A r \in InFlight : r # Idle
      /\ req \in [Slots -> {Idle} \union InFlight]
  BY BusyType DEF AccountsInv, ReqOK
<1>2. req'[s] = Idle /\ \A x \in Slots \ {s} : req'[x] = req[x]
  BY <1>1 DEF End
<1>3. ReqOK'
  BY <1>1 DEF End, ReqOK
<1>4. Busy' = Busy \ {s}
  BY <1>1, <1>2 DEF Busy
<1>5. \A x \in Busy' : x \in Busy \ {s} /\ req'[x] = req[x] /\ req[x].overlap
  BY <1>1, <1>2, <1>4 DEF AccountsInv, OverlapIsKnown
<1>6. OverlapIsKnown' /\ ReadsStand'
  BY Zenon, <1>5 DEF OverlapIsKnown, ReadsStand
<1>7. ErasedIsLeftAlone'
  <2> SUFFICES ASSUME NEW x \in Busy', erased'[req'[x].user] = "alone"
               PROVE  Harmless(req'[x].kind, req'[x].seen)
    BY Zenon DEF ErasedIsLeftAlone, Harmless
  <2> QED
    BY <1>5 DEF AccountsInv, ErasedIsLeftAlone
<1> QED
  BY Zenon, <1>3, <1>6, <1>7 DEF AccountsInv

(* Someone who is erased is there, and found neither by address nor by     *)
(* subject nor among the members.                                          *)
LEMMA ErasedForm ==
  ASSUME AccountsInv, NEW u \in Users, erased[u] = "alone"
  PROVE  /\ Exists(u) /\ ~Known(u) /\ ~user[u].sso /\ user[u].name = "erased" /\ user[u].email = "erased"
         /\ ~IsMember(u) /\ Len(members[u]) = 0
<1>1. /\ user[u].email = "erased" /\ user[u].name = "erased" /\ ~user[u].sso
      /\ ~IsMember(u)
  BY DEF AccountsInv, ErasedIsAnonymous
<1>2. Exists(u) /\ ~Known(u)
  BY <1>1 DEF Exists, NoUser, Known
<1>3. Len(members[u]) = 0
  BY <1>1 DEF IsMember
<1> QED
  BY <1>1, <1>2, <1>3

(* The kinds of requests.                                                  *)
LEMMA AskKinds ==
  /\ Asks({"invite"}, Given, [exists : BOOLEAN, active : BOOLEAN]) \subseteq InFlight
  /\ Asks({"create"}, Given, Nothing) \subseteq InFlight
  /\ Asks({"role"}, Roles, Nothing) \subseteq InFlight
  /\ Asks({"remove", "forgot", "provision"}, Nothing, Nothing) \subseteq InFlight
  /\ Asks({"reset", "accept"}, Tokens, Nothing) \subseteq InFlight
  /\ Asks({"verify"}, Codes \union {"totp"}, SUBSET Codes) \subseteq InFlight
  /\ Asks({"sso"}, Nothing, {"subject", "email"}) \subseteq InFlight
  /\ Asks({"extract"}, Nothing, Names) \subseteq InFlight
  /\ Asks({"update"}, Columns, Items) \subseteq InFlight
  /\ Asks({"erase"}, Nothing, [owned : BOOLEAN, rows : 0 .. 2]) \subseteq InFlight
BY Zenon DEF InFlight, Invites, Creates, Changes, Plain, Uses, Verifies, Links, Extracts, Updates, Erasures

(* Someone is invited.                                                     *)
LEMMA InviteStep ==
  ASSUME AccountsInv, NEW s \in Slots, NEW a \in Users, NEW u \in Users, NEW role \in Roles,
         NEW project \in BOOLEAN, InviteMember(s, a, u, role, project)
  PROVE  AccountsInv'
<1> DEFINE arg == [role |-> role, project |-> project]
           seen == [exists |-> Exists(u), active |-> user[u].active]
           reads == [exists : BOOLEAN, active : BOOLEAN]
<1>1. Begin(s, "invite", a, u, arg, seen) /\ ~IsMember(u) /\ (Exists(u) => Known(u))
  BY DEF InviteMember, Invitable
<1>2. arg \in Given
  BY DEF Given
<1>3. user[u].active \in BOOLEAN /\ Exists(u) \in BOOLEAN
  BY DEF AccountsInv, RowsOK, People, Exists
<1>4. seen \in reads
  BY <1>3
<1>5. erased[u] # "alone"
  BY <1>1, ErasedForm
<1> HIDE DEF arg, seen
<1>6. Stands("invite", a, u, arg, seen)
  BY <1>1 DEF Stands
<1>7. /\ Asks({"invite"}, Given, reads) \subseteq InFlight
      /\ "invite" \in {"invite"}
  BY AskKinds
<1> HIDE DEF reads
<1> QED
  BY <1>1, <1>2, <1>4, <1>5, <1>6, <1>7, BeginStep

(* A user is created.                                                      *)
LEMMA CreateStep ==
  ASSUME AccountsInv, NEW s \in Slots, NEW a \in Users, NEW u \in Users, NEW role \in Roles,
         NEW project \in BOOLEAN, CreateWorkspaceUser(s, a, u, role, project)
  PROVE  AccountsInv'
<1> DEFINE arg == [role |-> role, project |-> project]
<1>1. Begin(s, "create", a, u, arg, "none") /\ ~Exists(u)
  BY DEF CreateWorkspaceUser
<1>2. arg \in Given
  BY DEF Given
<1>3. erased[u] # "alone"
  BY <1>1, ErasedForm
<1> HIDE DEF arg
<1>4. Stands("create", a, u, arg, "none")
  BY DEF Stands
<1>5. /\ Asks({"create"}, Given, Nothing) \subseteq InFlight
      /\ "create" \in {"create"} /\ "none" \in Nothing
  BY AskKinds DEF Nothing
<1> QED
  BY <1>1, <1>2, <1>3, <1>4, <1>5, BeginStep

(* A role is changed.                                                      *)
LEMMA RoleStep ==
  ASSUME AccountsInv, NEW s \in Slots, NEW a \in Users, NEW u \in Users, NEW role \in Roles,
         UpdateMemberRole(s, a, u, role)
  PROVE  AccountsInv'
<1>1. /\ Begin(s, "role", a, u, role, "none") /\ Len(members[u]) = 1
      /\ a = u /\ role # "Admin" => Cardinality(AdminRows) > 1
  BY DEF UpdateMemberRole, NotTheLast
<1>2. erased[u] # "alone"
  BY <1>1, ErasedForm
<1>3. Stands("role", a, u, role, "none")
  BY <1>1 DEF Stands
<1>4. /\ Asks({"role"}, Roles, Nothing) \subseteq InFlight
      /\ "role" \in {"role"} /\ "none" \in Nothing
  BY AskKinds DEF Nothing
<1> QED
  BY <1>1, <1>2, <1>3, <1>4, BeginStep

(* A member is removed.                                                    *)
LEMMA RemoveStep ==
  ASSUME AccountsInv, NEW s \in Slots, NEW a \in Users, NEW u \in Users, RemoveMember(s, a, u)
  PROVE  AccountsInv'
<1>1. /\ Begin(s, "remove", a, u, "none", "none") /\ Len(members[u]) = 1
      /\ members[u][1] = "Admin" => Cardinality(AdminRows) > 1
  BY DEF RemoveMember
<1>2. erased[u] # "alone"
  BY <1>1, ErasedForm
<1>3. Stands("remove", a, u, "none", "none")
  BY <1>1 DEF Stands
<1>4. /\ Asks({"remove", "forgot", "provision"}, Nothing, Nothing) \subseteq InFlight
      /\ "remove" \in {"remove", "forgot", "provision"} /\ "none" \in Nothing
  BY AskKinds DEF Nothing
<1> QED
  BY <1>1, <1>2, <1>3, <1>4, BeginStep

(* Someone is erased.                                                      *)
LEMMA EraseStep ==
  ASSUME AccountsInv, NEW s \in Slots, NEW a \in Users, NEW u \in Users, Erase(s, a, u)
  PROVE  AccountsInv'
<1> DEFINE seen == [owned |-> item.owner = u, rows |-> Len(members[u])]
           reads == [owned : BOOLEAN, rows : 0 .. 2]
<1>1. Begin(s, "erase", a, u, "none", seen)
  BY DEF Erase
<1>2. Len(members[u]) \in 0 .. 2
  BY MembersType DEF AccountsInv
<1>3. /\ seen \in reads
      /\ seen.owned = (item.owner = u) /\ seen.rows = Len(members[u])
  BY <1>2
<1> HIDE DEF seen
<1>4. Stands("erase", a, u, "none", seen)
  BY Zenon, <1>3 DEF Stands
<1>5. Harmless("erase", seen)
  BY DEF Harmless
<1>6. /\ Asks({"erase"}, Nothing, reads) \subseteq InFlight
      /\ "erase" \in {"erase"} /\ "none" \in Nothing
  BY AskKinds DEF Nothing
<1> HIDE DEF reads
<1> QED
  BY <1>1, <1>3, <1>4, <1>5, <1>6, BeginStep

(* Someone forgot the password.                                            *)
LEMMA ForgotStep ==
  ASSUME AccountsInv, NEW s \in Slots, NEW u \in Users, ForgotPassword(s, u)
  PROVE  AccountsInv'
<1>1. Begin(s, "forgot", u, u, "none", "none") /\ Known(u)
  BY DEF ForgotPassword
<1>2. erased[u] # "alone"
  BY <1>1, ErasedForm
<1>3. Stands("forgot", u, u, "none", "none")
  BY DEF Stands
<1>4. /\ Asks({"remove", "forgot", "provision"}, Nothing, Nothing) \subseteq InFlight
      /\ "forgot" \in {"remove", "forgot", "provision"} /\ "none" \in Nothing
  BY AskKinds DEF Nothing
<1> QED
  BY <1>1, <1>2, <1>3, <1>4, BeginStep

(* Someone comes back from the identity provider.                          *)
LEMMA OidcStep ==
  ASSUME AccountsInv, NEW s \in Slots, NEW u \in Users, OidcCallback(s, u)
  PROVE  AccountsInv'
<1> DEFINE seen == IF user[u].sso THEN "subject" ELSE "email"
<1>1. Begin(s, "sso", u, u, "none", seen) /\ (user[u].sso \/ Known(u))
  BY DEF OidcCallback
<1>2. erased[u] # "alone"
  BY <1>1, ErasedForm
<1>3. seen \in {"subject", "email"}
  OBVIOUS
<1> HIDE DEF seen
<1>4. Stands("sso", u, u, "none", seen)
  BY DEF Stands
<1>5. /\ Asks({"sso"}, Nothing, {"subject", "email"}) \subseteq InFlight
      /\ "sso" \in {"sso"} /\ "none" \in Nothing
  BY AskKinds DEF Nothing
<1> QED
  BY <1>1, <1>2, <1>3, <1>4, <1>5, BeginStep

(* Someone whom it does not know here.                                     *)
LEMMA OidcUnknownStep ==
  ASSUME AccountsInv, NEW s \in Slots, NEW u \in Users, OidcUnknown(s, u)
  PROVE  AccountsInv'
<1>1. Begin(s, "provision", u, u, "none", "none")
  BY DEF OidcUnknown
<1>2. Harmless("provision", "none")
  BY DEF Harmless
<1>3. Stands("provision", u, u, "none", "none")
  BY DEF Stands
<1>4. /\ Asks({"remove", "forgot", "provision"}, Nothing, Nothing) \subseteq InFlight
      /\ "provision" \in {"remove", "forgot", "provision"} /\ "none" \in Nothing
  BY AskKinds DEF Nothing
<1> QED
  BY <1>1, <1>2, <1>3, <1>4, BeginStep

(* An extraction looks up an owner.                                        *)
LEMMA ResolveStep ==
  ASSUME AccountsInv, NEW s \in Slots, NEW u \in Users, ResolveOwner(s, u)
  PROVE  AccountsInv'
<1>1. Begin(s, "extract", u, u, "none", user[u].name)
  BY DEF ResolveOwner
<1>2. erased[u] = "alone" => Harmless("extract", user[u].name)
  BY ErasedForm DEF Harmless
<1>3. Stands("extract", u, u, "none", user[u].name)
  BY DEF Stands
<1>4. user[u].name \in Names
  BY DEF AccountsInv, RowsOK, People
<1>5. /\ Asks({"extract"}, Nothing, Names) \subseteq InFlight
      /\ "extract" \in {"extract"} /\ "none" \in Nothing
  BY AskKinds DEF Nothing
<1> QED
  BY <1>1, <1>2, <1>3, <1>4, <1>5, BeginStep

(* A user edits the item.                                                  *)
LEMMA UpdateStep ==
  ASSUME AccountsInv, NEW s \in Slots, NEW a \in Users, NEW u \in Users,
         NEW given \in Columns, UpdateItem(s, a, u, given)
  PROVE  AccountsInv'
<1>1. Begin(s, "update", a, u, given, item)
  BY DEF UpdateItem
<1>2. Harmless("update", item)
  BY DEF Harmless
<1>3. Stands("update", a, u, given, item)
  BY DEF Stands
<1>4. item \in Items
  BY DEF AccountsInv, RowsOK
<1>5. Asks({"update"}, Columns, Items) \subseteq InFlight /\ "update" \in {"update"}
  BY AskKinds
<1> QED
  BY Zenon, <1>1, <1>2, <1>3, <1>4, <1>5, BeginStep

(* A second factor is shown.                                               *)
LEMMA VerifyStep ==
  ASSUME AccountsInv, NEW s \in Slots, NEW u \in Users, NEW code \in {"c1", "c2", "totp"},
         VerifyMfa(s, u, code)
  PROVE  AccountsInv'
<1>1. /\ Begin(s, "verify", u, u, code, mfa[u].codes) /\ Known(u)
      /\ code \in mfa[u].codes \union {"totp"}
  BY DEF VerifyMfa
<1>2. erased[u] # "alone"
  BY <1>1, ErasedForm
<1>3. Stands("verify", u, u, code, mfa[u].codes)
  BY <1>1 DEF Stands
<1>4. mfa[u].codes \in SUBSET Codes
  BY DEF AccountsInv, RowsOK, Factors
<1>5. /\ Asks({"verify"}, Codes \union {"totp"}, SUBSET Codes) \subseteq InFlight
      /\ "verify" \in {"verify"} /\ code \in Codes \union {"totp"}
  BY AskKinds DEF Codes
<1> QED
  BY <1>1, <1>2, <1>3, <1>4, <1>5, BeginStep

(* A token of an e-mail is shown.                                          *)
LEMMA UseStep ==
  ASSUME AccountsInv, NEW s \in Slots, NEW t \in Tokens, ResetPassword(s, t) \/ AcceptInvite(s, t)
  PROVE  AccountsInv'
<1>1. PICK kind \in {"reset", "accept"} : Begin(s, kind, token[t].user, token[t].user, t, "none")
  BY DEF ResetPassword, AcceptInvite
<1>2. token[t].state \in {"fresh", "valid"} /\ Valid(t)
  BY DEF ResetPassword, AcceptInvite, Valid
<1>3. token[t].user \in Users
  BY <1>2 DEF AccountsInv, RowsOK, TokensOK
<1>4. Stands(kind, token[t].user, token[t].user, t, "none")
  BY <1>2 DEF Stands
<1>5. Harmless(kind, "none")
  BY DEF Harmless
<1>6. Asks({"reset", "accept"}, Tokens, Nothing) \subseteq InFlight /\ "none" \in Nothing
  BY AskKinds DEF Nothing
<1> QED
  BY <1>1, <1>3, <1>4, <1>5, <1>6, BeginStep

-----------------------------------------------------------------------------
(* Commits *)

(* The first of some roles is replaced.                                    *)
LEMMA NewHead ==
  ASSUME NEW q \in Seq(AllRoles), q # <<>>, NEW role \in AllRoles
  PROVE  /\ <<role>> \o Tail(q) \in Seq(AllRoles) /\ Len(<<role>> \o Tail(q)) = Len(q)
         /\ (<<role>> \o Tail(q))[1] = role
         /\ \A i \in 2 .. Len(q) : (<<role>> \o Tail(q))[i] = q[i]
<1> DEFINE head == <<role>>
           tail == Tail(q)
<1>1. head \in Seq(AllRoles) /\ Len(head) = 1 /\ head[1] = role
  OBVIOUS
<1>2. /\ tail \in Seq(AllRoles) /\ Len(tail) = Len(q) - 1
      /\ \A i \in 1 .. Len(tail) : tail[i] = q[i + 1]
  BY HeadTailProperties
<1>3. Len(q) \in Nat
  BY LenProperties
<1> HIDE DEF head, tail
<1>4. /\ head \o tail \in Seq(AllRoles) /\ Len(head \o tail) = Len(head) + Len(tail)
      /\ \A i \in 1 .. Len(head) + Len(tail) :
           (head \o tail)[i] = IF i <= Len(head) THEN head[i] ELSE tail[i - Len(head)]
  <2>1. head \in Seq(AllRoles) /\ tail \in Seq(AllRoles)
    BY <1>1, <1>2
  <2>2. head \o tail \in Seq(AllRoles)
    BY <2>1
  <2>3. Len(head \o tail) = Len(head) + Len(tail)
    BY <2>1
  <2>4. \A i \in 1 .. Len(head) + Len(tail) :
          (head \o tail)[i] = IF i <= Len(head) THEN head[i] ELSE tail[i - Len(head)]
    BY <2>1
  <2> QED
    BY <2>2, <2>3, <2>4
<1>5. Len(head) + Len(tail) = Len(q) /\ Len(q) >= 1
  <2>1. Len(tail) \in Nat
    BY <1>2, LenProperties
  <2> QED
    BY <1>1, <1>2, <1>3, <2>1
<1>6. (head \o tail)[1] = role
  BY <1>1, <1>3, <1>4, <1>5
<1>7. ASSUME NEW i \in 2 .. Len(q)
      PROVE  (head \o tail)[i] = q[i]
  <2>1. i \in 1 .. Len(q) /\ ~(i <= 1) /\ i - 1 \in 1 .. Len(tail) /\ (i - 1) + 1 = i
    BY <1>2, <1>3
  <2>2. (head \o tail)[i] = tail[i - 1]
    BY <1>1, <1>4, <1>5, <2>1
  <2>3. tail[i - 1] = q[(i - 1) + 1]
    BY <1>2, <2>1
  <2> QED
    BY <2>1, <2>2, <2>3
<1> QED
  BY <1>4, <1>5, <1>6, <1>7 DEF head, tail

(* What is committed is a request in flight, which ends.                   *)
LEMMA DueForm ==
  ASSUME AccountsInv, NEW s \in Slots, NEW k, k # "idle", Due(s, k)
  PROVE  /\ s \in Busy /\ End(s) /\ req[s] \in InFlight /\ req[s].kind = k
         /\ req[s].user \in Users /\ req[s].actor \in Users
<1>1. req[s].kind = k /\ End(s)
  BY DEF Due
<1>2. req[s] # Idle
  BY <1>1 DEF Idle
<1>3. s \in Busy
  BY <1>2 DEF Busy
<1> QED
  BY <1>1, <1>3, BusyType, RequestKinds DEF AccountsInv

(* A change of someone who is not erased, or who was erased in a race.     *)
LEMMA OthersStay ==
  ASSUME AccountsInv, NEW u \in Users, erased[u] # "alone", erased' = erased, item' = item,
         \A v \in Users \ {u} : user'[v] = user[v] /\ members'[v] = members[v]
  PROVE  ErasedIsAnonymous'
<1> SUFFICES ASSUME NEW v \in Users, erased'[v] = "alone"
             PROVE  (/\ user[v].email = "erased" /\ user[v].name = "erased" /\ ~user[v].sso
                     /\ ~IsMember(v) /\ (item.owner = v => item.label = "erased" \/ item.by = "user"))'
  BY Zenon DEF ErasedIsAnonymous
<1>1. /\ user[v].email = "erased" /\ user[v].name = "erased" /\ ~user[v].sso
      /\ ~IsMember(v) /\ (item.owner = v => item.label = "erased" \/ item.by = "user")
  BY DEF AccountsInv, ErasedIsAnonymous
<1>2. v # u
  OBVIOUS
<1> QED
  BY <1>1, <1>2 DEF IsMember

(* A kind of request that someone erased alone has none of.                *)
LEMMA NotErased ==
  ASSUME AccountsInv, NEW s \in Busy,
         req[s].kind \notin {"reset", "accept", "provision", "extract", "update", "erase"}
  PROVE  erased[req[s].user] # "alone"
BY DEF AccountsInv, ErasedIsLeftAlone, Harmless

(* A user gets new columns.                                                *)
LEMMA NewColumns ==
  ASSUME RowsOK, NEW u \in Users, NEW p \in People, user' = [user EXCEPT ![u] = p]
  PROVE  /\ user' \in [Users -> People] /\ user'[u] = p
         /\ \A v \in Users \ {u} : user'[v] = user[v]
<1>1. user \in [Users -> People]
  BY Zenon DEF RowsOK
<1> QED
  BY <1>1

(* A user gets new rows in the workspace.                                  *)
LEMMA NewRows ==
  ASSUME RowsOK, NEW u \in Users, NEW q \in Seq(AllRoles), Len(q) <= 2,
         members' = [members EXCEPT ![u] = q]
  PROVE  /\ members' \in [Users -> Seq(AllRoles)] /\ \A v \in Users : Len(members'[v]) <= 2
         /\ members'[u] = q /\ \A v \in Users \ {u} : members'[v] = members[v]
<1>1. members \in [Users -> Seq(AllRoles)] /\ \A v \in Users : Len(members[v]) <= 2
  BY Zenon DEF RowsOK
<1>2. /\ members' \in [Users -> Seq(AllRoles)]
      /\ members'[u] = q /\ \A v \in Users \ {u} : members'[v] = members[v]
  BY <1>1
<1>3. ASSUME NEW v \in Users
      PROVE  Len(members'[v]) <= 2
  <2>1. CASE v = u
    BY Zenon, <1>2, <2>1
  <2>2. CASE v # u
    BY Zenon, <1>1, <1>2, <2>2
  <2> QED
    BY <2>1, <2>2
<1> QED
  BY <1>2, <1>3

(* A token is issued to a user.                                            *)
LEMMA IssueType ==
  ASSUME TokensOK, NEW u \in Users, NEW type \in {"invite", "reset"}, token' = Issue(u, type)
  PROVE  TokensOK'
<1> DEFINE new == [user |-> u, type |-> type, state |-> "fresh"]
           n == Lowest(TokensLeft)
<1>1. new \in Grants /\ new.user \in Users
  BY DEF Grants, States
<1>2. token' = [token EXCEPT ![n] = new]
  BY DEF Issue
<1> HIDE DEF new, n
<1>3. token' \in [Tokens -> Grants] /\ \A t \in Tokens : token'[t] = new \/ token'[t] = token[t]
  BY <1>1, <1>2 DEF TokensOK
<1> QED
  BY <1>1, <1>3 DEF TokensOK, Valid

(* A token is used.                                                        *)
LEMMA MarkType ==
  ASSUME TokensOK, NEW t \in Tokens, token' = Marked(t)
  PROVE  TokensOK' /\ token'[t].state = "used"
<1> DEFINE new == [token[t] EXCEPT !.state = "used"]
<1>1. token' = [token EXCEPT ![t] = new]
  BY DEF Marked
<1>2. token[t] \in Grants
  BY DEF TokensOK
<1>3. new \in Grants /\ new.state = "used"
  BY <1>2 DEF Grants, States
<1> HIDE DEF new
<1>4. /\ token' \in [Tokens -> Grants] /\ token'[t] = new
      /\ \A x \in Tokens \ {t} : token'[x] = token[x]
  BY <1>1, <1>3 DEF TokensOK, Valid
<1> QED
  BY <1>3, <1>4 DEF TokensOK, Valid

(* Some session that is not used yet is opened.                            *)
LEMMA OpenStep ==
  ASSUME AccountsInv, NEW u \in Users, SessionsLeft # {}, OpenSession(u),
         revoked' = revoked, left' = left
  PROVE  session' \in [Sessions -> Opened] /\ LeftIsRevoked'
<1> DEFINE new == [user |-> u, state |-> "open"]
           n == Lowest(SessionsLeft)
<1>1. SessionsLeft \subseteq Sessions /\ Sessions \subseteq Nat
  BY AccountAssumption DEF SessionsLeft
<1>2. n \in SessionsLeft
  BY <1>1, LowestIsOne
<1>3. n \in Sessions /\ session[n].state = "none"
  BY <1>2 DEF SessionsLeft, NoSession
<1>4. new \in Opened /\ session' = [session EXCEPT ![n] = new]
  BY DEF Opened, OpenSession
<1>5. session \in [Sessions -> Opened] /\ left \subseteq Sessions
  BY Zenon DEF AccountsInv, RowsOK, SetsOK
<1> HIDE DEF new, n
<1>6. session' \in [Sessions -> Opened] /\ \A x \in Sessions \ {n} : session'[x] = session[x]
  BY <1>3, <1>4, <1>5
<1>7. LeftIsRevoked'
  <2> SUFFICES ASSUME NEW x \in left'
               PROVE  session'[x].state = "expired" \/ (session'[x].state = "open" /\ x \in revoked')
    BY Zenon DEF LeftIsRevoked
  <2>1. session[x].state = "expired" \/ (session[x].state = "open" /\ x \in revoked)
    BY DEF AccountsInv, LeftIsRevoked
  <2>2. x # n /\ x \in Sessions
    BY <1>3, <1>5, <2>1
  <2> QED
    BY <1>6, <2>1, <2>2
<1> QED
  BY <1>6, <1>7

(* The data after a commit: what changes has its type.                     *)
LEMMA CommitType ==
  ASSUME RowsOK, SetsOK,
         user' \in [Users -> People],
         members' \in [Users -> Seq(AllRoles)], \A u \in Users : Len(members'[u]) <= 2,
         TokensOK', mfa' \in [Users -> Factors], item' \in Items, session' \in [Sessions -> Opened],
         erased' \in [Users -> {"no", "alone", "raced"}],
         access' \subseteq Users, elsewhere' \subseteq Users, revoked' = revoked, left' = left, events' = events
  PROVE  RowsOK' /\ SetsOK'
BY Zenon DEF RowsOK, SetsOK

(* Parts of the data.                                                      *)
LEMMA Parts ==
  ASSUME AccountsInv
  PROVE  /\ RowsOK /\ SetsOK
         /\ user \in [Users -> People]
         /\ members \in [Users -> Seq(AllRoles)] /\ \A u \in Users : Len(members[u]) <= 2
         /\ TokensOK /\ mfa \in [Users -> Factors] /\ item \in Items
         /\ session \in [Sessions -> Opened] /\ erased \in [Users -> {"no", "alone", "raced"}]
         /\ access \subseteq Users /\ elsewhere \subseteq Users
BY Zenon DEF AccountsInv, RowsOK, SetsOK

(* Tokens that are left alone.                                             *)
LEMMA SameTokens ==
  ASSUME TokensOK, token' = token
  PROVE  TokensOK'
BY Zenon DEF TokensOK, Valid

(* Sessions that are left alone.                                           *)
LEMMA SameSessions ==
  ASSUME LeftIsRevoked, UNCHANGED signin
  PROVE  LeftIsRevoked'
BY Zenon DEF LeftIsRevoked, signin

(* The invitation is stored.                                               *)
LEMMA CommitInviteStep ==
  ASSUME AccountsInv, NEW s \in Slots, CommitInvite(s)
  PROVE  AccountsInv'
<1> DEFINE u == req[s].user
           arg == req[s].arg
<1>1. /\ s \in Busy /\ End(s) /\ req[s] \in InFlight /\ req[s].kind = "invite" /\ u \in Users
  BY DueForm DEF CommitInvite
<1>2. req[s] \in Invites
  BY <1>1, RequestKinds
<1>3. arg \in Given /\ req[s].seen.exists \in BOOLEAN
  BY <1>2 DEF Invites, Asks
<1>4. arg.role \in AllRoles
  BY <1>3, AccountAssumption DEF Given, AllRoles
<1>5. /\ req[s].seen.exists = Exists(u) /\ Len(members[u]) < 2
      /\ user' = IF req[s].seen.exists THEN user ELSE [user EXCEPT ![u] = Pending(u, arg.role)]
      /\ members' = [members EXCEPT ![u] = Append(@, arg.role)]
      /\ access' = IF arg.project THEN access \union {u} ELSE access
      /\ token' = IF req[s].seen.active THEN token ELSE Issue(u, "invite")
      /\ UNCHANGED <<signin, item, elsewhere, erased, events>>
  BY DEF CommitInvite
<1> DEFINE p == Pending(u, arg.role)
           q == Append(members[u], arg.role)
<1>6. p \in People /\ p # NoUser
  BY <1>4 DEF Pending, People, NoUser, Names
<1>7. q \in Seq(AllRoles) /\ Len(q) <= 2
  <2>1. members[u] \in Seq(AllRoles) /\ Len(members[u]) \in 0 .. 2
    BY <1>1, MembersType, Parts
  <2> QED
    BY <1>4, <1>5, <2>1
<1> HIDE DEF u, arg, p, q
<1>8. members' = [members EXCEPT ![u] = q]
  BY <1>5 DEF q
<1>9. /\ members' \in [Users -> Seq(AllRoles)] /\ \A v \in Users : Len(members'[v]) <= 2
      /\ members'[u] = q /\ \A v \in Users \ {u} : members'[v] = members[v]
  BY <1>1, <1>7, <1>8, NewRows, Parts
<1>10. /\ user' \in [Users -> People] /\ user'[u] # NoUser /\ \A v \in Users \ {u} : user'[v] = user[v]
  <2>1. CASE Exists(u)
    <3>1. user' = user /\ user[u] # NoUser
      BY <1>5, <2>1 DEF Exists
    <3> QED
      BY <3>1, Parts
  <2>2. CASE ~Exists(u)
    <3>1. user' = [user EXCEPT ![u] = p]
      BY <1>5, <2>2 DEF p
    <3> QED
      BY <1>1, <1>6, <3>1, NewColumns, Parts
  <2> QED
    BY <2>1, <2>2
<1>11. TokensOK'
  <2>1. CASE token' = token
    BY <2>1, SameTokens, Parts
  <2>2. CASE token' = Issue(u, "invite")
    BY <1>1, <2>2, IssueType, Parts
  <2> QED
    BY <1>5, <2>1, <2>2
<1>12. access' \subseteq Users
  BY <1>1, <1>5, Parts
<1>13. /\ mfa' = mfa /\ item' = item /\ session' = session /\ erased' = erased /\ elsewhere' = elsewhere
       /\ revoked' = revoked /\ left' = left /\ events' = events
  BY <1>5 DEF signin
<1>14. RowsOK' /\ SetsOK'
  BY <1>9, <1>10, <1>11, <1>12, <1>13, CommitType, Parts
<1>15. MembersExist'
  <2> SUFFICES ASSUME NEW v \in Users, members'[v] # <<>>
               PROVE  user'[v] # NoUser
    BY Zenon DEF MembersExist, IsMember, Exists
  <2>1. CASE v = u
    BY <1>10, <2>1
  <2>2. CASE v # u
    BY <1>9, <1>10, <2>2 DEF AccountsInv, MembersExist, IsMember, Exists
  <2> QED
    BY <2>1, <2>2
<1>16. ErasedIsAnonymous'
  <2>1. erased[u] # "alone"
    BY <1>1, NotErased DEF u
  <2> QED
    BY <1>1, <1>9, <1>10, <1>13, <2>1, OthersStay
<1>17. LeftIsRevoked'
  BY <1>5, SameSessions DEF AccountsInv
<1> QED
  BY <1>1, <1>13, <1>14, <1>15, <1>16, <1>17, EndStep

(* The user who was created is stored.                                     *)
LEMMA CommitUserStep ==
  ASSUME AccountsInv, NEW s \in Slots, CommitUser(s)
  PROVE  AccountsInv'
<1> DEFINE u == req[s].user
           arg == req[s].arg
<1>1. /\ s \in Busy /\ End(s) /\ req[s] \in InFlight /\ req[s].kind = "create" /\ u \in Users
  BY DueForm DEF CommitUser
<1>2. req[s] \in Creates
  BY <1>1, RequestKinds
<1>3. arg \in Given
  BY <1>2 DEF Creates, Asks
<1>4. arg.role \in AllRoles
  BY <1>3, AccountAssumption DEF Given, AllRoles
<1> DEFINE p == [Pending(u, arg.role) EXCEPT !.active = TRUE, !.password = TRUE]
           q == <<arg.role>>
<1>5. /\ user' = [user EXCEPT ![u] = p]
      /\ members' = [members EXCEPT ![u] = q]
      /\ access' = IF arg.project THEN access \union {u} ELSE access
      /\ UNCHANGED <<token, signin, item, elsewhere, erased, events>>
  BY DEF CommitUser
<1>6. p \in People /\ p # NoUser
  BY <1>4 DEF Pending, People, NoUser, Names
<1>7. q \in Seq(AllRoles) /\ Len(q) <= 2
  BY <1>4
<1> HIDE DEF u, arg, p, q
<1>8. /\ members' \in [Users -> Seq(AllRoles)] /\ \A v \in Users : Len(members'[v]) <= 2
      /\ members'[u] = q /\ \A v \in Users \ {u} : members'[v] = members[v]
  BY <1>1, <1>5, <1>7, NewRows, Parts
<1>9. /\ user' \in [Users -> People] /\ user'[u] # NoUser /\ \A v \in Users \ {u} : user'[v] = user[v]
  BY <1>1, <1>5, <1>6, NewColumns, Parts
<1>10. access' \subseteq Users
  BY <1>1, <1>5, Parts
<1>11. /\ mfa' = mfa /\ item' = item /\ session' = session /\ erased' = erased /\ elsewhere' = elsewhere
       /\ revoked' = revoked /\ left' = left /\ events' = events
  BY <1>5 DEF signin
<1>12. TokensOK'
  BY <1>5, SameTokens, Parts
<1>13. RowsOK' /\ SetsOK'
  BY <1>8, <1>9, <1>10, <1>11, <1>12, CommitType, Parts
<1>14. MembersExist'
  <2> SUFFICES ASSUME NEW v \in Users, members'[v] # <<>>
               PROVE  user'[v] # NoUser
    BY Zenon DEF MembersExist, IsMember, Exists
  <2>1. CASE v = u
    BY <1>9, <2>1
  <2>2. CASE v # u
    BY <1>8, <1>9, <2>2 DEF AccountsInv, MembersExist, IsMember, Exists
  <2> QED
    BY <2>1, <2>2
<1>15. ErasedIsAnonymous'
  <2>1. erased[u] # "alone"
    BY <1>1, NotErased DEF u
  <2> QED
    BY <1>1, <1>8, <1>9, <1>11, <2>1, OthersStay
<1>16. LeftIsRevoked'
  BY <1>5, SameSessions DEF AccountsInv
<1> QED
  BY <1>1, <1>11, <1>13, <1>14, <1>15, <1>16, EndStep

(* The new role is stored, for the member and for the user.                *)
LEMMA CommitRoleStep ==
  ASSUME AccountsInv, NEW s \in Slots, CommitRole(s)
  PROVE  AccountsInv'
<1> DEFINE u == req[s].user
           role == req[s].arg
<1>1. /\ s \in Busy /\ End(s) /\ req[s] \in InFlight /\ req[s].kind = "role" /\ u \in Users
  BY DueForm DEF CommitRole
<1>2. req[s] \in Changes
  BY <1>1, RequestKinds
<1>3. role \in AllRoles
  BY <1>2, AccountAssumption DEF Changes, Asks, AllRoles
<1> DEFINE p == [user[u] EXCEPT !.role = role]
           q == <<role>> \o Tail(members[u])
<1>4. /\ IsMember(u)
      /\ user' = [user EXCEPT ![u] = p]
      /\ members' = [members EXCEPT ![u] = q]
      /\ UNCHANGED <<access, token, signin, item, elsewhere, erased, events>>
  BY DEF CommitRole
<1>5. user[u] \in People /\ user[u] # NoUser
  BY <1>1, <1>4, Parts DEF AccountsInv, MembersExist, Exists
<1>6. p \in People /\ p.role # "none"
  BY <1>3, <1>5 DEF People, AllRoles
<1>7. q \in Seq(AllRoles) /\ Len(q) <= 2
  <2>1. members[u] \in Seq(AllRoles) /\ Len(members[u]) \in 0 .. 2 /\ members[u] # <<>>
    BY <1>1, <1>4, MembersType, Parts DEF IsMember
  <2>2. q \in Seq(AllRoles) /\ Len(q) = Len(members[u])
    BY <1>3, <2>1, NewHead
  <2>3. Len(members[u]) <= 2
    BY Zenon, <1>1, Parts
  <2> QED
    BY Zenon, <2>2, <2>3
<1>8. erased[u] # "alone"
  BY <1>1, NotErased
<1> HIDE DEF u, role, p, q
<1>9. /\ members' \in [Users -> Seq(AllRoles)] /\ \A v \in Users : Len(members'[v]) <= 2
      /\ members'[u] = q /\ \A v \in Users \ {u} : members'[v] = members[v]
  BY <1>1, <1>4, <1>7, NewRows, Parts
<1>10. /\ user' \in [Users -> People] /\ user'[u] = p /\ \A v \in Users \ {u} : user'[v] = user[v]
  BY <1>1, <1>4, <1>6, NewColumns, Parts
<1>11. /\ mfa' = mfa /\ item' = item /\ session' = session /\ erased' = erased /\ elsewhere' = elsewhere
       /\ revoked' = revoked /\ left' = left /\ events' = events /\ access' = access
  BY <1>4 DEF signin
<1>12. TokensOK'
  BY <1>4, SameTokens, Parts
<1>13. RowsOK' /\ SetsOK'
  BY <1>9, <1>10, <1>11, <1>12, CommitType, Parts
<1>14. MembersExist'
  <2> SUFFICES ASSUME NEW v \in Users, members'[v] # <<>>
               PROVE  user'[v] # NoUser
    BY Zenon DEF MembersExist, IsMember, Exists
  <2>1. CASE v = u
    BY <1>6, <1>10, <2>1 DEF NoUser
  <2>2. CASE v # u
    BY <1>9, <1>10, <2>2 DEF AccountsInv, MembersExist, IsMember, Exists
  <2> QED
    BY <2>1, <2>2
<1>15. ErasedIsAnonymous'
  BY <1>1, <1>8, <1>9, <1>10, <1>11, OthersStay
<1>16. LeftIsRevoked'
  BY <1>4, SameSessions DEF AccountsInv
<1> QED
  BY <1>1, <1>11, <1>13, <1>14, <1>15, <1>16, EndStep

(* A member's oldest row goes.                                             *)
LEMMA CommitRemovalStep ==
  ASSUME AccountsInv, NEW s \in Slots, CommitRemoval(s)
  PROVE  AccountsInv'
<1> DEFINE u == req[s].user
           q == IF members[u] = <<>> THEN <<>> ELSE Tail(members[u])
<1>1. /\ s \in Busy /\ End(s) /\ req[s] \in InFlight /\ req[s].kind = "remove" /\ u \in Users
  BY DueForm DEF CommitRemoval
<1>2. /\ members' = [members EXCEPT ![u] = q]
      /\ UNCHANGED <<user, access, token, signin, item, elsewhere, erased, events>>
  BY DEF CommitRemoval
<1>3. members[u] \in Seq(AllRoles) /\ Len(members[u]) <= 2
  BY Zenon, <1>1, MembersType, Parts
<1>4. q \in Seq(AllRoles) /\ Len(q) <= 2
  <2>1. CASE members[u] = <<>>
    BY <2>1
  <2>2. CASE members[u] # <<>>
    <3>1. q = Tail(members[u])
      BY <2>2
    <3>2. Tail(members[u]) \in Seq(AllRoles) /\ Len(Tail(members[u])) = Len(members[u]) - 1
      BY <1>3, <2>2, HeadTailProperties
    <3>3. Len(members[u]) \in Nat
      BY <1>3, LenProperties
    <3> HIDE DEF q
    <3>4. Len(q) = Len(members[u]) - 1
      BY Zenon, <3>1, <3>2
    <3>5. Len(q) <= 2
      BY <1>3, <3>3, <3>4
    <3> QED
      BY Zenon, <3>1, <3>2, <3>5
  <2> QED
    BY <2>1, <2>2
<1>5. members[u] = <<>> => q = <<>>
  OBVIOUS
<1>6. erased[u] # "alone"
  BY <1>1, NotErased
<1> HIDE DEF u, q
<1>7. /\ members' \in [Users -> Seq(AllRoles)] /\ \A v \in Users : Len(members'[v]) <= 2
      /\ members'[u] = q /\ \A v \in Users \ {u} : members'[v] = members[v]
  BY <1>1, <1>2, <1>4, NewRows, Parts
<1>8. /\ user' = user /\ mfa' = mfa /\ item' = item /\ session' = session /\ erased' = erased
      /\ elsewhere' = elsewhere /\ revoked' = revoked /\ left' = left /\ events' = events /\ access' = access
  BY <1>2 DEF signin
<1>9. TokensOK'
  BY <1>2, SameTokens, Parts
<1>10. RowsOK' /\ SetsOK'
  BY <1>7, <1>8, <1>9, CommitType, Parts
<1>11. MembersExist'
  <2> SUFFICES ASSUME NEW v \in Users, members'[v] # <<>>
               PROVE  user'[v] # NoUser
    BY Zenon DEF MembersExist, IsMember, Exists
  <2>1. members[v] # <<>>
    BY <1>5, <1>7
  <2> QED
    BY <1>8, <2>1 DEF AccountsInv, MembersExist, IsMember, Exists
<1>12. ErasedIsAnonymous'
  BY <1>1, <1>6, <1>7, <1>8, OthersStay
<1>13. LeftIsRevoked'
  BY <1>2, SameSessions DEF AccountsInv
<1> QED
  BY <1>1, <1>8, <1>10, <1>11, <1>12, <1>13, EndStep

(* Columns that do not tell who someone is may change, and so may those of *)
(* someone who is not erased.                                              *)
LEMMA SameMembers ==
  ASSUME AccountsInv, members' = members, item' = item, erased' = erased,
         NEW u \in Users, user'[u] # NoUser, \A v \in Users \ {u} : user'[v] = user[v],
         \/ erased[u] # "alone"
         \/ user'[u].email = user[u].email /\ user'[u].name = user[u].name /\ user'[u].sso = user[u].sso
  PROVE  MembersExist' /\ ErasedIsAnonymous'
<1>1. MembersExist'
  BY DEF AccountsInv, MembersExist, IsMember, Exists
<1>2. ErasedIsAnonymous'
  <2> SUFFICES ASSUME NEW v \in Users, erased'[v] = "alone"
               PROVE  (/\ user[v].email = "erased" /\ user[v].name = "erased" /\ ~user[v].sso
                       /\ ~IsMember(v) /\ (item.owner = v => item.label = "erased" \/ item.by = "user"))'
    BY Zenon DEF ErasedIsAnonymous
  <2>1. /\ user[v].email = "erased" /\ user[v].name = "erased" /\ ~user[v].sso
        /\ ~IsMember(v) /\ (item.owner = v => item.label = "erased" \/ item.by = "user")
    BY DEF AccountsInv, ErasedIsAnonymous
  <2>2. user'[v].email = user[v].email /\ user'[v].name = user[v].name /\ user'[v].sso = user[v].sso
    BY Zenon
  <2> QED
    BY Zenon, <2>1, <2>2 DEF IsMember
<1> QED
  BY <1>1, <1>2

(* Nobody changes.                                                         *)
LEMMA SamePeople ==
  ASSUME AccountsInv, UNCHANGED <<user, members, item, erased>>
  PROVE  MembersExist' /\ ErasedIsAnonymous'
BY Zenon DEF AccountsInv, MembersExist, ErasedIsAnonymous, IsMember, Exists

(* A token to reset the password is stored.                                *)
LEMMA CommitForgotStep ==
  ASSUME AccountsInv, NEW s \in Slots, CommitForgot(s)
  PROVE  AccountsInv'
<1> DEFINE u == req[s].user
<1>1. s \in Busy /\ End(s) /\ u \in Users
  BY DueForm DEF CommitForgot
<1>2. token' = Issue(u, "reset") /\ UNCHANGED <<user, members, access, signin, item, elsewhere, erased, events>>
  BY DEF CommitForgot
<1> HIDE DEF u
<1>3. TokensOK'
  BY <1>1, <1>2, IssueType, Parts
<1>4. RowsOK' /\ SetsOK'
  BY Zenon, <1>2, <1>3 DEF AccountsInv, RowsOK, SetsOK, signin
<1>5. MembersExist' /\ ErasedIsAnonymous' /\ LeftIsRevoked'
  BY <1>2, SamePeople, SameSessions DEF AccountsInv
<1> QED
  BY <1>1, <1>2, <1>4, <1>5, EndStep

(* A password is stored with the token that allowed it, and an account     *)
(* that was invited is activated.                                          *)
LEMMA CommitUseStep ==
  ASSUME AccountsInv, NEW s \in Slots, CommitReset(s) \/ CommitAccept(s)
  PROVE  AccountsInv'
<1> DEFINE u == req[s].user
           p == [user[u] EXCEPT !.password = TRUE]
           o == [p EXCEPT !.active = TRUE]
<1>1. s \in Busy /\ End(s) /\ u \in Users /\ req[s] \in Uses
  <2>1. CASE CommitReset(s)
    BY <2>1, DueForm, RequestKinds DEF CommitReset
  <2>2. CASE CommitAccept(s)
    BY <2>2, DueForm, RequestKinds DEF CommitAccept
  <2> QED
    BY <2>1, <2>2
<1>2. req[s].arg \in Tokens
  BY <1>1 DEF Uses, Asks
<1>3. user \in [Users -> People] /\ user[u] \in People
  BY <1>1, Parts
<1>4. /\ p \in People /\ o \in People /\ p.password /\ o.password
      /\ p.email = user[u].email /\ p.name = user[u].name /\ p.sso = user[u].sso
      /\ o.email = user[u].email /\ o.name = user[u].name /\ o.sso = user[u].sso
  BY <1>3 DEF People
<1>5. user' = [user EXCEPT ![u] = p] \/ user' = [user EXCEPT ![u] = o]
  BY <1>1, <1>3 DEF CommitReset, CommitAccept
<1>6. token' = Marked(req[s].arg) /\ UNCHANGED <<members, access, signin, item, elsewhere, erased, events>>
  BY Zenon DEF CommitReset, CommitAccept
<1> HIDE DEF u, p, o
<1>7. PICK c \in People : /\ user' = [user EXCEPT ![u] = c] /\ c.password
                          /\ c.email = user[u].email /\ c.name = user[u].name /\ c.sso = user[u].sso
  BY <1>4, <1>5
<1>8. user' \in [Users -> People] /\ user'[u] = c /\ \A v \in Users \ {u} : user'[v] = user[v]
  BY <1>1, <1>7, NewColumns, Parts
<1>9. c # NoUser
  BY <1>7 DEF NoUser
<1>10. TokensOK'
  BY <1>2, <1>6, MarkType, Parts
<1>11. RowsOK' /\ SetsOK'
  BY Zenon, <1>6, <1>8, <1>10 DEF AccountsInv, RowsOK, SetsOK, signin
<1>12. MembersExist' /\ ErasedIsAnonymous'
  BY <1>1, <1>6, <1>7, <1>8, <1>9, SameMembers
<1>13. LeftIsRevoked'
  BY <1>6, SameSessions DEF AccountsInv
<1> QED
  BY <1>1, <1>6, <1>11, <1>12, <1>13, EndStep

(* A second factor is accepted, and a backup code that it was is removed.  *)
LEMMA CommitVerifyStep ==
  ASSUME AccountsInv, NEW s \in Slots, CommitVerify(s)
  PROVE  AccountsInv'
<1> DEFINE u == req[s].user
           left2 == Remaining(req[s].seen, req[s].arg)
<1>1. /\ s \in Busy /\ End(s) /\ req[s] \in InFlight /\ req[s].kind = "verify" /\ u \in Users
  BY DueForm DEF CommitVerify
<1>2. req[s] \in Verifies
  BY <1>1, RequestKinds
<1>3. left2 \in SUBSET Codes
  BY <1>2 DEF Verifies, Asks, Remaining
<1>4. /\ mfa' = IF req[s].arg = "totp" THEN mfa ELSE [mfa EXCEPT ![u].codes = left2]
      /\ SessionsLeft # {} /\ OpenSession(u)
      /\ UNCHANGED <<people, revoked, left, item, elsewhere, erased, events>>
  BY DEF CommitVerify
<1> HIDE DEF u, left2
<1>5. mfa' \in [Users -> Factors]
  <2>1. mfa \in [Users -> Factors]
    BY Parts
  <2> DEFINE f == [mfa[u] EXCEPT !.codes = left2]
  <2>2. f \in Factors
    BY <1>1, <1>3, <2>1 DEF Factors
  <2>3. mfa' = mfa \/ mfa' = [mfa EXCEPT ![u] = f]
    BY <1>4
  <2> HIDE DEF f
  <2> QED
    BY <1>1, <2>1, <2>2, <2>3
<1>6. session' \in [Sessions -> Opened] /\ LeftIsRevoked'
  BY Zenon, <1>1, <1>4, OpenStep
<1>7. TokensOK'
  BY <1>4, SameTokens, Parts DEF people
<1>8. RowsOK' /\ SetsOK'
  BY Zenon, <1>4, <1>5, <1>6, <1>7 DEF AccountsInv, RowsOK, SetsOK, people
<1>9. MembersExist' /\ ErasedIsAnonymous'
  BY <1>4, SamePeople DEF people
<1> QED
  BY <1>1, <1>4, <1>6, <1>8, <1>9, EndStep

(* Someone known to the identity provider is linked to it, and signed in.  *)
LEMMA CommitOidcStep ==
  ASSUME AccountsInv, NEW s \in Slots, CommitOidc(s)
  PROVE  AccountsInv'
<1> DEFINE u == req[s].user
           p == [user[u] EXCEPT !.sso = TRUE, !.active = TRUE, !.name = "own"]
<1>1. /\ s \in Busy /\ End(s) /\ req[s] \in InFlight /\ req[s].kind = "sso" /\ u \in Users
  BY DueForm DEF CommitOidc
<1>2. erased[u] # "alone"
  BY <1>1, NotErased
<1>3. user \in [Users -> People] /\ user[u] \in People
  BY <1>1, Parts
<1>4. p \in People /\ p.sso
  BY <1>3 DEF People, Names
<1>5. /\ user' = user \/ user' = [user EXCEPT ![u] = p]
      /\ SessionsLeft # {} /\ OpenSession(u)
      /\ UNCHANGED <<members, access, token, mfa, revoked, left, item, elsewhere, erased, events>>
  <2>1. user' = user \/ user' = [user EXCEPT ![u].sso = TRUE, ![u].active = TRUE, ![u].name = "own"]
    BY DEF CommitOidc
  <2>2. user' = user \/ user' = [user EXCEPT ![u] = p]
    BY <1>1, <1>3, <2>1
  <2> QED
    BY Zenon, <2>2 DEF CommitOidc
<1> HIDE DEF u, p
<1>6. /\ user' \in [Users -> People] /\ (user'[u] # user[u] => user'[u] # NoUser)
      /\ \A v \in Users \ {u} : user'[v] = user[v]
  <2>1. CASE user' = user
    BY <1>3, <2>1
  <2>2. CASE user' = [user EXCEPT ![u] = p]
    BY <1>1, <1>4, <2>2, NewColumns, Parts DEF NoUser
  <2> QED
    BY <1>5, <2>1, <2>2
<1>7. session' \in [Sessions -> Opened] /\ LeftIsRevoked'
  BY Zenon, <1>1, <1>5, OpenStep
<1>8. TokensOK'
  BY <1>5, SameTokens, Parts
<1>9. RowsOK' /\ SetsOK'
  BY Zenon, <1>5, <1>6, <1>7, <1>8 DEF AccountsInv, RowsOK, SetsOK
<1>10. MembersExist'
  BY <1>5, <1>6 DEF AccountsInv, MembersExist, IsMember, Exists
<1>11. ErasedIsAnonymous'
  BY <1>1, <1>2, <1>5, <1>6, OthersStay
<1> QED
  BY <1>1, <1>5, <1>7, <1>9, <1>10, <1>11, EndStep

(* Someone unknown signs up in a tenant of their own.                      *)
LEMMA ProvisionStep ==
  ASSUME AccountsInv, NEW s \in Slots, ProvisionUser(s)
  PROVE  AccountsInv'
<1>1. s \in Busy /\ End(s) /\ req[s].user \in Users
  BY DueForm DEF ProvisionUser
<1>2. elsewhere' = elsewhere \union {req[s].user} /\ UNCHANGED <<people, signin, item, erased, events>>
  BY DEF ProvisionUser
<1>3. elsewhere' \subseteq Users
  BY <1>1, <1>2, Parts
<1>4. TokensOK'
  BY <1>2, SameTokens, Parts DEF people
<1>5. RowsOK' /\ SetsOK'
  BY Zenon, <1>2, <1>3, <1>4 DEF AccountsInv, RowsOK, SetsOK, people, signin
<1>6. MembersExist' /\ ErasedIsAnonymous' /\ LeftIsRevoked'
  BY <1>2, SamePeople, SameSessions DEF AccountsInv, people
<1> QED
  BY <1>1, <1>2, <1>5, <1>6, EndStep

(* An item is stored in the name of its owner: that of someone erased is   *)
(* the anonymous one.                                                      *)
LEMMA StoreItemStep ==
  ASSUME AccountsInv, NEW s \in Slots, StoreItem(s)
  PROVE  AccountsInv'
<1> DEFINE u == req[s].user
           new == [owner |-> u, label |-> req[s].seen, by |-> "extraction"]
<1>1. /\ s \in Busy /\ End(s) /\ req[s] \in InFlight /\ req[s].kind = "extract" /\ u \in Users
  BY DueForm DEF StoreItem
<1>2. req[s] \in Extracts
  BY <1>1, RequestKinds
<1>3. item' = new /\ UNCHANGED <<people, signin, elsewhere, erased, events>>
  BY DEF StoreItem
<1>4. new \in Items /\ new.owner = u /\ new.label = req[s].seen
  BY <1>1, <1>2 DEF Extracts, Asks, Items
<1>5. erased[u] = "alone" => req[s].seen = "erased"
  BY <1>1 DEF AccountsInv, ErasedIsLeftAlone, Harmless
<1> HIDE DEF u, new
<1>6. TokensOK'
  BY <1>3, SameTokens, Parts DEF people
<1>7. RowsOK' /\ SetsOK'
  BY Zenon, <1>3, <1>4, <1>6 DEF AccountsInv, RowsOK, SetsOK, people, signin
<1>8. MembersExist'
  BY Zenon, <1>3 DEF AccountsInv, MembersExist, IsMember, Exists, people
<1>9. ErasedIsAnonymous'
  <2>1. user' = user /\ members' = members /\ erased' = erased
    BY <1>3 DEF people
  <2> SUFFICES ASSUME NEW v \in Users, erased'[v] = "alone"
               PROVE  (/\ user[v].email = "erased" /\ user[v].name = "erased" /\ ~user[v].sso
                       /\ ~IsMember(v) /\ (item.owner = v => item.label = "erased" \/ item.by = "user"))'
    BY Zenon DEF ErasedIsAnonymous
  <2>2. /\ user[v].email = "erased" /\ user[v].name = "erased" /\ ~user[v].sso /\ ~IsMember(v)
    BY <2>1 DEF AccountsInv, ErasedIsAnonymous
  <2>3. item'.owner = v => item'.label = "erased" \/ item'.by = "user"
    BY <1>3, <1>4, <1>5, <2>1
  <2> QED
    BY Zenon, <2>1, <2>2, <2>3 DEF IsMember
<1>10. LeftIsRevoked'
  BY <1>3, SameSessions DEF AccountsInv
<1> QED
  BY <1>1, <1>3, <1>7, <1>8, <1>9, <1>10, EndStep

(* What a user writes of the item notes that a user has named its owner.   *)
LEMMA CommitUpdateStep ==
  ASSUME AccountsInv, NEW s \in Slots, CommitUpdate(s)
  PROVE  AccountsInv'
<1> DEFINE u == req[s].user
           owns == "owner" \in req[s].arg /\ req[s].seen.owner # u
           named == "label" \in req[s].arg /\ req[s].seen.label # "own"
           new == [owner |-> IF owns THEN u ELSE item.owner,
                   label |-> IF named THEN "own" ELSE item.label,
                   by |-> IF owns \/ named THEN "user" ELSE item.by]
<1>1. /\ s \in Busy /\ End(s) /\ u \in Users
  BY DueForm DEF CommitUpdate
<1>2. item' = new /\ UNCHANGED <<people, signin, elsewhere, erased, events>>
  BY DEF CommitUpdate
<1>3. item \in Items
  BY DEF AccountsInv, RowsOK
<1>4. new.by = "user" \/ (new.owner = item.owner /\ new.label = item.label /\ new.by = item.by)
  OBVIOUS
<1>5. new \in Items
  BY <1>1, <1>3 DEF Items, Names
<1> HIDE DEF u, owns, named, new
<1>6. TokensOK'
  BY <1>2, SameTokens, Parts DEF people
<1>7. RowsOK' /\ SetsOK'
  BY Zenon, <1>2, <1>5, <1>6 DEF AccountsInv, RowsOK, SetsOK, people, signin
<1>8. MembersExist'
  BY Zenon, <1>2 DEF AccountsInv, MembersExist, IsMember, Exists, people
<1>9. ErasedIsAnonymous'
  <2>1. user' = user /\ members' = members /\ erased' = erased
    BY <1>2 DEF people
  <2> SUFFICES ASSUME NEW v \in Users, erased'[v] = "alone"
               PROVE  (/\ user[v].email = "erased" /\ user[v].name = "erased" /\ ~user[v].sso
                       /\ ~IsMember(v) /\ (item.owner = v => item.label = "erased" \/ item.by = "user"))'
    BY Zenon DEF ErasedIsAnonymous
  <2>2. /\ user[v].email = "erased" /\ user[v].name = "erased" /\ ~user[v].sso
        /\ ~IsMember(v) /\ (item.owner = v => item.label = "erased" \/ item.by = "user")
    BY <2>1 DEF AccountsInv, ErasedIsAnonymous
  <2>3. item'.owner = v => item'.label = "erased" \/ item'.by = "user"
    BY <1>2, <1>4, <2>2
  <2> QED
    BY Zenon, <2>1, <2>2, <2>3 DEF IsMember
<1>10. LeftIsRevoked'
  BY <1>2, SameSessions DEF AccountsInv
<1> QED
  BY <1>1, <1>2, <1>7, <1>8, <1>9, <1>10, EndStep DEF u

(* A request ends without a commit.                                        *)
LEMMA RollbackStep ==
  ASSUME AccountsInv, NEW s \in Slots, Rollback(s)
  PROVE  AccountsInv'
<1>1. s \in Busy /\ End(s) /\ UNCHANGED <<people, signin, item, elsewhere, erased, events>>
  BY Zenon DEF Rollback
<1>2. RowsOK' /\ SetsOK'
  BY <1>1, SameData, Parts DEF SetsOK
<1>3. MembersExist' /\ ErasedIsAnonymous' /\ LeftIsRevoked'
  BY <1>1, SamePeople, SameSessions DEF AccountsInv, people
<1> QED
  BY <1>1, <1>2, <1>3, EndStep

(* The rows after as many as were read.                                    *)
LEMMA RowsAfter ==
  ASSUME NEW q \in Seq(AllRoles), Len(q) <= 2, NEW m \in Nat
  PROVE  /\ SubSeq(q, m + 1, Len(q)) \in Seq(AllRoles) /\ Len(SubSeq(q, m + 1, Len(q))) <= 2
         /\ Len(SubSeq(q, m + 1, Len(q))) <= Len(q)
         /\ q = <<>> \/ m = Len(q) => SubSeq(q, m + 1, Len(q)) = <<>>
<1> DEFINE l == Len(q)
<1>1. l \in Nat /\ \A i \in 1 .. l : q[i] \in AllRoles
  BY LenProperties, ElementOfSeq
<1> HIDE DEF l
<1>2. m + 1 \in Int /\ l \in Int /\ \A i \in m + 1 .. l : q[i] \in AllRoles
  BY <1>1
<1>3. /\ SubSeq(q, m + 1, l) \in Seq(AllRoles)
      /\ Len(SubSeq(q, m + 1, l)) = IF m + 1 <= l THEN l - (m + 1) + 1 ELSE 0
  BY <1>2, SubSeqProperties
<1> DEFINE r == SubSeq(q, m + 1, l)
<1>4. l <= 2
  BY Zenon DEF l
<1>5. q = <<>> => l = 0
  BY DEF l
<1>6. q = <<>> \/ m = l => l < m + 1
  BY <1>1, <1>5
<1>7. q = <<>> \/ m = l => r = <<>>
  BY Zenon, <1>2, <1>6, SubSeqEmpty
<1> HIDE DEF r
<1>8. Len(r) <= 2 /\ Len(r) <= l
  <2>1. Len(r) = IF m + 1 <= l THEN l - (m + 1) + 1 ELSE 0
    BY Zenon, <1>3 DEF r
  <2> QED
    BY <1>1, <1>4, <2>1
<1> QED
  BY Zenon, <1>3, <1>7, <1>8 DEF r, l

(* Who is erased loses name, address and subject, the rows and the item    *)
(* that were read: without an overlap those are all there are.             *)
LEMMA CommitErasureStep ==
  ASSUME AccountsInv, NEW s \in Slots, CommitErasure(s)
  PROVE  AccountsInv'
<1> DEFINE u == req[s].user
           seen == req[s].seen
           q == SubSeq(members[u], seen.rows + 1, Len(members[u]))
           p == Anonymous(u)
           o == [owner |-> "none", label |-> "erased", by |-> "erasure"]
           how == IF req[s].overlap \/ erased[u] = "raced" THEN "raced" ELSE "alone"
<1>1. /\ s \in Busy /\ End(s) /\ req[s] \in InFlight /\ req[s].kind = "erase" /\ u \in Users
  BY DueForm DEF CommitErasure
<1>2. req[s] \in Erasures
  BY <1>1, RequestKinds
<1>3. seen.rows \in Nat /\ seen.owned \in BOOLEAN
  BY <1>2 DEF Erasures, Asks
<1>4. /\ user' = [user EXCEPT ![u] = p]
      /\ item' = IF seen.owned THEN o ELSE item
      /\ members' = [members EXCEPT ![u] = q]
      /\ erased' = [erased EXCEPT ![u] = how]
      /\ UNCHANGED <<access, token, signin, elsewhere, events>>
  BY DEF CommitErasure
<1>5. user[u] \in People
  BY <1>1, Parts
<1>6. p \in People /\ p.email = "erased" /\ p.name = "erased" /\ ~p.sso
  BY <1>5 DEF Anonymous, People, Names
<1>7. p # NoUser
  BY <1>6 DEF NoUser
<1>8. members[u] \in Seq(AllRoles) /\ Len(members[u]) <= 2
  BY Zenon, <1>1, MembersType, Parts
<1>9. /\ q \in Seq(AllRoles) /\ Len(q) <= 2
      /\ members[u] = <<>> \/ seen.rows = Len(members[u]) => q = <<>>
  BY <1>3, <1>8, RowsAfter
<1>10. o \in Items /\ o.owner = "none"
  BY DEF Items, Names
<1>11. ~req[s].overlap => seen.owned = (item.owner = u) /\ seen.rows = Len(members[u])
  BY Zenon, <1>1 DEF AccountsInv, ReadsStand, Stands
<1>12. /\ how \in {"no", "alone", "raced"} /\ (how = "alone" => ~req[s].overlap)
  OBVIOUS
<1> HIDE DEF u, seen, q, p, o, how
<1>13. /\ user' \in [Users -> People] /\ user'[u] = p /\ \A v \in Users \ {u} : user'[v] = user[v]
  BY <1>1, <1>4, <1>6, NewColumns, Parts
<1>14. /\ members' \in [Users -> Seq(AllRoles)] /\ \A v \in Users : Len(members'[v]) <= 2
       /\ members'[u] = q /\ \A v \in Users \ {u} : members'[v] = members[v]
  BY <1>1, <1>4, <1>9, NewRows, Parts
<1>15. /\ erased' \in [Users -> {"no", "alone", "raced"}]
       /\ erased'[u] = how /\ \A v \in Users \ {u} : erased'[v] = erased[v]
  BY <1>1, <1>4, <1>12, Parts
<1>16. item' \in Items
  BY <1>4, <1>10, Parts
<1>17. /\ access' = access /\ mfa' = mfa /\ session' = session /\ elsewhere' = elsewhere
       /\ revoked' = revoked /\ left' = left /\ events' = events
  BY <1>4 DEF signin
<1>18. TokensOK'
  BY <1>4, SameTokens, Parts
<1>19. RowsOK' /\ SetsOK'
  BY <1>13, <1>14, <1>15, <1>16, <1>17, <1>18, CommitType, Parts
<1>20. MembersExist'
  <2> SUFFICES ASSUME NEW v \in Users, members'[v] # <<>>
               PROVE  user'[v] # NoUser
    BY Zenon DEF MembersExist, IsMember, Exists
  <2>1. CASE v = u
    BY <1>7, <1>13, <2>1
  <2>2. CASE v # u
    BY <1>13, <1>14, <2>2 DEF AccountsInv, MembersExist, IsMember, Exists
  <2> QED
    BY <2>1, <2>2
<1>21. ErasedIsAnonymous'
  <2> SUFFICES ASSUME NEW v \in Users, erased'[v] = "alone"
               PROVE  (/\ user[v].email = "erased" /\ user[v].name = "erased" /\ ~user[v].sso
                       /\ ~IsMember(v) /\ (item.owner = v => item.label = "erased" \/ item.by = "user"))'
    BY Zenon DEF ErasedIsAnonymous
  <2>1. v # "none"
    BY AccountAssumption
  <2>2. CASE v = u
    <3>1. seen.owned = (item.owner = u) /\ seen.rows = Len(members[u])
      BY <1>11, <1>12, <1>15, <2>2
    <3>2. members'[v] = <<>>
      BY <1>9, <1>14, <2>2, <3>1
    <3>3. item'.owner # v
      BY <1>4, <1>10, <2>1, <2>2, <3>1
    <3>4. user'[v] = p
      BY <1>13, <2>2
    <3> QED
      BY <1>6, <3>2, <3>3, <3>4 DEF IsMember
  <2>3. CASE v # u
    <3>1. erased[v] = "alone" /\ user'[v] = user[v] /\ members'[v] = members[v]
      BY <1>13, <1>14, <1>15, <2>3
    <3>2. /\ user[v].email = "erased" /\ user[v].name = "erased" /\ ~user[v].sso
          /\ ~IsMember(v) /\ (item.owner = v => item.label = "erased" \/ item.by = "user")
      BY <3>1 DEF AccountsInv, ErasedIsAnonymous
    <3>3. item'.owner = v => item'.label = "erased" \/ item'.by = "user"
      BY <1>4, <1>10, <2>1, <3>2
    <3> QED
      BY Zenon, <3>1, <3>2, <3>3 DEF IsMember
  <2> QED
    BY <2>2, <2>3
<1>22. LeftIsRevoked'
  BY <1>4, SameSessions DEF AccountsInv
<1>23. \A t \in Busy \ {s} : erased'[req[t].user] = "alone" => erased[req[t].user] = "alone"
  <2> SUFFICES ASSUME NEW t \in Busy \ {s}, erased'[req[t].user] = "alone"
               PROVE  erased[req[t].user] = "alone"
    OBVIOUS
  <2>1. req[t].user \in Users
    BY BusyType, RequestKinds DEF AccountsInv
  <2>2. req[s].overlap
    BY <1>1 DEF AccountsInv, OverlapIsKnown
  <2>3. req[t].user # u
    BY <1>12, <1>15, <2>2
  <2> QED
    BY <1>15, <2>1, <2>3
<1> QED
  BY <1>1, <1>17, <1>19, <1>20, <1>21, <1>22, <1>23, EndStep

-----------------------------------------------------------------------------
(* Requests of one step, and what time does *)

(* Someone signs in, or changes to this workspace.                         *)
LEMMA LoginStep ==
  ASSUME AccountsInv, NEW u \in Users, Login(u) \/ SwitchWorkspace(u)
  PROVE  AccountsInv'
<1>1. /\ Between /\ SessionsLeft # {} /\ OpenSession(u)
      /\ UNCHANGED <<people, mfa, revoked, left, item, elsewhere, erased>>
  BY Zenon DEF Login, SwitchWorkspace
<1>2. session' \in [Sessions -> Opened] /\ LeftIsRevoked'
  BY Zenon, <1>1, OpenStep
<1>3. TokensOK'
  BY <1>1, SameTokens, Parts DEF people
<1>4. events' \in 0 .. MaxEvents
  BY <1>1, EventType, Parts DEF Between
<1>5. RowsOK' /\ SetsOK'
  BY Zenon, <1>1, <1>2, <1>3, <1>4 DEF AccountsInv, RowsOK, SetsOK, people
<1> QED
  BY Zenon, <1>1, <1>2, <1>5, BetweenStep DEF people

(* Items are saved in bulk.                                                *)
LEMMA BulkStep ==
  ASSUME AccountsInv, NEW a \in Users, NEW u \in Users, BulkSaveItems(a, u)
  PROVE  AccountsInv'
<1> DEFINE new == [owner |-> u, label |-> "own", by |-> "user"]
<1>1. Between /\ item' = new /\ UNCHANGED <<people, signin, elsewhere, erased>>
  BY Zenon DEF BulkSaveItems
<1>2. new \in Items /\ new.by = "user"
  BY DEF Items, Names
<1> HIDE DEF new
<1>3. TokensOK'
  BY <1>1, SameTokens, Parts DEF people
<1>4. events' \in 0 .. MaxEvents
  BY <1>1, EventType, Parts DEF Between
<1>5. RowsOK' /\ SetsOK'
  BY Zenon, <1>1, <1>2, <1>3, <1>4 DEF AccountsInv, RowsOK, SetsOK, people, signin
<1>6. LeftIsRevoked'
  BY <1>1, SameSessions DEF AccountsInv
<1> QED
  BY Zenon, <1>1, <1>2, <1>5, <1>6, BetweenStep DEF people

(* A second factor is enrolled, confirmed or disabled.                     *)
LEMMA FactorStep ==
  ASSUME AccountsInv, NEW u \in Users, EnrollMfa(u) \/ ConfirmMfa(u) \/ DisableMfa(u)
  PROVE  AccountsInv'
<1>1. Between /\ UNCHANGED <<people, session, revoked, left, item, elsewhere, erased>>
  BY Zenon DEF EnrollMfa, ConfirmMfa, DisableMfa
<1>2. mfa' \in [Users -> Factors]
  <2> DEFINE new == [enabled |-> "begun", codes |-> {"c1", "c2"}]
             on == [mfa[u] EXCEPT !.enabled = "yes"]
  <2>1. mfa \in [Users -> Factors] /\ mfa[u] \in Factors
    BY Parts
  <2>2. new \in Factors /\ on \in Factors /\ NoMfa \in Factors
    BY <2>1 DEF Factors, Codes, NoMfa
  <2>3. \/ mfa' = [mfa EXCEPT ![u] = new] \/ mfa' = [mfa EXCEPT ![u] = on]
        \/ mfa' = [mfa EXCEPT ![u] = NoMfa]
    BY DEF EnrollMfa, ConfirmMfa, DisableMfa
  <2> HIDE DEF new, on
  <2> QED
    BY <2>1, <2>2, <2>3
<1>3. TokensOK'
  BY <1>1, SameTokens, Parts DEF people
<1>4. events' \in 0 .. MaxEvents
  BY <1>1, EventType, Parts DEF Between
<1>5. RowsOK' /\ SetsOK'
  BY Zenon, <1>1, <1>2, <1>3, <1>4 DEF AccountsInv, RowsOK, SetsOK, people
<1>6. LeftIsRevoked'
  BY Zenon, <1>1 DEF AccountsInv, LeftIsRevoked
<1> QED
  BY Zenon, <1>1, <1>5, <1>6, BetweenStep DEF people

(* A session is logged out; what is purged has expired.                    *)
LEMMA LogoutStep ==
  ASSUME AccountsInv, NEW n \in Sessions, Logout(n)
  PROVE  AccountsInv'
<1>1. /\ Between /\ session[n].state = "open"
      /\ revoked' = (revoked \ Purged) \union {n} /\ left' = left \union {n}
      /\ UNCHANGED <<people, mfa, session, item, elsewhere, erased>>
  BY Zenon DEF Logout, Usable
<1>2. revoked' \subseteq Sessions /\ left' \subseteq Sessions
  BY <1>1 DEF AccountsInv, SetsOK
<1>3. TokensOK'
  BY <1>1, SameTokens, Parts DEF people
<1>4. events' \in 0 .. MaxEvents
  BY <1>1, EventType, Parts DEF Between
<1>5. RowsOK' /\ SetsOK'
  BY Zenon, <1>1, <1>2, <1>3, <1>4 DEF AccountsInv, RowsOK, SetsOK, people
<1>6. LeftIsRevoked'
  <2> SUFFICES ASSUME NEW x \in left'
               PROVE  session'[x].state = "expired" \/ (session'[x].state = "open" /\ x \in revoked')
    BY Zenon DEF LeftIsRevoked
  <2>1. CASE x = n
    BY <1>1, <2>1
  <2>2. CASE x # n
    <3>1. session[x].state = "expired" \/ (session[x].state = "open" /\ x \in revoked)
      BY <1>1, <2>2 DEF AccountsInv, LeftIsRevoked
    <3> QED
      BY <1>1, <3>1 DEF Purged
  <2> QED
    BY <2>1, <2>2
<1> QED
  BY Zenon, <1>1, <1>5, <1>6, BetweenStep DEF people

(* Where no request begins, ends or takes note of another, what they have  *)
(* read stands if only a token has aged or a session has expired.          *)
LEMMA RequestsStay ==
  ASSUME AccountsInv, UNCHANGED <<user, members, mfa, item, req, erased>>,
         \A t \in Tokens : token[t].state # "used" => token'[t].state # "used"
  PROVE  ReqOK' /\ MembersExist' /\ OverlapIsKnown' /\ ReadsStand' /\ ErasedIsLeftAlone' /\ ErasedIsAnonymous'
<1>1. Busy' = Busy /\ ReqOK'
  BY Zenon DEF Busy, AccountsInv, ReqOK
<1>2. OverlapIsKnown'
  BY Zenon, <1>1 DEF AccountsInv, OverlapIsKnown
<1>3. ReadsStand'
  <2> SUFFICES ASSUME NEW x \in Busy, ~req[x].overlap
               PROVE  Stands(req[x].kind, req[x].actor, req[x].user, req[x].arg, req[x].seen)'
    BY Zenon, <1>1 DEF ReadsStand
  <2>1. Stands(req[x].kind, req[x].actor, req[x].user, req[x].arg, req[x].seen)
    BY Zenon DEF AccountsInv, ReadsStand
  <2>2. req[x].kind \in {"reset", "accept"} => req[x].arg \in Tokens
    BY BusyType, RequestKinds DEF AccountsInv, Uses, Asks
  <2>3. ASSUME NEW kind, NEW a, NEW u, NEW arg, NEW seen, Stands(kind, a, u, arg, seen),
               kind \in {"reset", "accept"} => arg \in Tokens
        PROVE  Stands(kind, a, u, arg, seen)'
    BY Zenon, <2>3, StandsStill
  <2>4. req' = req
    OBVIOUS
  <2> QED
    BY <2>1, <2>2, <2>3, <2>4 DEF Stands, AdminRows, IsMember
<1>4. ErasedIsLeftAlone'
  BY Zenon, <1>1 DEF AccountsInv, ErasedIsLeftAlone, Harmless
<1> QED
  BY <1>1, <1>2, <1>3, <1>4, SamePeople

(* A token ages: it is not used by that.                                   *)
LEMMA AgeStep ==
  ASSUME AccountsInv, NEW t \in Tokens, TokenAges(t)
  PROVE  AccountsInv'
<1> DEFINE new == [token[t] EXCEPT !.state = IF @ = "fresh" THEN "valid" ELSE "expired"]
<1>1. /\ token' = [token EXCEPT ![t] = new] /\ Event
      /\ UNCHANGED <<user, members, access, signin, item, elsewhere, req, erased>>
  BY DEF TokenAges
<1>2. token \in [Tokens -> Grants] /\ token[t] \in Grants
  BY Parts DEF TokensOK
<1>3. new \in Grants /\ new.state # "used" /\ new.user = token[t].user
  BY <1>2 DEF Grants, States
<1>4. token[t].user \in Users
  BY Parts DEF TokenAges, TokensOK
<1> HIDE DEF new
<1>5. /\ token' \in [Tokens -> Grants] /\ token'[t] = new
      /\ \A x \in Tokens \ {t} : token'[x] = token[x]
  BY <1>1, <1>2, <1>3
<1>6. TokensOK'
  <2>1. \A x \in Tokens : token'[x].state \in {"fresh", "valid"} => token'[x].user \in Users
    BY <1>3, <1>4, <1>5, Parts DEF TokensOK, Valid
  <2> QED
    BY <1>5, <2>1 DEF TokensOK, Valid
<1>7. events' \in 0 .. MaxEvents
  BY <1>1, EventType, Parts
<1>8. RowsOK' /\ SetsOK'
  BY Zenon, <1>1, <1>6, <1>7 DEF AccountsInv, RowsOK, SetsOK, signin
<1>9. \A x \in Tokens : token[x].state # "used" => token'[x].state # "used"
  BY <1>3, <1>5
<1>10. ReqOK' /\ MembersExist' /\ OverlapIsKnown' /\ ReadsStand' /\ ErasedIsLeftAlone' /\ ErasedIsAnonymous'
  BY <1>1, <1>9, RequestsStay DEF signin
<1>11. LeftIsRevoked'
  BY <1>1, SameSessions DEF AccountsInv
<1> QED
  BY Zenon, <1>8, <1>10, <1>11 DEF AccountsInv

(* A session expires.                                                      *)
LEMMA ExpireStep ==
  ASSUME AccountsInv, NEW n \in Sessions, SessionExpires(n)
  PROVE  AccountsInv'
<1> DEFINE new == [session[n] EXCEPT !.state = "expired"]
<1>1. /\ session' = [session EXCEPT ![n] = new] /\ Event
      /\ UNCHANGED <<people, mfa, revoked, left, item, elsewhere, req, erased>>
  BY DEF SessionExpires
<1>2. session \in [Sessions -> Opened] /\ session[n] \in Opened /\ left \subseteq Sessions
  BY Parts DEF SetsOK
<1>3. new \in Opened /\ new.state = "expired"
  BY <1>2 DEF Opened
<1> HIDE DEF new
<1>4. /\ session' \in [Sessions -> Opened] /\ session'[n] = new
      /\ \A x \in Sessions \ {n} : session'[x] = session[x]
  BY <1>1, <1>2, <1>3
<1>5. TokensOK'
  BY <1>1, SameTokens, Parts DEF people
<1>6. events' \in 0 .. MaxEvents
  BY <1>1, EventType, Parts
<1>7. RowsOK' /\ SetsOK'
  BY Zenon, <1>1, <1>4, <1>5, <1>6 DEF AccountsInv, RowsOK, SetsOK, people
<1>8. ReqOK' /\ MembersExist' /\ OverlapIsKnown' /\ ReadsStand' /\ ErasedIsLeftAlone' /\ ErasedIsAnonymous'
  BY <1>1, RequestsStay DEF people
<1>9. LeftIsRevoked'
  <2> SUFFICES ASSUME NEW x \in left'
               PROVE  session'[x].state = "expired" \/ (session'[x].state = "open" /\ x \in revoked')
    BY Zenon DEF LeftIsRevoked
  <2>1. session[x].state = "expired" \/ (session[x].state = "open" /\ x \in revoked)
    BY <1>1 DEF AccountsInv, LeftIsRevoked
  <2> QED
    BY <1>1, <1>2, <1>3, <1>4, <2>1
<1> QED
  BY Zenon, <1>7, <1>8, <1>9 DEF AccountsInv

-----------------------------------------------------------------------------
(* The invariant *)

(* It holds at first: nobody is erased and no request is in flight.        *)
LEMMA InitInv == Init => AccountsInv
<1> SUFFICES ASSUME Init
             PROVE  AccountsInv
  OBVIOUS
<1>1. PICK kind \in [Users -> {"absent", "invited", "Admin", "Member"}] :
    /\ user = [u \in Users |-> CASE kind[u] = "absent" -> NoUser
                                 [] kind[u] = "invited" -> Pending(u, "Member")
                                 [] OTHER -> Member(kind[u])]
    /\ members = [u \in Users |-> CASE kind[u] = "absent" -> <<>>
                                    [] kind[u] = "invited" -> <<"Member">>
                                    [] OTHER -> <<kind[u]>>]
    /\ token = [t \in Tokens |->
         IF t = Lowest(Tokens) /\ \E u \in Users : kind[u] = "invited"
           THEN [user |-> CHOOSE u \in Users : kind[u] = "invited", type |-> "invite", state |-> "fresh"]
           ELSE NoToken]
    /\ mfa = [u \in Users |-> IF kind[u] = "Member" THEN [enabled |-> "yes", codes |-> {"c1", "c2"}] ELSE NoMfa]
    /\ item \in {[owner |-> u, label |-> "own", by |-> "extraction"] : u \in {v \in Users : kind[v] = "Member"}}
            \union {[owner |-> "none", label |-> "none", by |-> "extraction"]}
  BY Zenon DEF Init
<1>2. /\ access = {} /\ revoked = {} /\ elsewhere = {}
      /\ session = [n \in Sessions |-> IF n = Lowest(Sessions) THEN [user |-> First, state |-> "open"] ELSE NoSession]
      /\ req = [s \in Slots |-> Idle]
      /\ erased = [u \in Users |-> "no"] /\ left = {} /\ events = 0
  BY Zenon DEF Init
<1>3. NoUser \in People
  BY DEF NoUser, People, Names
<1>4. ASSUME NEW u, NEW role \in AllRoles
      PROVE  /\ Pending(u, role) \in People /\ Member(role) \in People
             /\ Pending(u, role) # NoUser /\ Member(role) # NoUser
  <2>1. Pending(u, role) \in People /\ Pending(u, role) # NoUser
    BY DEF Pending, People, Names, NoUser
  <2>2. Member(role) \in People /\ Member(role) # NoUser
    BY DEF Member, Pending, People, Names, NoUser
  <2> QED
    BY <2>1, <2>2
<1>5. ASSUME NEW u \in Users
      PROVE  /\ user[u] \in People
             /\ members[u] \in Seq(AllRoles) /\ Len(members[u]) <= 2 /\ (members[u] # <<>> => user[u] # NoUser)
  <2>1. CASE kind[u] = "absent"
    <3>1. user[u] = NoUser /\ members[u] = <<>>
      BY <1>1, <2>1
    <3> QED
      BY <1>3, <3>1
  <2>2. CASE kind[u] = "invited"
    <3>1. user[u] = Pending(u, "Member") /\ members[u] = <<"Member">> /\ "Member" \in AllRoles
      BY <1>1, <2>2 DEF AllRoles
    <3> QED
      BY <1>3, <1>4, <3>1
  <2>3. CASE kind[u] \in {"Admin", "Member"}
    <3>1. user[u] = Member(kind[u]) /\ members[u] = <<kind[u]>> /\ kind[u] \in AllRoles
      BY <1>1, <2>3 DEF AllRoles
    <3> QED
      BY <1>3, <1>4, <3>1
  <2> QED
    BY <2>1, <2>2, <2>3
<1>6. TokensOK
  <2> DEFINE who == CHOOSE u \in Users : kind[u] = "invited"
             new == [user |-> who, type |-> "invite", state |-> "fresh"]
  <2>1. (\E u \in Users : kind[u] = "invited") => who \in Users
    OBVIOUS
  <2>2. (\E u \in Users : kind[u] = "invited") => new \in Grants /\ new.user \in Users
    BY <2>1 DEF Grants, States
  <2>3. NoToken \in Grants /\ NoToken.state = "none"
    BY DEF NoToken, Grants, States
  <2>4. token = [t \in Tokens |-> IF t = Lowest(Tokens) /\ \E u \in Users : kind[u] = "invited" THEN new ELSE NoToken]
    BY Zenon, <1>1
  <2> HIDE DEF who, new
  <2>5. \A t \in Tokens : token[t] \in Grants /\ (token[t] = NoToken \/ token[t].user \in Users)
    BY <2>2, <2>3, <2>4
  <2>6. token \in [Tokens -> Grants]
    BY <2>4, <2>5
  <2> QED
    BY <2>3, <2>5, <2>6 DEF TokensOK, Valid
<1>7. RowsOK
  <2>1. user \in [Users -> People]
    BY <1>1, <1>5
  <2>2. members \in [Users -> Seq(AllRoles)] /\ \A u \in Users : Len(members[u]) <= 2
    BY <1>1, <1>5
  <2>3. mfa \in [Users -> Factors]
    <3> DEFINE on == [enabled |-> "yes", codes |-> {"c1", "c2"}]
    <3>1. on \in Factors /\ NoMfa \in Factors
      BY DEF Factors, Codes, NoMfa
    <3>2. mfa = [u \in Users |-> IF kind[u] = "Member" THEN on ELSE NoMfa]
      BY Zenon, <1>1
    <3> HIDE DEF on
    <3> QED
      BY <3>1, <3>2
  <2>4. item \in Items
    BY <1>1 DEF Items, Names
  <2>5. session \in [Sessions -> Opened]
    <3> DEFINE new == [user |-> First, state |-> "open"]
    <3>1. new \in Opened /\ NoSession \in Opened
      BY AccountAssumption DEF Opened, NoSession
    <3>2. session = [n \in Sessions |-> IF n = Lowest(Sessions) THEN new ELSE NoSession]
      BY Zenon, <1>2
    <3> HIDE DEF new
    <3> QED
      BY <3>1, <3>2
  <2>6. erased \in [Users -> {"no", "alone", "raced"}]
    BY <1>2
  <2> QED
    BY Zenon, <1>6, <2>1, <2>2, <2>3, <2>4, <2>5, <2>6 DEF RowsOK
<1>8. SetsOK
  BY <1>2, AccountAssumption DEF SetsOK
<1>9. ReqOK /\ Busy = {}
  BY <1>2 DEF ReqOK, Busy
<1>10. MembersExist
  BY <1>5 DEF MembersExist, IsMember, Exists
<1>11. OverlapIsKnown /\ ReadsStand /\ ErasedIsLeftAlone
  BY <1>9 DEF OverlapIsKnown, ReadsStand, ErasedIsLeftAlone
<1>12. ErasedIsAnonymous
  BY <1>2 DEF ErasedIsAnonymous
<1>13. LeftIsRevoked
  BY <1>2 DEF LeftIsRevoked
<1> QED
  BY Zenon, <1>7, <1>8, <1>9, <1>10, <1>11, <1>12, <1>13 DEF AccountsInv

(* A step that changes nothing.                                            *)
LEMMA StutterStep ==
  ASSUME AccountsInv, UNCHANGED vars
  PROVE  AccountsInv'
<1>1. UNCHANGED <<user, members, mfa, item, req, erased, token, access, elsewhere, session, revoked, left, events>>
  BY DEF vars
<1>2. TokensOK'
  BY <1>1, SameTokens, Parts
<1>3. RowsOK' /\ SetsOK'
  BY Zenon, <1>1, <1>2 DEF AccountsInv, RowsOK, SetsOK
<1>4. ReqOK' /\ MembersExist' /\ OverlapIsKnown' /\ ReadsStand' /\ ErasedIsLeftAlone' /\ ErasedIsAnonymous'
  BY <1>1, RequestsStay
<1>5. LeftIsRevoked'
  BY Zenon, <1>1 DEF AccountsInv, LeftIsRevoked
<1> QED
  BY Zenon, <1>3, <1>4, <1>5 DEF AccountsInv

(* Every step keeps the invariant.                                         *)
LEMMA NextStep ==
  ASSUME AccountsInv, Next
  PROVE  AccountsInv'
<1> HIDE DEF AccountsInv
<1>1. ASSUME NEW s \in Slots, Requests(s)
      PROVE  AccountsInv'
  <2>1. ASSUME NEW a \in Users, NEW u \in Users, NEW role \in Roles, UpdateMemberRole(s, a, u, role)
        PROVE  AccountsInv'
    BY <2>1, RoleStep
  <2>2. ASSUME NEW a \in Users, NEW u \in Users, NEW role \in Roles, NEW project \in BOOLEAN,
               InviteMember(s, a, u, role, project) \/ CreateWorkspaceUser(s, a, u, role, project)
        PROVE  AccountsInv'
    BY <2>2, InviteStep, CreateStep
  <2>3. ASSUME NEW a \in Users, NEW u \in Users, RemoveMember(s, a, u) \/ Erase(s, a, u)
        PROVE  AccountsInv'
    BY <2>3, RemoveStep, EraseStep
  <2>4. ASSUME NEW u \in Users,
               ForgotPassword(s, u) \/ OidcCallback(s, u) \/ OidcUnknown(s, u) \/ ResolveOwner(s, u)
        PROVE  AccountsInv'
    BY <2>4, ForgotStep, OidcStep, OidcUnknownStep, ResolveStep
  <2>5. ASSUME NEW u \in Users, NEW code \in {"c1", "c2", "totp"}, VerifyMfa(s, u, code)
        PROVE  AccountsInv'
    BY <2>5, VerifyStep
  <2>6. ASSUME NEW t \in Tokens, ResetPassword(s, t) \/ AcceptInvite(s, t)
        PROVE  AccountsInv'
    BY <2>6, UseStep
  <2>7. ASSUME NEW a \in Users, NEW u \in Users, NEW given \in SUBSET {"owner", "label"},
               UpdateItem(s, a, u, given)
        PROVE  AccountsInv'
    BY <2>7, UpdateStep DEF Columns
  <2> QED
    BY Zenon, <1>1, <2>1, <2>2, <2>3, <2>4, <2>5, <2>6, <2>7 DEF Requests
<1>2. ASSUME NEW s \in Slots, Commits(s)
      PROVE  AccountsInv'
  <2>1. CASE CommitInvite(s) \/ CommitUser(s) \/ CommitRole(s) \/ CommitRemoval(s)
    BY <2>1, CommitInviteStep, CommitUserStep, CommitRoleStep, CommitRemovalStep
  <2>2. CASE CommitForgot(s) \/ CommitReset(s) \/ CommitAccept(s)
    BY <2>2, CommitForgotStep, CommitUseStep
  <2>3. CASE CommitVerify(s) \/ CommitOidc(s) \/ ProvisionUser(s)
    BY <2>3, CommitVerifyStep, CommitOidcStep, ProvisionStep
  <2>4. CASE StoreItem(s) \/ CommitUpdate(s) \/ CommitErasure(s)
    BY <2>4, StoreItemStep, CommitUpdateStep, CommitErasureStep
  <2> QED
    BY Zenon, <1>2, <2>1, <2>2, <2>3, <2>4 DEF Commits
<1>3. ASSUME NEW s \in Slots, Rollback(s)
      PROVE  AccountsInv'
  BY <1>3, RollbackStep
<1>4. ASSUME NEW u \in Users, Login(u) \/ SwitchWorkspace(u) \/ EnrollMfa(u) \/ ConfirmMfa(u) \/ DisableMfa(u)
      PROVE  AccountsInv'
  BY <1>4, LoginStep, FactorStep
<1>5. ASSUME NEW n \in Sessions, Logout(n) \/ SessionExpires(n)
      PROVE  AccountsInv'
  BY <1>5, LogoutStep, ExpireStep
<1>6. ASSUME NEW t \in Tokens, TokenAges(t)
      PROVE  AccountsInv'
  BY <1>6, AgeStep
<1>7. ASSUME NEW a \in Users, NEW u \in Users, BulkSaveItems(a, u)
      PROVE  AccountsInv'
  BY <1>7, BulkStep
<1> QED
  BY Zenon, <1>1, <1>2, <1>3, <1>4, <1>5, <1>6, <1>7 DEF Next

(* Every step and every stutter keeps it.                                  *)
LEMMA BoxStep == AccountsInv /\ [Next]_vars => AccountsInv'
BY NextStep, StutterStep

(* It always holds.                                                        *)
THEOREM AccountsInvariant == Spec => []AccountsInv
BY InitInv, BoxStep, PTL DEF Spec

(* Users, rows, tokens, second factors and sessions have their types, and  *)
(* a request holds what its kind was given and has read.                   *)
THEOREM TypeCorrect == Spec => [](TypeOK /\ ReqOK)
<1>1. AccountsInv => TypeOK /\ ReqOK
  <2> SUFFICES ASSUME AccountsInv
               PROVE  TypeOK /\ ReqOK
    OBVIOUS
  <2>1. \A u \in Users : user[u].email \in {"none", "own", "erased"} /\ user[u].active \in BOOLEAN
    BY Parts DEF People, Names
  <2>2. \A u \in Users : Len(members[u]) \in 0 .. 2
    BY Zenon, MembersType, Parts
  <2>3. \A u \in Users : mfa[u].codes \subseteq {"c1", "c2"}
    BY Parts DEF Factors, Codes
  <2>4. \A t \in Tokens : token[t].state \in {"none", "fresh", "valid", "used", "expired"}
    BY Parts DEF TokensOK, Grants, States
  <2> QED
    BY Zenon, <2>1, <2>2, <2>3, <2>4 DEF AccountsInv, SetsOK, TypeOK
<1> QED
  BY <1>1, AccountsInvariant, PTL

(* Someone who was erased while no other request was in flight is found by *)
(* no name, address or subject, has no row in the workspace and owns no    *)
(* item in that name, however many requests follow, unless one of them     *)
(* gives an item that owner or a name anew.                                *)
THEOREM ErasedStayAnonymous == Spec => []ErasedIsAnonymous
<1>1. AccountsInv => ErasedIsAnonymous
  BY Zenon DEF AccountsInv
<1> QED
  BY <1>1, AccountsInvariant, PTL

(* A session that was logged out is not accepted again: what is purged     *)
(* from the list of revoked tokens has expired.                            *)
THEOREM LoggedOutStay == Spec => []LoggedOutStaysOut
<1>1. AccountsInv => LoggedOutStaysOut
  BY DEF AccountsInv, LeftIsRevoked, LoggedOutStaysOut, Usable
<1> QED
  BY <1>1, AccountsInvariant, PTL

(* What a step must keep for a secret to be of one use.                    *)
UsedOnce ==
  \A s \in Busy : ~req[s].overlap =>
    /\ CommitReset(s) \/ CommitAccept(s) =>
         token[req[s].arg].state # "used" /\ token'[req[s].arg].state = "used"
    /\ CommitVerify(s) /\ req[s].arg # "totp" =>
         req[s].arg \in mfa[req[s].user].codes \ mfa'[req[s].user].codes

(* The token or the code that a request has read is not used before it     *)
(* commits, and is used then.                                              *)
LEMMA UsedOnceStep ==
  ASSUME AccountsInv
  PROVE  UsedOnce
<1> SUFFICES ASSUME NEW s \in Busy, ~req[s].overlap
             PROVE  /\ CommitReset(s) \/ CommitAccept(s) =>
                         token[req[s].arg].state # "used" /\ token'[req[s].arg].state = "used"
                    /\ CommitVerify(s) /\ req[s].arg # "totp" =>
                         req[s].arg \in mfa[req[s].user].codes \ mfa'[req[s].user].codes
  BY Zenon DEF UsedOnce
<1>1. Stands(req[s].kind, req[s].actor, req[s].user, req[s].arg, req[s].seen)
  BY Zenon DEF AccountsInv, ReadsStand
<1>2. req[s] \in InFlight /\ req[s].user \in Users
  BY BusyType, RequestKinds DEF AccountsInv
<1>3. ASSUME CommitReset(s) \/ CommitAccept(s)
      PROVE  token[req[s].arg].state # "used" /\ token'[req[s].arg].state = "used"
  <2>1. req[s].kind \in {"reset", "accept"} /\ token' = Marked(req[s].arg)
    BY <1>3 DEF CommitReset, CommitAccept, Due
  <2>2. req[s].arg \in Tokens
    BY <1>2, <2>1, RequestKinds DEF Uses, Asks
  <2>3. token'[req[s].arg].state = "used"
    BY <2>1, <2>2, MarkType, Parts
  <2> QED
    BY <1>1, <2>1, <2>3 DEF Stands
<1>4. ASSUME CommitVerify(s), req[s].arg # "totp"
      PROVE  req[s].arg \in mfa[req[s].user].codes \ mfa'[req[s].user].codes
  <2> DEFINE u == req[s].user
             arg == req[s].arg
             seen == req[s].seen
  <2>1. req[s].kind = "verify" /\ mfa' = [mfa EXCEPT ![u].codes = Remaining(seen, arg)]
    BY <1>4 DEF CommitVerify, Due
  <2>2. mfa[u].codes = seen /\ arg \in seen
    BY <1>1, <1>4, <2>1 DEF Stands
  <2>3. mfa \in [Users -> Factors] /\ u \in Users
    BY <1>2, Parts
  <2> HIDE DEF u, arg, seen
  <2>4. mfa'[u].codes = seen \ {arg}
    BY <2>1, <2>3 DEF Remaining, Factors
  <2>5. arg \in mfa[u].codes \ mfa'[u].codes
    BY <2>2, <2>4
  <2> QED
    BY <2>5 DEF u, arg
<1> QED
  BY <1>3, <1>4

(* A token of an e-mail and a backup code are used once, unless requests   *)
(* that use them overlap.                                                  *)
THEOREM SecretsOnce == Spec => SecretsWorkOnce
<1>1. AccountsInv => UsedOnce
  BY UsedOnceStep
<1>2. UsedOnce => (\A s \in Busy : ~req[s].overlap =>
       /\ CommitReset(s) \/ CommitAccept(s) =>
            token[req[s].arg].state # "used" /\ token'[req[s].arg].state = "used"
       /\ CommitVerify(s) /\ req[s].arg # "totp" =>
            req[s].arg \in mfa[req[s].user].codes \ mfa'[req[s].user].codes)
  BY Zenon DEF UsedOnce
<1> QED
  BY <1>1, <1>2, AccountsInvariant, PTL DEF SecretsWorkOnce

-----------------------------------------------------------------------------
(* Rows in the workspace *)

(* The commits that change the rows of someone.                            *)
RowCommit(s) == CommitInvite(s) \/ CommitUser(s) \/ CommitRole(s) \/ CommitRemoval(s) \/ CommitErasure(s)

(* They end a request, and change the rows of the one it is about.         *)
LEMMA OneChanges ==
  ASSUME AccountsInv, NEW s \in Slots, RowCommit(s)
  PROVE  /\ s \in Busy /\ req[s] # Idle /\ req'[s] = Idle /\ req[s] \in InFlight
         /\ req[s].user \in Users /\ req[s].actor \in Users
         /\ \A v \in Users \ {req[s].user} : members'[v] = members[v]
<1>1. PICK k \in {"invite", "create", "role", "remove", "erase"} : Due(s, k)
  BY DEF RowCommit, CommitInvite, CommitUser, CommitRole, CommitRemoval, CommitErasure
<1>2. /\ s \in Busy /\ End(s) /\ req[s] \in InFlight
      /\ req[s].user \in Users /\ req[s].actor \in Users
  BY <1>1, DueForm
<1>3. req[s] # Idle /\ req'[s] = Idle
  <2>1. req \in [Slots -> {Idle} \union InFlight]
    BY Zenon DEF AccountsInv, ReqOK
  <2> QED
    BY <1>2, <2>1 DEF Busy, End
<1>4. members \in [Users -> Seq(AllRoles)]
  BY Zenon, Parts
<1>5. \E q : members' = [members EXCEPT ![req[s].user] = q]
  BY Zenon DEF RowCommit, CommitInvite, CommitUser, CommitRole, CommitRemoval, CommitErasure
<1>6. \A v \in Users \ {req[s].user} : members'[v] = members[v]
  BY <1>4, <1>5
<1> QED
  BY <1>2, <1>3, <1>6

(* No other step changes rows.                                             *)
LEMMA RowsChange ==
  ASSUME [Next]_vars, members' # members
  PROVE  \E s \in Slots : RowCommit(s)
<1>1. ~UNCHANGED vars
  BY DEF vars
<1>2. ASSUME NEW s \in Slots, NEW kind, NEW a, NEW u, NEW arg, NEW seen, Begin(s, kind, a, u, arg, seen)
      PROVE  members' = members
  BY Zenon, <1>2 DEF Begin, people
<1>3. ASSUME NEW s \in Slots, Requests(s)
      PROVE  FALSE
  <2>1. \E kind, a, u, arg, seen : Begin(s, kind, a, u, arg, seen)
    BY Zenon, <1>3
       DEF Requests, UpdateMemberRole, InviteMember, CreateWorkspaceUser, RemoveMember, Erase,
           ForgotPassword, OidcCallback, OidcUnknown, ResolveOwner, UpdateItem, VerifyMfa, ResetPassword, AcceptInvite
  <2> QED
    BY Zenon, <1>2, <2>1
<1>4. ASSUME NEW s \in Slots, Commits(s)
      PROVE  RowCommit(s)
  <2>1. ~(CommitForgot(s) \/ CommitReset(s) \/ CommitAccept(s) \/ CommitVerify(s) \/ CommitOidc(s)
          \/ ProvisionUser(s) \/ StoreItem(s) \/ CommitUpdate(s))
    BY Zenon DEF CommitForgot, CommitReset, CommitAccept, CommitVerify, CommitOidc, ProvisionUser, StoreItem,
                 CommitUpdate, people
  <2> QED
    BY Zenon, <1>4, <2>1 DEF Commits, RowCommit
<1>5. \A s \in Slots : ~Rollback(s)
  BY Zenon DEF Rollback, people
<1>6. \A u \in Users : ~(Login(u) \/ SwitchWorkspace(u) \/ EnrollMfa(u) \/ ConfirmMfa(u) \/ DisableMfa(u))
  BY Zenon DEF Login, SwitchWorkspace, EnrollMfa, ConfirmMfa, DisableMfa, people
<1>7. \A n \in Sessions : ~(Logout(n) \/ SessionExpires(n))
  BY Zenon DEF Logout, SessionExpires, people
<1>8. \A t \in Tokens : ~TokenAges(t)
  BY Zenon DEF TokenAges
<1>9. \A a, u \in Users : ~BulkSaveItems(a, u)
  BY Zenon DEF BulkSaveItems, people
<1> QED
  BY Zenon, <1>1, <1>3, <1>4, <1>5, <1>6, <1>7, <1>8, <1>9 DEF Next

(* The rows that each of them leaves.                                      *)
LEMMA RowsLeft ==
  ASSUME AccountsInv, NEW s \in Slots, RowCommit(s)
  PROVE  LET u == req[s].user IN
         /\ CommitInvite(s) => /\ Len(members'[u]) = Len(members[u]) + 1
                               /\ \A n \in DOMAIN members[u] : n \in DOMAIN members'[u] /\ members'[u][n] = members[u][n]
         /\ CommitUser(s) => members[u] = <<>> /\ Len(members'[u]) = 1
         /\ CommitRole(s) => /\ Len(members'[u]) = Len(members[u])
                             /\ 1 \in DOMAIN members'[u] /\ members'[u][1] = req[s].arg
         /\ CommitRemoval(s) \/ CommitErasure(s) => Len(members'[u]) <= Len(members[u])
<1> DEFINE u == req[s].user
           old == members[u]
           new == members'[u]
<1>1. u \in Users /\ req[s] \in InFlight
  BY OneChanges
<1>2. old \in Seq(AllRoles) /\ members \in [Users -> Seq(AllRoles)] /\ Len(old) \in Nat
  BY <1>1, Parts, LenProperties
<1>3. CASE CommitInvite(s)
  <2>1. new = Append(old, req[s].arg.role) /\ req[s].kind = "invite"
    BY <1>1, <1>2, <1>3 DEF CommitInvite, Due
  <2>2. req[s].arg.role \in AllRoles
    BY <1>1, <2>1, RequestKinds, AccountAssumption DEF Invites, Asks, Given, AllRoles
  <2> HIDE DEF old, new
  <2>3. /\ Len(new) = Len(old) + 1
        /\ \A n \in DOMAIN old : n \in DOMAIN new /\ new[n] = old[n]
    BY <1>2, <2>1, <2>2
  <2>4. ~CommitUser(s) /\ ~CommitRole(s) /\ ~CommitRemoval(s) /\ ~CommitErasure(s)
    BY <2>1 DEF CommitUser, CommitRole, CommitRemoval, CommitErasure, Due
  <2> QED
    BY Zenon, <2>3, <2>4 DEF old, new, u
<1>4. CASE CommitUser(s)
  <2>1. req[s].kind = "create" /\ ~Exists(u) /\ new = <<req[s].arg.role>>
    BY <1>1, <1>2, <1>4 DEF CommitUser, Due
  <2>2. old = <<>> /\ Len(new) = 1
    BY <1>1, <2>1 DEF AccountsInv, MembersExist, IsMember
  <2>3. ~CommitInvite(s) /\ ~CommitRole(s) /\ ~CommitRemoval(s) /\ ~CommitErasure(s)
    BY <2>1 DEF CommitInvite, CommitRole, CommitRemoval, CommitErasure, Due
  <2> HIDE DEF old, new
  <2> QED
    BY Zenon, <2>2, <2>3 DEF old, new, u
<1>5. CASE CommitRole(s)
  <2>1. req[s].kind = "role" /\ old # <<>> /\ new = <<req[s].arg>> \o Tail(old)
    BY <1>1, <1>2, <1>5 DEF CommitRole, Due, IsMember
  <2>2. req[s].arg \in AllRoles
    BY <1>1, <2>1, RequestKinds, AccountAssumption DEF Changes, Asks, AllRoles
  <2> HIDE DEF old, new
  <2>3. new \in Seq(AllRoles) /\ Len(new) = Len(old) /\ new[1] = req[s].arg
    BY <1>2, <2>1, <2>2, NewHead
  <2>4. 1 \in DOMAIN new
    <3>1. Len(old) # 0
      BY <1>2, <2>1, EmptySeq
    <3>2. DOMAIN new = 1 .. Len(new)
      BY <2>3, LenProperties
    <3> QED
      BY <1>2, <2>3, <3>1, <3>2
  <2>5. ~CommitInvite(s) /\ ~CommitUser(s) /\ ~CommitRemoval(s) /\ ~CommitErasure(s)
    BY <2>1 DEF CommitInvite, CommitUser, CommitRemoval, CommitErasure, Due
  <2> QED
    BY Zenon, <2>3, <2>4, <2>5 DEF old, new, u
<1>6. CASE CommitRemoval(s)
  <2>1. req[s].kind = "remove" /\ new = IF old = <<>> THEN <<>> ELSE Tail(old)
    BY <1>1, <1>2, <1>6 DEF CommitRemoval, Due
  <2> HIDE DEF old, new
  <2>2. Len(new) <= Len(old)
    <3>1. CASE old = <<>>
      BY <2>1, <3>1
    <3>2. CASE old # <<>>
      <4>1. Len(Tail(old)) = Len(old) - 1
        BY <1>2, <3>2, HeadTailProperties
      <4>2. Len(new) = Len(old) - 1
        BY Zenon, <2>1, <3>2, <4>1
      <4> QED
        BY <1>2, <4>2
    <3> QED
      BY <3>1, <3>2
  <2>3. ~CommitInvite(s) /\ ~CommitUser(s) /\ ~CommitRole(s) /\ ~CommitErasure(s)
    BY <2>1 DEF CommitInvite, CommitUser, CommitRole, CommitErasure, Due
  <2> QED
    BY Zenon, <2>2, <2>3 DEF old, new, u
<1>7. CASE CommitErasure(s)
  <2>1. req[s].kind = "erase" /\ new = SubSeq(old, req[s].seen.rows + 1, Len(old))
    BY <1>1, <1>2, <1>7 DEF CommitErasure, Due
  <2>2. req[s].seen.rows \in Nat
    BY <1>1, <2>1, RequestKinds DEF Erasures, Asks
  <2>3. Len(old) <= 2
    BY Zenon, <1>1, Parts
  <2> HIDE DEF old, new
  <2>4. Len(new) <= Len(old)
    BY Zenon, <1>2, <2>1, <2>2, <2>3, RowsAfter
  <2>5. ~CommitInvite(s) /\ ~CommitUser(s) /\ ~CommitRole(s) /\ ~CommitRemoval(s)
    BY <2>1 DEF CommitInvite, CommitUser, CommitRole, CommitRemoval, Due
  <2> QED
    BY Zenon, <2>4, <2>5 DEF old, new, u
<1> QED
  BY Zenon, <1>3, <1>4, <1>5, <1>6, <1>7 DEF RowCommit

(* One role more than one user has: somebody else has it too.              *)
LEMMA AnotherAdmin ==
  ASSUME AccountsInv, NEW u \in Users, Len(members[u]) = 1, Cardinality(AdminRows) > 1
  PROVE  \E v \in Users \ {u} : v \in Admins
<1>1. \E x \in AdminRows : x # <<u, 1>>
  <2> SUFFICES ASSUME AdminRows \subseteq {<<u, 1>>}
               PROVE  FALSE
    OBVIOUS
  <2>1. IsFiniteSet({<<u, 1>>}) /\ Cardinality({<<u, 1>>}) = 1
    BY Zenon, FS_Singleton
  <2> DEFINE one == {<<u, 1>>}
             rows == AdminRows
  <2>2. rows \in SUBSET one
    OBVIOUS
  <2>3. IsFiniteSet(one) /\ Cardinality(one) = 1
    BY Zenon, <2>1
  <2> HIDE DEF one, rows
  <2>4. IsFiniteSet(rows) /\ Cardinality(rows) <= Cardinality(one)
    BY Zenon, <2>2, <2>3, FS_Subset
  <2>5. Cardinality(rows) \in Nat
    BY <2>4, FS_CardinalityType
  <2>6. Cardinality(rows) > 1
    BY Zenon DEF rows
  <2> QED
    BY <2>3, <2>4, <2>5, <2>6
<1>2. PICK x \in AdminRows : x # <<u, 1>>
  BY <1>1
<1>3. /\ x[1] \in Users /\ x[2] \in DOMAIN members[x[1]] /\ members[x[1]][x[2]] = "Admin"
      /\ x = <<x[1], x[2]>>
  BY <1>2 DEF AdminRows
<1>4. x[1] # u
  <2>1. members[u] \in Seq(AllRoles)
    BY Parts
  <2>2. DOMAIN members[u] = 1 .. Len(members[u])
    BY <2>1, LenProperties
  <2>3. DOMAIN members[u] = {1}
    BY <2>2
  <2> QED
    BY <1>2, <1>3, <2>3
<1> QED
  BY <1>3, <1>4 DEF Admins

(* An administrator who takes the last role away does so while another     *)
(* request runs, or erases someone, or is not one of the administrators.   *)
LEMMA AdminStep ==
  ASSUME AccountsInv, [Next]_vars, Admins # {}, Admins' = {}
  PROVE  \E s \in Slots : req[s] # Idle /\ req'[s] = Idle /\
           (req[s].kind = "erase" \/ req[s].overlap \/ req[s].actor \notin Admins)
<1>1. members' # members
  BY DEF Admins
<1>2. PICK s \in Slots : RowCommit(s)
  BY <1>1, RowsChange
<1> DEFINE u == req[s].user
<1>3. /\ s \in Busy /\ req[s] # Idle /\ req'[s] = Idle /\ req[s] \in InFlight
      /\ u \in Users /\ req[s].actor \in Users
      /\ \A v \in Users \ {u} : members'[v] = members[v]
  BY <1>2, OneChanges
<1>4. \A v \in Users \ {u} : v \notin Admins
  BY <1>3 DEF Admins
<1>5. u \in Admins
  BY <1>4 DEF Admins
<1>6. PICK n \in DOMAIN members[u] : members[u][n] = "Admin"
  BY <1>5 DEF Admins
<1>7. \A m \in DOMAIN members'[u] : members'[u][m] # "Admin"
  BY <1>3 DEF Admins
<1> SUFFICES ASSUME req[s].kind # "erase", ~req[s].overlap, req[s].actor \in Admins
             PROVE  FALSE
  BY <1>3
<1>8. req[s].actor = u
  BY <1>3, <1>4
<1>9. Stands(req[s].kind, u, u, req[s].arg, req[s].seen)
  BY <1>3, <1>8 DEF AccountsInv, ReadsStand
<1>10. members[u] # <<>> /\ members[u] \in Seq(AllRoles)
  BY <1>3, <1>6, Parts
<1> HIDE DEF u
<1>11. ~(Len(members[u]) = 1 /\ Cardinality(AdminRows) > 1)
  BY <1>3, <1>4, AnotherAdmin
<1>12. CASE CommitInvite(s)
  BY <1>2, <1>6, <1>7, <1>12, RowsLeft DEF u
<1>13. CASE CommitUser(s)
  BY <1>2, <1>10, <1>13, RowsLeft DEF u
<1>14. CASE CommitRole(s)
  <2>1. req[s].kind = "role"
    BY <1>14 DEF CommitRole, Due
  <2>2. req[s].arg # "Admin"
    BY <1>2, <1>7, <1>14, RowsLeft DEF u
  <2> QED
    BY <1>9, <1>11, <2>1, <2>2 DEF Stands
<1>15. CASE CommitRemoval(s)
  <2>1. req[s].kind = "remove"
    BY <1>15 DEF CommitRemoval, Due
  <2>2. Len(members[u]) = 1 /\ (members[u][1] = "Admin" => Cardinality(AdminRows) > 1)
    BY <1>9, <2>1 DEF Stands
  <2>3. n = 1
    <3>1. DOMAIN members[u] = 1 .. Len(members[u])
      BY <1>10, LenProperties
    <3> QED
      BY <1>6, <2>2, <3>1
  <2> QED
    BY <1>6, <1>11, <2>2, <2>3
<1>16. CASE CommitErasure(s)
  BY <1>16 DEF CommitErasure, Due
<1> QED
  BY <1>2, <1>12, <1>13, <1>14, <1>15, <1>16 DEF RowCommit

(* A workspace loses its last administrator only by an erasure, by         *)
(* requests that overlap, or by someone who is not an administrator there: *)
(* requests one after another check the count that they rely on.           *)
THEOREM AdminStays == Spec => KeepsAnAdmin
<1>1. AccountsInv /\ [Next]_vars =>
        (Admins # {} /\ Admins' = {} =>
           \E s \in Slots : req[s] # Idle /\ req'[s] = Idle /\
             (req[s].kind = "erase" \/ req[s].overlap \/ req[s].actor \notin Admins))
  BY Zenon, AdminStep
<1> QED
  BY <1>1, AccountsInvariant, PTL DEF Spec, KeepsAnAdmin

(* Who gets a second row is invited by a request that did not see the      *)
(* first one, which another request has written meanwhile.                 *)
LEMMA SecondRowStep ==
  ASSUME AccountsInv, [Next]_vars, NEW u \in Users, Len(members[u]) = 1, Len(members'[u]) = 2
  PROVE  \E s \in Slots : req[s] # Idle /\ req[s].overlap
<1>1. members' # members
  OBVIOUS
<1>2. PICK s \in Slots : RowCommit(s)
  BY <1>1, RowsChange
<1>3. /\ s \in Busy /\ req[s] # Idle /\ req[s] \in InFlight
      /\ \A v \in Users \ {req[s].user} : members'[v] = members[v]
  BY <1>2, OneChanges
<1>4. req[s].user = u
  BY <1>3
<1>5. CASE CommitInvite(s)
  <2>1. req[s].kind = "invite"
    BY <1>5 DEF CommitInvite, Due
  <2>2. IsMember(u)
    BY DEF IsMember
  <2>3. req[s].overlap
    BY <1>3, <1>4, <2>1, <2>2 DEF AccountsInv, ReadsStand, Stands
  <2> QED
    BY <1>3, <2>3
<1>6. CASE CommitUser(s) \/ CommitRole(s) \/ CommitRemoval(s) \/ CommitErasure(s)
  <2>1. \/ Len(members'[u]) = 1 \/ Len(members'[u]) = Len(members[u])
        \/ Len(members'[u]) <= Len(members[u])
    BY <1>2, <1>4, <1>6, RowsLeft
  <2> QED
    BY <2>1
<1> QED
  BY <1>2, <1>5, <1>6 DEF RowCommit

(* Nobody gets a second row in a workspace, which would lock them out of   *)
(* it, unless requests overlap.                                            *)
THEOREM SecondRows == Spec => SecondRowNeedsOverlap
<1>1. AccountsInv /\ [Next]_vars =>
        \A u \in Users : Len(members[u]) = 1 /\ Len(members'[u]) = 2 =>
          \E s \in Slots : req[s] # Idle /\ req[s].overlap
  BY Zenon, SecondRowStep
<1> QED
  BY <1>1, AccountsInvariant, PTL DEF Spec, SecondRowNeedsOverlap
=============================================================================
