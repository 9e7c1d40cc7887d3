------------------------------ MODULE Accounts ------------------------------
(***************************************************************************)
(* Users, memberships, invitations, sessions and erasure in one tenant.    *)
(*                                                                         *)
(* A request reads in one step and writes in another, that of its commit;  *)
(* requests overlap.  An update touches only the columns that it changes,  *)
(* of rows found by the first step.  Requests whose two steps cannot be    *)
(* told apart by others are one action.                                    *)
(***************************************************************************)
EXTENDS Integers, Sequences, FiniteSets

CONSTANTS
  Users,       \* people; each has one e-mail address and one SSO subject
  First,       \* the administrator that the workspace starts with
  Roles,       \* roles that requests assign
  Slots,       \* requests that may be in flight: the lowest free one is used
  Tokens,      \* reset and invitation tokens that may be issued
  Sessions,    \* access tokens that may be issued
  LogLevel,    \* level of the API's root logger
  MaxEvents    \* bound: requests

ASSUME AccountAssumption ==
  /\ First \in Users /\ "none" \notin Users
  /\ Roles \subseteq {"Admin", "Member", "Viewer"}
  /\ LogLevel \in {"DEBUG", "INFO", "WARNING", "ERROR", "CRITICAL"}
  /\ Tokens \subseteq Nat /\ Sessions \subseteq Nat /\ MaxEvents \in Nat

VARIABLES
  user,        \* users, or NoUser
  members,     \* workspace_members of the workspace: roles of the rows of a user
  access,      \* users with a row in user_project_access
  token,       \* password_reset_tokens, or NoToken
  mfa,         \* user_mfa: enabled, backup codes left
  item,        \* an action item: owner_user_id and owner_label; history: who has named them
  elsewhere,   \* users whose SSO subject has an account in a tenant of its own
  session,     \* access tokens, or NoSession
  revoked,     \* revoked_tokens
  req,         \* requests in flight
  erased,      \* history: users erased, and whether another request overlapped
  left,        \* history: sessions logged out
  events       \* counter, bounded by MaxEvents

vars == <<user, members, access, token, mfa, item, elsewhere, session, revoked, req, erased, left, events>>
people == <<user, members, access, token>>
signin == <<mfa, session, revoked, left>>

NoUser == [email |-> "none", name |-> "none", active |-> FALSE, role |-> "none", password |-> FALSE, sso |-> FALSE]
NoToken == [user |-> "none", type |-> "none", state |-> "none"]
NoMfa == [enabled |-> "no", codes |-> {}]
NoSession == [user |-> "none", state |-> "none"]
Lowest(S) == CHOOSE x \in S : \A y \in S : x <= y
Idle == [kind |-> "idle"]
Event == events < MaxEvents /\ events' = events + 1

Exists(u) == user[u] # NoUser
Known(u) == user[u].email = "own"      \* found by e-mail
IsMember(u) == members[u] # <<>>
Admins == {u \in Users : \E n \in DOMAIN members[u] : members[u][n] = "Admin"}
AdminRows == {x \in Users \X {1, 2} : x[2] \in DOMAIN members[x[1]] /\ members[x[1]][x[2]] = "Admin"}

Usable(n) ==
  /\ session[n].state = "open" /\ n \notin revoked
  /\ user[session[n].user].active
SignedIn(u) == \E n \in Sessions : Usable(n) /\ session[n].user = u

\* The context of a token needs exactly one membership, the permission the
\* role of the user, which need not be that of the membership.
HasContext(u) == SignedIn(u) /\ Len(members[u]) = 1
MayManage(a) == HasContext(a) /\ user[a].role = "Admin"
MayEdit(a) == HasContext(a) /\ user[a].role # "Viewer"

-----------------------------------------------------------------------------
(* Requests. *)

Busy == {s \in Slots : req[s] # Idle}

\* A request of actor a about u: arg is given, seen is what it has read.
Begin(s, kind, a, u, arg, seen) ==
  /\ Busy # Slots /\ s = Lowest(Slots \ Busy) /\ Event
  /\ req' = [x \in Slots |->
       IF x = s THEN [kind |-> kind, actor |-> a, user |-> u, arg |-> arg, seen |-> seen, overlap |-> Busy # {}]
       ELSE IF x \in Busy THEN [req[x] EXCEPT !.overlap = TRUE] ELSE Idle]
  /\ UNCHANGED <<people, signin, item, elsewhere, erased>>

\* A request of one step, between the steps of others.
Between ==
  /\ Event
  /\ req' = [x \in Slots |-> IF x \in Busy THEN [req[x] EXCEPT !.overlap = TRUE] ELSE Idle]

End(s) == req' = [req EXCEPT ![s] = Idle]

\* The commit of a request of kind k.
Due(s, k) == req[s].kind = k /\ End(s)

Valid(t) == token[t].state \in {"fresh", "valid"}
Recent(u) == {t \in Tokens : token[t].user = u /\ token[t].state = "fresh"}
TokensLeft == {t \in Tokens : token[t] = NoToken}
Issue(u, type) == [token EXCEPT ![Lowest(TokensLeft)] = [user |-> u, type |-> type, state |-> "fresh"]]

SessionsLeft == {n \in Sessions : session[n] = NoSession}
OpenSession(u) == session' = [session EXCEPT ![Lowest(SessionsLeft)] = [user |-> u, state |-> "open"]]

\* Any request may end without a commit, its effects rolled back.
Rollback(s) ==
  /\ s \in Busy /\ End(s)
  /\ UNCHANGED <<people, signin, item, elsewhere, erased, events>>

-----------------------------------------------------------------------------
(* Members. *)

\* Bug: a member may be invited once more.
Anyone(u) == Len(members[u]) < 2

Invitable(u) == ~IsMember(u)

\* Someone who is a member already gets a 409; more than one row, a 500.
InviteMember(s, a, u, role, project) ==
  /\ MayManage(a) /\ Invitable(u) /\ TokensLeft # {} /\ (Exists(u) => Known(u))
  /\ Begin(s, "invite", a, u, [role |-> role, project |-> project],
           [exists |-> Exists(u), active |-> user[u].active])

Pending(u, role) ==
  [email |-> "own", name |-> "own", active |-> FALSE, role |-> role, password |-> FALSE, sso |-> FALSE]

\* The row of a user who was not there must not have come meanwhile, nor may
\* there be an access to the project: removing a member leaves it behind.
CommitInvite(s) ==
  /\ Due(s, "invite") /\ TokensLeft # {}
  /\ LET u == req[s].user arg == req[s].arg IN
       /\ req[s].seen.exists = Exists(u)
       /\ arg.project => u \notin access
       /\ Len(members[u]) < 2
       /\ user' = IF req[s].seen.exists THEN user ELSE [user EXCEPT ![u] = Pending(u, arg.role)]
       /\ members' = [members EXCEPT ![u] = Append(@, arg.role)]
       /\ access' = IF arg.project THEN access \union {u} ELSE access
       /\ token' = IF req[s].seen.active THEN token ELSE Issue(u, "invite")
  /\ UNCHANGED <<signin, item, elsewhere, erased, events>>

CreateWorkspaceUser(s, a, u, role, project) ==
  /\ MayManage(a) /\ ~Exists(u)
  /\ Begin(s, "create", a, u, [role |-> role, project |-> project], "none")

CommitUser(s) ==
  /\ Due(s, "create")
  /\ LET u == req[s].user arg == req[s].arg IN
       /\ ~Exists(u)
       /\ user' = [user EXCEPT ![u] = [Pending(u, arg.role) EXCEPT !.active = TRUE, !.password = TRUE]]
       /\ members' = [members EXCEPT ![u] = <<arg.role>>]
       /\ access' = IF arg.project THEN access \union {u} ELSE access
  /\ UNCHANGED <<token, signin, item, elsewhere, erased, events>>

\* Bug: an administrator may always step down.
NeverTheLast(a, u, role) == TRUE

\* Only a request to demote oneself counts the administrators.
NotTheLast(a, u, role) == (a = u /\ role # "Admin") => Cardinality(AdminRows) > 1

UpdateMemberRole(s, a, u, role) ==
  /\ MayManage(a) /\ Len(members[u]) = 1
  /\ NotTheLast(a, u, role)
  /\ Begin(s, "role", a, u, role, "none")

CommitRole(s) ==
  /\ Due(s, "role")
  /\ LET u == req[s].user IN
       /\ IsMember(u)
       /\ members' = [members EXCEPT ![u] = <<req[s].arg>> \o Tail(@)]
       /\ user' = [user EXCEPT ![u].role = req[s].arg]
  /\ UNCHANGED <<access, token, signin, item, elsewhere, erased, events>>

RemoveMember(s, a, u) ==
  /\ MayManage(a) /\ Len(members[u]) = 1
  /\ members[u][1] = "Admin" => Cardinality(AdminRows) > 1
  /\ Begin(s, "remove", a, u, "none", "none")

CommitRemoval(s) ==
  /\ Due(s, "remove")
  /\ LET u == req[s].user IN
       members' = [members EXCEPT ![u] = IF @ = <<>> THEN <<>> ELSE Tail(@)]
  /\ UNCHANGED <<user, access, token, signin, item, elsewhere, erased, events>>

-----------------------------------------------------------------------------
(* Passwords and invitations. *)

\* Two recent tokens make the query for one fail.
ForgotPassword(s, u) ==
  /\ Known(u) /\ user[u].active /\ Recent(u) = {}
  /\ Begin(s, "forgot", u, u, "none", "none")

CommitForgot(s) ==
  /\ Due(s, "forgot") /\ TokensLeft # {}
  /\ token' = Issue(req[s].user, "reset")
  /\ UNCHANGED <<user, members, access, signin, item, elsewhere, erased, events>>

ResetPassword(s, t) ==
  /\ Valid(t) /\ user[token[t].user].active
  /\ Begin(s, "reset", token[t].user, token[t].user, t, "none")

\* Bug: the token is not marked.
Unmarked(t) == token

Marked(t) == [token EXCEPT ![t].state = "used"]

CommitReset(s) ==
  /\ Due(s, "reset")
  /\ user' = [user EXCEPT ![req[s].user].password = TRUE]
  /\ token' = Marked(req[s].arg)
  /\ UNCHANGED <<members, access, signin, item, elsewhere, erased, events>>

AcceptInvite(s, t) ==
  /\ Valid(t) /\ token[t].type = "invite"
  /\ Begin(s, "accept", token[t].user, token[t].user, t, "none")

CommitAccept(s) ==
  /\ Due(s, "accept")
  /\ user' = [user EXCEPT ![req[s].user].password = TRUE, ![req[s].user].active = TRUE]
  /\ token' = Marked(req[s].arg)
  /\ UNCHANGED <<members, access, signin, item, elsewhere, erased, events>>

TokenAges(t) ==
  /\ Valid(t) /\ Event
  /\ token' = [token EXCEPT ![t].state = IF @ = "fresh" THEN "valid" ELSE "expired"]
  /\ UNCHANGED <<user, members, access, signin, item, elsewhere, req, erased>>

-----------------------------------------------------------------------------
(* Signing in and out. *)

Login(u) ==
  /\ Known(u) /\ user[u].active /\ user[u].password /\ mfa[u].enabled # "yes"
  /\ Between /\ SessionsLeft # {}
  /\ OpenSession(u)
  /\ UNCHANGED <<people, mfa, revoked, left, item, elsewhere, erased>>

\* With a second factor: a code of the authenticator, or a backup code,
\* which is one of those that were read.
VerifyMfa(s, u, code) ==
  /\ Known(u) /\ user[u].active /\ user[u].password /\ mfa[u].enabled = "yes"
  /\ code \in mfa[u].codes \union {"totp"}
  /\ Begin(s, "verify", u, u, code, mfa[u].codes)

Remaining(codes, code) == codes \ {code}

CommitVerify(s) ==
  /\ Due(s, "verify") /\ SessionsLeft # {}
  /\ LET u == req[s].user IN
       /\ mfa[u].enabled # "no"
       /\ mfa' = IF req[s].arg = "totp" THEN mfa
                 ELSE [mfa EXCEPT ![u].codes = Remaining(req[s].seen, req[s].arg)]
       /\ OpenSession(u)
  /\ UNCHANGED <<people, revoked, left, item, elsewhere, erased, events>>

\* The count of failed attempts and the lock are rolled back with the 401
\* that follows, so that a wrong code changes nothing and none is kept here.

EnrollMfa(u) ==
  /\ Between /\ SignedIn(u)
  /\ mfa' = [mfa EXCEPT ![u] = [enabled |-> "begun", codes |-> {"c1", "c2"}]]
  /\ UNCHANGED <<people, session, revoked, left, item, elsewhere, erased>>

ConfirmMfa(u) ==
  /\ mfa[u].enabled # "no" /\ Between
  /\ SignedIn(u)
  /\ mfa' = [mfa EXCEPT ![u].enabled = "yes"]
  /\ UNCHANGED <<people, session, revoked, left, item, elsewhere, erased>>

DisableMfa(u) ==
  /\ mfa[u].enabled = "yes" /\ Between
  /\ SignedIn(u)
  /\ mfa' = [mfa EXCEPT ![u] = NoMfa]
  /\ UNCHANGED <<people, session, revoked, left, item, elsewhere, erased>>

\* Bug: what is purged are tokens that have not expired.
PurgedOpen == {n \in revoked : session[n].state = "open"}

Purged == {n \in revoked : session[n].state = "expired"}

Logout(n) ==
  /\ Usable(n) /\ Between
  /\ revoked' = (revoked \ Purged) \union {n}
  /\ left' = left \union {n}
  /\ UNCHANGED <<people, mfa, session, item, elsewhere, erased>>

SessionExpires(n) ==
  /\ session[n].state = "open" /\ Event
  /\ session' = [session EXCEPT ![n].state = "expired"]
  /\ UNCHANGED <<people, mfa, revoked, left, item, elsewhere, req, erased>>

SwitchWorkspace(u) ==
  /\ HasContext(u) /\ Between /\ SessionsLeft # {}
  /\ OpenSession(u)
  /\ UNCHANGED <<people, mfa, revoked, left, item, elsewhere, erased>>

\* The row is found by its subject, in whatever tenant, or by its address.
OidcCallback(s, u) ==
  /\ u \notin elsewhere /\ Exists(u) /\ (user[u].sso \/ Known(u))
  /\ Begin(s, "sso", u, u, "none", IF user[u].sso THEN "subject" ELSE "email")

\* One found by its address is linked to the subject, which is unique.
CommitOidc(s) ==
  /\ Due(s, "sso") /\ SessionsLeft # {}
  /\ LET u == req[s].user IN
       /\ req[s].seen = "email" => u \notin elsewhere
       /\ user' = IF req[s].seen = "subject" THEN user
                  ELSE [user EXCEPT ![u].sso = TRUE, ![u].active = TRUE, ![u].name = "own"]
       /\ OpenSession(u)
  /\ UNCHANGED <<members, access, token, mfa, revoked, left, item, elsewhere, erased, events>>

\* Someone whom neither finds becomes the administrator of a new tenant, and
\* is found there from then on, also when this workspace invites them.
OidcUnknown(s, u) ==
  /\ u \notin elsewhere /\ ~user[u].sso /\ ~Known(u)
  /\ Begin(s, "provision", u, u, "none", "none")

ProvisionUser(s) ==
  /\ Due(s, "provision")
  /\ LET u == req[s].user IN
       u \notin elsewhere /\ ~user[u].sso /\ elsewhere' = elsewhere \union {u}
  /\ UNCHANGED <<people, signin, item, erased, events>>

-----------------------------------------------------------------------------
(* Items and erasure. *)

\* An extraction that has looked up the owner stores the item.
ResolveOwner(s, u) ==
  /\ Exists(u) /\ user[u].active
  /\ Begin(s, "extract", u, u, "none", user[u].name)

StoreItem(s) ==
  /\ Due(s, "extract")
  /\ item' = [owner |-> req[s].user, label |-> req[s].seen, by |-> "extraction"]
  /\ UNCHANGED <<people, signin, elsewhere, erased, events>>

\* PATCH names an owner who has a row, a label or both; the label is a name.
UpdateItem(s, a, u, given) ==
  /\ MayEdit(a) /\ Exists(u)
  /\ Begin(s, "update", a, u, given, item)

\* Only columns that differ from what was read are written.
CommitUpdate(s) ==
  /\ Due(s, "update")
  /\ LET seen == req[s].seen
         owns == "owner" \in req[s].arg /\ seen.owner # req[s].user
         named == "label" \in req[s].arg /\ seen.label # "own"
     IN  item' = [owner |-> IF owns THEN req[s].user ELSE item.owner,
                  label |-> IF named THEN "own" ELSE item.label,
                  by |-> IF owns \/ named THEN "user" ELSE item.by]
  /\ UNCHANGED <<people, signin, elsewhere, erased, events>>

\* What is saved in bulk is new, in whatever name the request gives.
BulkSaveItems(a, u) ==
  /\ MayEdit(a) /\ Exists(u) /\ Between
  /\ item' = [owner |-> u, label |-> "own", by |-> "user"]
  /\ UNCHANGED <<people, signin, elsewhere, erased>>

Erase(s, a, u) ==
  /\ MayManage(a) /\ Exists(u)
  /\ Begin(s, "erase", a, u, "none", [owned |-> item.owner = u, rows |-> Len(members[u])])

\* Bug: the subject stays linked.
AnonymousLinked(u) == [user[u] EXCEPT !.email = "erased", !.name = "erased", !.active = FALSE, !.password = FALSE]

Anonymous(u) ==
  [user[u] EXCEPT !.email = "erased", !.name = "erased", !.active = FALSE, !.password = FALSE, !.sso = FALSE]

\* All erased users get the same address, which may occur once.
AddressTaken(u) == \E v \in Users \ {u} : user[v].email = "erased"

\* A call logger.info with keywords, of a logger that takes none, fails when
\* the level lets it through.
Raises == LogLevel \in {"DEBUG", "INFO"}

CanStore(u) == ~Raises /\ ~AddressTaken(u)

CommitErasure(s) ==
  /\ Due(s, "erase")
  /\ LET u == req[s].user seen == req[s].seen IN
       /\ CanStore(u)
       /\ user' = [user EXCEPT ![u] = Anonymous(u)]
       /\ item' = IF seen.owned THEN [owner |-> "none", label |-> "erased", by |-> "erasure"] ELSE item
       /\ members' = [members EXCEPT ![u] = SubSeq(@, seen.rows + 1, Len(@))]
       /\ erased' = [erased EXCEPT ![u] = IF req[s].overlap \/ @ = "raced" THEN "raced" ELSE "alone"]
  /\ UNCHANGED <<access, token, signin, elsewhere, events>>

-----------------------------------------------------------------------------
Member(role) == [Pending("", role) EXCEPT !.active = TRUE, !.password = TRUE]

\* The others are no users, invited, or members; the administrator is signed in.
Init ==
  \E kind \in [Users -> {"absent", "invited", "Admin", "Member"}] :
    /\ kind[First] = "Admin" /\ Cardinality({u \in Users : kind[u] = "invited"}) < 2
    /\ user = [u \in Users |-> CASE kind[u] = "absent" -> NoUser
                                 [] kind[u] = "invited" -> Pending(u, "Member")
                                 [] OTHER -> Member(kind[u])]
    /\ members = [u \in Users |-> CASE kind[u] = "absent" -> <<>>
                                    [] kind[u] = "invited" -> <<"Member">>
                                    [] OTHER -> <<kind[u]>>]
    /\ token = [t \in Tokens |->
         IF t = Lowest(Tokens) /\ \E u \in Users : kind[u] = "invited"
           THEN [user |-> CHOOSE u \in Users : kind[u] = "invited", type |-> "invite", state |-> "fresh"]
           ELSE NoToken]
    /\ mfa = [u \in Users |-> IF kind[u] = "Member" THEN [enabled |-> "yes", codes |-> {"c1", "c2"}] ELSE NoMfa]
    /\ item \in {[owner |-> u, label |-> "own", by |-> "extraction"] : u \in {v \in Users : kind[v] = "Member"}}
            \union {[owner |-> "none", label |-> "none", by |-> "extraction"]}
    /\ access = {} /\ revoked = {} /\ elsewhere = {}
    /\ session = [n \in Sessions |-> IF n = Lowest(Sessions) THEN [user |-> First, state |-> "open"] ELSE NoSession]
    /\ req = [s \in Slots |-> Idle]
    /\ erased = [u \in Users |-> "no"] /\ left = {} /\ events = 0

Requests(s) ==
  \/ \E a, u \in Users :
       \/ \E role \in Roles :
            \/ UpdateMemberRole(s, a, u, role)
            \/ \E project \in BOOLEAN :
                 InviteMember(s, a, u, role, project) \/ CreateWorkspaceUser(s, a, u, role, project)
       \/ RemoveMember(s, a, u) \/ Erase(s, a, u)
       \/ \E given \in SUBSET {"owner", "label"} : UpdateItem(s, a, u, given)
  \/ \E u \in Users :
       \/ ForgotPassword(s, u) \/ OidcCallback(s, u) \/ OidcUnknown(s, u) \/ ResolveOwner(s, u)
       \/ \E code \in {"c1", "c2", "totp"} : VerifyMfa(s, u, code)
  \/ \E t \in Tokens : ResetPassword(s, t) \/ AcceptInvite(s, t)

Commits(s) ==
  \/ CommitInvite(s) \/ CommitUser(s) \/ CommitRole(s) \/ CommitRemoval(s)
  \/ CommitForgot(s) \/ CommitReset(s) \/ CommitAccept(s)
  \/ CommitVerify(s) \/ CommitOidc(s) \/ ProvisionUser(s) \/ StoreItem(s) \/ CommitUpdate(s)
  \/ CommitErasure(s)

Next ==
  \/ \E s \in Slots : Requests(s) \/ Commits(s) \/ Rollback(s)
  \/ \E u \in Users : Login(u) \/ SwitchWorkspace(u) \/ EnrollMfa(u) \/ ConfirmMfa(u) \/ DisableMfa(u)
  \/ \E a, u \in Users : BulkSaveItems(a, u)
  \/ \E n \in Sessions : Logout(n) \/ SessionExpires(n)
  \/ \E t \in Tokens : TokenAges(t)

Spec == Init /\ [][Next]_vars

-----------------------------------------------------------------------------
(* Properties. *)

TypeOK ==
  /\ \A u \in Users : user[u].email \in {"none", "own", "erased"} /\ user[u].active \in BOOLEAN
  /\ \A u \in Users : Len(members[u]) \in 0 .. 2 /\ mfa[u].codes \subseteq {"c1", "c2"}
  /\ access \subseteq Users /\ elsewhere \subseteq Users /\ revoked \subseteq Sessions /\ left \subseteq Sessions
  /\ \A t \in Tokens : token[t].state \in {"none", "fresh", "valid", "used", "expired"}
  /\ events \in 0 .. MaxEvents

\* An erased user stays anonymous: no name, address or subject, no membership
\* and no item in that name; unless a request or an extraction that had read the user's
\* data before the erasure wrote them after it, or a user edits or saves an
\* item in that name anew, which nothing in the code refuses.
ErasedIsAnonymous ==
  \A u \in Users : erased[u] = "alone" =>
    /\ user[u].email = "erased" /\ user[u].name = "erased" /\ ~user[u].sso
    /\ ~IsMember(u) /\ (item.owner = u => item.label = "erased" \/ item.by = "user")

\* What is for one use is used once: a token for a password or a backup code
\* is used again only by a request that overlapped with another.
SecretsWorkOnce ==
  [][\A s \in Busy : ~req[s].overlap =>
       /\ CommitReset(s) \/ CommitAccept(s) =>
            token[req[s].arg].state # "used" /\ token'[req[s].arg].state = "used"
       /\ CommitVerify(s) /\ req[s].arg # "totp" =>
            req[s].arg \in mfa[req[s].user].codes \ mfa'[req[s].user].codes]_vars

\* A workspace loses its last administrator only by an erasure, by requests
\* that overlap, or by an administrator of the tenant who is not one there.
KeepsAnAdmin ==
  [][Admins # {} /\ Admins' = {} =>
       \E s \in Slots : req[s] # Idle /\ req'[s] = Idle /\
         (req[s].kind = "erase" \/ req[s].overlap \/ req[s].actor \notin Admins)]_vars

\* Nobody has two rows in a workspace, which would lock them out of it,
\* unless two invitations overlapped.
SecondRowNeedsOverlap ==
  [][\A u \in Users : Len(members[u]) = 1 /\ Len(members'[u]) = 2 =>
       \E s \in Slots : req[s] # Idle /\ req[s].overlap]_vars

\* A session that was logged out is not accepted again, whatever is purged
\* from the list of revoked tokens.
LoggedOutStaysOut == \A n \in left : ~Usable(n)

\* The erasure of a user who is there can be stored.
ErasureCanCommit == \A s \in Busy : req[s].kind = "erase" => CanStore(req[s].user)
=============================================================================
