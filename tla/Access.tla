------------------------------ MODULE Access ------------------------------
(***************************************************************************)
(* What the kit promises about a request, whatever happens while it is     *)
(* being served: its handler runs only for somebody whom the credential    *)
(* named, and who met every guard, at some moment since the request        *)
(* arrived; a refusal says what was the case at such a moment; and only a  *)
(* failure, of a call or of the wiring, is answered as one.                *)
(*                                                                         *)
(* It does not say which moment: what holds when a request arrives may be  *)
(* revoked while it is served.  It does say that nothing older counts.     *)
(***************************************************************************)
EXTENDS Routes

CONSTANTS
    Requests,
    Inputs   \* request -> what may arrive: a route, headers and a tenant value

VARIABLES
    world,   \* what the database would answer now
    views,   \* request -> what it would have answered since the request arrived
    phase,   \* request -> "idle", "open", "admitted", "answered"
    input,   \* request -> what arrived, None before
    status,  \* request -> the HTTP status answered, None before
    broken   \* requests for which a call or a hook has failed

vars == <<world, views, phase, input, status, broken>>

Key(in) == IF Len(in.headers.apiKey) = 1 THEN in.headers.apiKey[1] ELSE None

Token(in) ==
    LET a == in.headers.authorization
    IN  IF Len(a) = 1 /\ a[1].scheme = "bearer" THEN a[1].token ELSE None

Presented(in) == Key(in) # None \/ Token(in) # None

Genuine(token) == token.fault = None /\ token.role \notin RejectedRoles /\ token.sub \in Accounts

\* Whom the request's credential names; a key comes before a token.
Caller(in, w) ==
    IF Key(in) # None THEN w.owner[Key(in)]
    ELSE IF Token(in) # None /\ Genuine(Token(in)) THEN w.owner[Token(in).sub] ELSE None

StrongEnough(g, in) ==
    g.aal2 => IF Key(in) # None THEN g.allowApiKeys ELSE Token(in).aal = "aal2"

Authorized(g, held) ==
    CASE g.check = "none" -> TRUE
      [] g.check = "all" -> g.scopes \subseteq held
      [] g.check = "any" -> \E s \in g.scopes : s \in held

Guards(in) == {in.route.guards[i] : i \in DOMAIN in.route.guards}
Writes(in) == {in.route.tasks[i] : i \in {j \in DOMAIN in.route.tasks : in.route.tasks[j].do = "write"}}

Entitled(r, p) ==
    LET in == input[r]
    IN  \A g \in Guards(in) :
            /\ p # None /\ StrongEnough(g, in)
            /\ g.check # "none" => in.tenant \in Tenants
            /\ \E v \in views[r] : Authorized(g, Held(v, p, in.tenant))

Refusable(r, p) ==
    LET in == input[r]
    IN  \E g \in Guards(in) :
            \/ p = None
            \/ ~StrongEnough(g, in)
            \/ in.tenant \in Tenants /\ \E v \in views[r] : ~Authorized(g, Held(v, p, in.tenant))

MayBe(r, p) == \E v \in views[r] : Caller(input[r], v) = p

Somebody == Principals \cup {None}

\* A write the caller was not allowed at some moment, by the database.
Forbidden(r) ==
    \E t \in Writes(input[r]), v \in views[r], p \in Principals :
        MayBe(r, p) /\ t.scope \notin Held(v, p, t.tenant)

Init ==
    /\ world \in Worlds
    /\ views = [r \in Requests |-> {}]
    /\ phase = [r \in Requests |-> "idle"]
    /\ input = [r \in Requests |-> None]
    /\ status = [r \in Requests |-> None]
    /\ broken = {}

Change ==
    /\ world' \in Worlds
    /\ views' = [r \in Requests |-> IF phase[r] = "idle" THEN {} ELSE views[r] \cup {world'}]
    /\ UNCHANGED <<phase, input, status, broken>>

Open(r) ==
    /\ phase[r] = "idle" /\ phase' = [phase EXCEPT ![r] = "open"]
    /\ \E in \in Inputs[r] : input' = [input EXCEPT ![r] = in]
    /\ views' = [views EXCEPT ![r] = {world}]
    /\ UNCHANGED <<world, status, broken>>

Break(r) ==
    /\ phase[r] # "idle"
    /\ broken' = broken \cup {r}
    /\ UNCHANGED <<world, views, phase, input, status>>

Admit(r) ==
    /\ phase[r] = "open" /\ phase' = [phase EXCEPT ![r] = "admitted"]
    /\ input[r].route.guards # << >> => input[r].route.mounted
    /\ \E p \in Somebody : MayBe(r, p) /\ Entitled(r, p)
    /\ UNCHANGED <<world, views, input, status, broken>>

Answer(r, s) ==
    /\ phase' = [phase EXCEPT ![r] = "answered"]
    /\ status' = [status EXCEPT ![r] = s]
    /\ UNCHANGED <<world, views, input, broken>>

\* An anonymous request is told so; 403 is for a credential that named
\* nobody, or did not suffice; 400 is for somebody who did not say where.
Refuse(r) ==
    LET in == input[r]
    IN  /\ phase[r] = "open"
        /\ \/ Guards(in) # {} /\ ~Presented(in) /\ Answer(r, 401)
           \/ Presented(in) /\ (\E p \in Somebody : MayBe(r, p) /\ Refusable(r, p)) /\ Answer(r, 403)
           \/ in.tenant \notin Tenants /\ (\E p \in Principals : MayBe(r, p))
                /\ (\E g \in Guards(in) : g.check # "none") /\ Answer(r, 400)
           \/ (r \in broken \/ ~in.route.mounted) /\ Answer(r, 500)

Reply(r) ==
    /\ phase[r] = "admitted"
    /\ \/ Answer(r, 200)
       \/ Forbidden(r) /\ Answer(r, IF input[r].route.errorHandler THEN 403 ELSE 500)
       \/ r \in broken /\ Answer(r, 500)

Next == Change \/ \E r \in Requests : Open(r) \/ Break(r) \/ Admit(r) \/ Refuse(r) \/ Reply(r)

Spec == Init /\ [][Next]_vars
=============================================================================
