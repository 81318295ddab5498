---------------------------- MODULE AccessTokens ----------------------------
(***************************************************************************)
(* Access tokens.  A login makes an opaque token, keeps what it stands for *)
(* in Redis (opaque_token_metadata), lets a key of the account point to it *)
(* (the session) and hands out a JWT that carries it.  The three live for  *)
(* different times, and a token is judged by all of them.  Every handler   *)
(* is a coroutine without an await: the event loop runs each in one step.  *)
(* Lifetimes are counted in ticks from now, as Redis does.  A handler      *)
(* stores the metadata before the session that points to it, so that of    *)
(* two keys of the same length the metadata goes a moment earlier: after   *)
(* its last tick a session is there until it lapses.                       *)
(***************************************************************************)
EXTENDS Naturals

CONSTANTS
    Accounts,        \* rows of employees, drivers, vendor users, admins, escorts
    Casts,           \* bound: which of them may be there together
    KindOf,          \* the kind of an account
    PersonOf,        \* the phone or e-mail of an account: several tenants
    NumberOf,        \* the number of its row: each kind counts by itself
    Tokens,          \* opaque tokens: an id is used again when nothing knows it
    JwtLife,         \* ACCESS_TOKEN_EXPIRE_MINUTES
    SessionTtl,      \* TOKEN_EXPIRY_HOURS
    VendorTtl,       \* the 1800 s of a vendor's metadata
    Short,           \* the 900 s of a session whose metadata came back
    OtpTtl,          \* 300 s
    PreAuthTtl,      \* 900 s
    MaxAttempts,     \* wrong codes for an OTP
    MaxFaults,       \* bound: Redis errors while metadata is stored
    None

\* The id under which a JWT without an opaque token is looked up.
NoToken == "None"
Keys    == Tokens \union {NoToken}
Persons == {PersonOf[a] : a \in Accounts}
Lives   == 1..JwtLife

VARIABLES
    rows,        \* the accounts that are there
    jwts,        \* access tokens in clients' hands, not expired
    meta,        \* opaque_token_metadata:<token>
    session,     \* <kind>_session:<account>
    known,       \* accounts whose client holds a refresh token (7 days)
    active,      \* is_active of the account
    otp,         \* otp_request:<person>
    preAuth,     \* what is left of the pre-auth token of a person, 0: none
    restored,    \* accounts a token of which introspection has brought back
    faults

vars == <<rows, jwts, meta, session, known, active, otp, preAuth, restored, faults>>
storeVars == <<rows, jwts, meta, session, known, restored, faults>>

Jwt     == [acct : Accounts, tok : Keys, left : Lives]
Meta    == [acct : Accounts, left : Lives]
Session == [tok : Tokens, left : 0..SessionTtl]
Otp     == [wrong : 0..MaxAttempts, left : 1..OtpTtl]

\* The keys hold what the handlers write.
TypeOK ==
    /\ rows \in Casts
    /\ jwts \in SUBSET Jwt
    /\ meta \in [Keys -> Meta \union {None}]
    /\ session \in [Accounts -> Session \union {None}]
    /\ known \in SUBSET Accounts
    /\ active \in [Accounts -> BOOLEAN]
    /\ otp \in [Persons -> Otp \union {None}]
    /\ preAuth \in [Persons -> 0..PreAuthTtl]
    /\ restored \subseteq Accounts
    /\ faults \in 0..MaxFaults

Init ==
    /\ rows \in Casts
    /\ jwts = {}
    /\ meta = [k \in Keys |-> None]
    /\ session = [a \in Accounts |-> None]
    /\ known = {}
    /\ active = [a \in Accounts |-> TRUE]
    /\ otp = [p \in Persons |-> None]
    /\ preAuth = [p \in Persons |-> 0]
    /\ restored = {}
    /\ faults = 0

-----------------------------------------------------------------------------
\* --- when a token is accepted ----------------------------------------------

\* Only these kinds are compared with their session before the metadata.
Enforced == {"employee", "driver"}

Points(a, t)  == session[a] # None /\ session[a].tok = t
Replaced(a, t) == session[a] # None /\ session[a].tok # t

\* Mutant: whoever has no session is looked up in the database as well.
IntrospectedUnlessReplaced(a, t) ==
    \/ t = NoToken
    \/ ~Replaced(a, t) /\ active[a]

\* introspect_token_direct, when the metadata of a token is gone.
Introspected(a, t) ==
    \/ t = NoToken
    \/ Points(a, t) /\ active[a]

\* validate_oauth2_token
Accepted(j) ==
    /\ KindOf[j.acct] \in Enforced => ~Replaced(j.acct, j.tok)
    /\ meta[j.tok] # None \/ Introspected(j.acct, j.tok)

\* The account that the request is answered for.
Bearer(j) == IF meta[j.tok] # None THEN meta[j.tok].acct ELSE j.acct

\* Introspection stores the metadata again, for as long as the JWT lasts, and
\* shortens the session.  A JWT without a token is stored before it is refused.
Revalidate(j) ==
    /\ meta[j.tok] = None
    /\ Introspected(j.acct, j.tok)
    /\ meta' = [meta EXCEPT ![j.tok] = [acct |-> j.acct, left |-> j.left]]
    /\ session' = IF j.tok = NoToken THEN session
                  ELSE [session EXCEPT ![j.acct].left = Short]
    /\ restored' = IF j.tok = NoToken THEN restored ELSE restored \union {j.acct}
    /\ UNCHANGED <<rows, jwts, known, active, otp, preAuth, faults>>

-----------------------------------------------------------------------------
\* --- handing out tokens ----------------------------------------------------

\* secrets.token_hex never repeats.
Fresh(t) ==
    /\ meta[t] = None
    /\ \A j \in jwts : j.tok # t
    /\ \A a \in Accounts : ~Points(a, t)

\* store_opaque_token: an error of Redis is swallowed, and the copy that is
\* then kept in memory is never read.
Stored(m, a, t, ttl) ==
    \/ /\ meta' = [m EXCEPT ![t] = [acct |-> a, left |-> ttl]]
       /\ UNCHANGED faults
    \/ /\ faults < MaxFaults
       /\ faults' = faults + 1
       /\ meta' = m

HandOut(a, t) ==
    /\ jwts' = jwts \union {[acct |-> a, tok |-> t, left |-> JwtLife]}
    /\ known' = known \union {a}

\* The metadata of the token that the session points to.
WithoutOld(a) == [t \in Keys |-> IF Points(a, t) THEN None ELSE meta[t]]

\* A login of an employee, a driver or an escort takes over the session.
TakeSession(a, t) ==
    /\ active[a]
    /\ Fresh(t)
    /\ Stored(WithoutOld(a), a, t, SessionTtl)
    /\ session' = [session EXCEPT ![a] = [tok |-> t, left |-> SessionTtl]]
    /\ HandOut(a, t)

EmployeeLogin(a, t) ==
    /\ KindOf[a] = "employee"
    /\ TakeSession(a, t)
    /\ UNCHANGED <<rows, active, otp, preAuth, restored>>

SelectEmployeeTenant(a, t) ==
    /\ KindOf[a] = "employee"
    /\ preAuth[PersonOf[a]] > 0
    /\ TakeSession(a, t)
    /\ preAuth' = [preAuth EXCEPT ![PersonOf[a]] = 0]
    /\ UNCHANGED <<rows, active, otp, restored>>

DriverSelectTenant(a, t) ==
    /\ KindOf[a] = "driver"
    /\ TakeSession(a, t)
    /\ UNCHANGED <<rows, active, otp, preAuth, restored>>

EscortLogin(a, t) ==
    /\ KindOf[a] = "escort"
    /\ TakeSession(a, t)
    /\ UNCHANGED <<rows, active, otp, preAuth, restored>>

\* Vendor users and admins have no session, and as many tokens as logins.
VendorUserLogin(a, t) ==
    /\ KindOf[a] = "vendor" /\ active[a] /\ Fresh(t)
    /\ Stored(meta, a, t, VendorTtl)
    /\ HandOut(a, t)
    /\ UNCHANGED <<rows, session, active, otp, preAuth, restored>>

AdminLogin(a, t) ==
    /\ KindOf[a] = "admin" /\ active[a] /\ Fresh(t)
    /\ Stored(meta, a, t, SessionTtl)
    /\ HandOut(a, t)
    /\ UNCHANGED <<rows, session, active, otp, preAuth, restored>>

\* The new account's session is taken over; the token that the caller came with
\* and the session of the employee it is taken for are deleted, last of all.
MoveSession(c, b, j, t) ==
    LET old == WithoutOld(b)
        new == [session EXCEPT ![b] = [tok |-> t, left |-> SessionTtl]]
    IN  /\ Stored(IF j.tok = NoToken THEN old ELSE [old EXCEPT ![j.tok] = None], b, t, SessionTtl)
        /\ session' = IF j.tok = NoToken THEN new ELSE [new EXCEPT ![c] = None]
        /\ HandOut(b, t)

\* From one tenant of a person to another one, with a token that is accepted.  The
\* caller's number is looked up among the employees, whichever kind the caller is;
\* which tenant such a caller belongs to is left open.
SwitchEmployeeTenant(j, b, t) ==
    \E c \in rows :
        /\ Accepted(j)
        /\ KindOf[c] = "employee" /\ NumberOf[c] = NumberOf[Bearer(j)]
        /\ b # Bearer(j) /\ PersonOf[b] = PersonOf[c] /\ active[b]
        /\ Fresh(t)
        /\ MoveSession(c, b, j, t)
        /\ UNCHANGED <<rows, active, otp, preAuth, restored>>

\* Mutant: the account is not read again.
RefreshAnyone(a, t) ==
    /\ a \in known /\ Fresh(t)
    /\ Stored(meta, a, t, SessionTtl)
    /\ session' = IF KindOf[a] \in Enforced
                  THEN [session EXCEPT ![a] = [tok |-> t, left |-> SessionTtl]] ELSE session
    /\ HandOut(a, t)
    /\ UNCHANGED <<rows, active, otp, preAuth, restored>>

\* Mutant: the session goes on pointing to the token before.
RefreshBeside(a, t) ==
    /\ a \in known /\ active[a] /\ Fresh(t)
    /\ Stored(meta, a, t, SessionTtl)
    /\ HandOut(a, t)
    /\ UNCHANGED <<rows, session, active, otp, preAuth, restored>>

\* The token before keeps its metadata.
RefreshToken(a, t) ==
    /\ a \in known /\ active[a] /\ Fresh(t)
    /\ Stored(meta, a, t, SessionTtl)
    /\ session' = IF KindOf[a] \in Enforced
                  THEN [session EXCEPT ![a] = [tok |-> t, left |-> SessionTtl]] ELSE session
    /\ HandOut(a, t)
    /\ UNCHANGED <<rows, active, otp, preAuth, restored>>

\* The driver's own refresh: a JWT without an opaque token, whether or not the
\* driver is active.  Its device check only ever refuses.
DriverRefreshToken(a) ==
    /\ a \in known /\ KindOf[a] = "driver"
    /\ HandOut(a, NoToken)
    /\ UNCHANGED <<rows, meta, session, active, otp, preAuth, restored, faults>>

-----------------------------------------------------------------------------
\* --- login by one-time password --------------------------------------------

SomeActive(p) == \E a \in rows : PersonOf[a] = p /\ KindOf[a] = "employee" /\ active[a]

RequestEmployeeOtp(p) ==
    /\ SomeActive(p)
    /\ otp' = [otp EXCEPT ![p] = [wrong |-> 0, left |-> OtpTtl]]
    /\ UNCHANGED <<storeVars, active, preAuth>>

\* A wrong code is counted, and the one after the last attempt ends the OTP.
VerifyWrongOtp(p) ==
    /\ otp[p] # None
    /\ otp' = IF otp[p].wrong = MaxAttempts THEN [otp EXCEPT ![p] = None]
              ELSE [otp EXCEPT ![p].wrong = @ + 1]
    /\ UNCHANGED <<storeVars, active, preAuth>>

VerifyEmployeeOtp(p) ==
    /\ otp[p] # None /\ otp[p].wrong < MaxAttempts
    /\ otp' = [otp EXCEPT ![p] = None]
    /\ preAuth' = IF SomeActive(p) THEN [preAuth EXCEPT ![p] = PreAuthTtl] ELSE preAuth
    /\ UNCHANGED <<storeVars, active>>

-----------------------------------------------------------------------------
\* The office switches an account off and on; no token is touched.
SetActive(a, on) ==
    /\ active[a] # on
    /\ active' = [active EXCEPT ![a] = on]
    /\ UNCHANGED <<storeVars, otp, preAuth>>

\* Time: what has one tick left is gone, but for a session, which outlives the
\* metadata of the same age.
Aged(r) == IF r = None \/ r.left = 1 THEN None ELSE [r EXCEPT !.left = @ - 1]

Lapsing(a) == session[a] # None /\ session[a].left = 0

Tick ==
    /\ \A a \in Accounts : ~Lapsing(a)
    /\ jwts' = {[j EXCEPT !.left = @ - 1] : j \in {k \in jwts : k.left > 1}}
    /\ meta' = [k \in Keys |-> Aged(meta[k])]
    /\ session' = [a \in Accounts |-> IF session[a] = None THEN None
                                      ELSE [session[a] EXCEPT !.left = @ - 1]]
    /\ otp' = [p \in Persons |-> Aged(otp[p])]
    /\ preAuth' = [p \in Persons |-> IF preAuth[p] = 0 THEN 0 ELSE preAuth[p] - 1]
    /\ UNCHANGED <<rows, known, active, restored, faults>>

Lapse(a) ==
    /\ Lapsing(a)
    /\ session' = [session EXCEPT ![a] = None]
    /\ UNCHANGED <<rows, jwts, meta, known, active, otp, preAuth, restored, faults>>

Time == Tick \/ \E a \in Accounts : Lapse(a)

Login(a, t) ==
    \/ EmployeeLogin(a, t) \/ SelectEmployeeTenant(a, t) \/ DriverSelectTenant(a, t)
    \/ EscortLogin(a, t) \/ VendorUserLogin(a, t) \/ AdminLogin(a, t)

Next ==
    \/ \E a \in rows :
           \/ \E t \in Tokens : Login(a, t) \/ RefreshToken(a, t)
           \/ DriverRefreshToken(a)
           \/ \E on \in BOOLEAN : SetActive(a, on)
    \/ \E j \in jwts :
           \/ Revalidate(j)
           \/ \E b \in rows, t \in Tokens : SwitchEmployeeTenant(j, b, t)
    \/ \E p \in Persons : RequestEmployeeOtp(p) \/ VerifyWrongOtp(p) \/ VerifyEmployeeOtp(p)
    \/ Time

Spec     == Init /\ [][Next]_vars
FairSpec == Spec /\ WF_vars(Time)

-----------------------------------------------------------------------------
Held(a, t)         == \E j \in jwts : j.acct = a /\ j.tok = t
SomeAccepted(a, t) == \E j \in jwts : j.acct = a /\ j.tok = t /\ Accepted(j)

\* Single-session enforcement ("new login invalidates old"): a driver's token that
\* a later login or refresh has replaced is never accepted again, although the
\* session forgets what it replaced and lapses long before the JWTs do, and however
\* often Redis fails - as long as introspection never brought back a token of this
\* driver, which it does between the end of the metadata and that of the session.
DriverReplacedStaysOut ==
    [][\A a \in Accounts \ restored', t \in Tokens :
           KindOf[a] = "driver" /\ Held(a, t) /\ Replaced(a, t) => ~SomeAccepted(a, t)']_vars

\* A token whose metadata is gone and that no session points to (it was switched
\* away from, replaced by a login, or it lapsed) does not come back, whatever is
\* introspected and refreshed ("If session key is missing, token was explicitly
\* invalidated"), and whatever its JWT has left.
RevokedStaysRevoked ==
    [][\A a \in Accounts, t \in Tokens :
           Held(a, t) /\ meta[t] = None /\ ~Points(a, t)
               => ~SomeAccepted(a, t)']_vars

\* Who is switched off for good is refused in the end, with every token that any
\* chain of logins, refreshes and switches has left behind.  A driver is not
\* covered: the driver's refresh does not ask.
DeactivatedOut ==
    \A a \in Accounts :
        KindOf[a] # "driver" =>
            (<>[]~active[a] => <>[](\A j \in jwts : Accepted(j) => Bearer(j) # a))
=============================================================================
