------------------------------- MODULE SignIn -------------------------------
(***************************************************************************)
(* What a sign-in leaves behind: the sessions of a user's devices and the  *)
(* access tokens.  Neither reads what the other one writes, so each is     *)
(* considered by itself: the initial state chooses one, and the other does *)
(* not move.                                                               *)
(***************************************************************************)
EXTENDS DeviceSessions

CONSTANTS Accounts, Casts, KindOf, PersonOf, NumberOf, Tokens, JwtLife, SessionTtl, VendorTtl, Short,
          OtpTtl, PreAuthTtl, MaxAttempts, MaxFaults

VARIABLES
    focus,       \* which of the two moves
    rows, jwts, meta, session, known, enabled, otp, preAuth, restored, faults

Access     == INSTANCE AccessTokens WITH active <- enabled
accessVars == <<rows, jwts, meta, session, known, enabled, otp, preAuth, restored, faults>>

\* A person is one by a phone or an e-mail among the rows of one kind, and every
\* lifetime is one: a token's metadata lives no longer than a JWT that carries it
\* could, and a session that is shortened no longer than a new one.
ASSUME AccessAssumption ==
    /\ Casts \subseteq SUBSET Accounts
    /\ \A a, b \in Accounts : PersonOf[a] = PersonOf[b] => KindOf[a] = KindOf[b]
    /\ Access!NoToken \notin Tokens
    /\ None \notin Access!Meta \union Access!Session \union Access!Otp
    /\ JwtLife \in Nat \ {0} /\ {SessionTtl, VendorTtl} \subseteq 1..JwtLife
    /\ Short \in 1..SessionTtl
    /\ {OtpTtl, PreAuthTtl} \subseteq Nat \ {0} /\ {MaxAttempts, MaxFaults} \subseteq Nat

-----------------------------------------------------------------------------
SignInInit ==
    /\ focus \in {"devices", "tokens"}
    /\ Init
    /\ Access!Init
    /\ focus # "tokens" => rows = CHOOSE cast \in Casts : TRUE

SignInNext ==
    \/ focus = "devices" /\ Next /\ UNCHANGED <<focus, accessVars>>
    \/ focus = "tokens" /\ Access!Next /\ UNCHANGED <<focus, vars>>

\* What does not move has nothing to do: no fairness is asked of it.
SignInSpec ==
    /\ SignInInit /\ [][SignInNext]_<<focus, vars, accessVars>>
    /\ Fairness
    /\ WF_accessVars(Access!Time)

-----------------------------------------------------------------------------
\* The properties of AccessTokens, as they are stated there.
DriverReplacedStaysOut == Access!DriverReplacedStaysOut
RevokedStaysRevoked    == Access!RevokedStaysRevoked
DeactivatedOut         == Access!DeactivatedOut
=============================================================================
