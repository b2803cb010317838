------------------------------ MODULE AccountPool ------------------------------
(***************************************************************************)
(* Accounts of Facebook and Threads and the proxies they are pinned to     *)
(* (app/services/accounts/platform_config_db.py).  The rows are in a       *)
(* Postgres database that the operators' requests, the health check of     *)
(* every six hours, and spider-hub all write.  Each account is to have an  *)
(* address of its own, and a session that a platform has refused is not to *)
(* be used again before there is a new cookie.                             *)
(***************************************************************************)
EXTENDS Naturals

CONSTANTS
    Accounts,
    Facebook,     \* the accounts of Facebook; the others are of Threads
    Proxies,
    Addresses,    \* values of proxy_url, which two proxies may have in common
    Operators,    \* set_account_proxy requests that may be under way together
    MaxEdits,     \* bound: writes of operators, health checks and spider-hub
    Unpinned      \* assigned_proxy_id is NULL

ASSUME AccountAssumption ==
    Facebook \subseteq Accounts /\ MaxEdits \in Nat /\ Unpinned \notin Proxies

VARIABLES
    enabled,     \* accounts with enabled = true
    checkpoint,  \* accounts with status = 'checkpoint'
    pin,         \* pin[a]: assigned_proxy_id
    address,     \* address[p]: proxy_url
    ipType,      \* ipType[p]
    pinning,     \* pinning[o]: the set_account_proxy of o after its SELECT, if there is one
    check,       \* check[a]: last_check_status
    touched,     \* accounts with updated_at later than last_checked_at
    \* history
    renewed,     \* accounts with a new cookie since spider-hub called them dead
    overtaken,   \* requests with another write since their SELECT
    unchecked,   \* accounts whose pin no check of the address stands behind
    edits

pinVars     == <<enabled, checkpoint, pin, address, ipType, pinning, overtaken, unchecked>>
sessionVars == <<check, touched, renewed>>
accountVars == <<pinVars, sessionVars, edits>>

AccountInit ==
    /\ enabled = Accounts /\ checkpoint = {} /\ pin = [a \in Accounts |-> Unpinned]
    /\ address \in [Proxies -> Addresses] /\ ipType \in [Proxies -> {"static", "rotating", "unknown"}]
    /\ pinning = [o \in Operators |-> {}]
    /\ check = [a \in Accounts |-> "none"] /\ touched = {} /\ renewed = Accounts
    /\ overtaken = {} /\ unchecked = {} /\ edits = 0

Edit == edits < MaxEdits /\ edits' = edits + 1

\* The requests that have made their SELECT.
Selected == {o \in Operators : pinning[o] # {}}

-----------------------------------------------------------------------------
(* Pins                                                                    *)

InPool(a) == a \in enabled \ checkpoint

\* Mutant: the row of the proxy is compared, not its address.
SameRow(p, q) == p = q

SameAddress(p, q) == address[p] = address[q]

\* The other accounts of the pool at the address of p.
Others(a, p) == {b \in Accounts \ {a} : InPool(b) /\ pin[b] # Unpinned /\ SameAddress(pin[b], p)}

\* proxy_pin_refusal
PinRefused(a, p) ==
    \/ ipType[p] = "rotating"
    \/ Others(a, p) # {}
    \/ a \in Facebook /\ ipType[p] # "static"

\* set_account_proxy, its SELECT; ProxyPolicyError ends the request here.
SelectTarget(o, a, p) ==
    /\ pinning[o] = {} /\ ~PinRefused(a, p) /\ Edit
    /\ pinning' = [pinning EXCEPT ![o] = {<<a, p>>}] /\ overtaken' = overtaken \ {o}
    /\ UNCHANGED <<enabled, checkpoint, pin, address, ipType, unchecked, sessionVars>>

\* Its UPDATE.  Another transaction may have committed in between.
UpdatePin(o) ==
    /\ \E x \in pinning[o] :
        /\ pin' = [pin EXCEPT ![x[1]] = x[2]]
        /\ unchecked' = IF o \in overtaken THEN unchecked \cup {x[1]} ELSE unchecked \ {x[1]}
    /\ pinning' = [pinning EXCEPT ![o] = {}] /\ overtaken' = (overtaken \cup Selected) \ {o}
    /\ UNCHANGED <<enabled, checkpoint, address, ipType, sessionVars, edits>>

\* reset_account_proxy
ResetPin(a) ==
    /\ pin[a] # Unpinned /\ Edit /\ pin' = [pin EXCEPT ![a] = Unpinned] /\ unchecked' = unchecked \ {a}
    /\ UNCHANGED <<enabled, checkpoint, address, ipType, pinning, overtaken, sessionVars>>

\* set_account_enabled: true takes the checkpoint away too, and leaves the pin as it was.
SetEnabled(a, on) ==
    /\ Edit
    /\ IF on THEN enabled' = enabled \cup {a} /\ checkpoint' = checkpoint \ {a}
             ELSE enabled' = enabled \ {a} /\ UNCHANGED checkpoint
    /\ overtaken' = IF on /\ ~InPool(a) THEN overtaken \cup Selected ELSE overtaken
    /\ unchecked' = IF on /\ ~InPool(a) /\ pin[a] # Unpinned THEN unchecked \cup {a} ELSE unchecked
    /\ UNCHANGED <<pin, address, ipType, pinning, sessionVars>>

\* update_proxy
UpdateProxy(p) ==
    /\ Edit
    /\ \E x \in Addresses, t \in {"static", "rotating", "unknown"} :
        address' = [address EXCEPT ![p] = x] /\ ipType' = [ipType EXCEPT ![p] = t]
    /\ overtaken' = overtaken \cup Selected
    /\ unchecked' = unchecked \cup {a \in Accounts : pin[a] = p}
    /\ UNCHANGED <<enabled, checkpoint, pin, pinning, sessionVars>>

\* spider-hub: a job of an account without a pin gets one, under the same rule; or the platform
\* asks for a checkpoint.
HubPins(a, p) ==
    /\ InPool(a) /\ pin[a] = Unpinned /\ ~PinRefused(a, p) /\ Edit
    /\ pin' = [pin EXCEPT ![a] = p] /\ overtaken' = overtaken \cup Selected /\ unchecked' = unchecked \ {a}
    /\ UNCHANGED <<enabled, checkpoint, address, ipType, pinning, sessionVars>>

HubMeetsCheckpoint(a) ==
    /\ InPool(a) /\ Edit /\ checkpoint' = checkpoint \cup {a}
    /\ UNCHANGED <<enabled, pin, address, ipType, pinning, overtaken, unchecked, sessionVars>>

-----------------------------------------------------------------------------
(* Sessions                                                                *)

\* Mutant: any change touches updated_at.
TouchedByAny(a, cookie) == touched \cup {a}

\* updated_at is for a new cookie only.
TouchedBy(a, cookie) == IF cookie THEN touched \cup {a} ELSE touched

\* update_account: a cookie, or a password or an email.
UpdateAccount(a, cookie) ==
    /\ Edit /\ touched' = TouchedBy(a, cookie)
    /\ renewed' = IF cookie THEN renewed \cup {a} ELSE renewed
    /\ UNCHANGED <<pinVars, check>>

\* update_account_check_result: one statement, whose WHERE spares a dead session.
RecordCheck(a, result) ==
    /\ Edit /\ ~(check[a] = "dead" /\ a \notin touched)
    /\ check' = [check EXCEPT ![a] = result] /\ touched' = touched \ {a}
    /\ UNCHANGED <<pinVars, renewed>>

\* spider-hub: the platform refuses the session.
HubFindsDead(a) ==
    /\ Edit /\ check' = [check EXCEPT ![a] = "dead"] /\ touched' = touched \ {a}
    /\ renewed' = renewed \ {a}
    /\ UNCHANGED pinVars

AccountNext ==
    \/ \E o \in Operators : UpdatePin(o) \/ \E a \in Accounts, p \in Proxies : SelectTarget(o, a, p)
    \/ \E a \in Accounts :
        \/ ResetPin(a) \/ HubMeetsCheckpoint(a) \/ HubFindsDead(a)
        \/ \E b \in BOOLEAN : SetEnabled(a, b) \/ UpdateAccount(a, b)
        \/ \E r \in {"ok", "warning", "unknown", "disabled"} : RecordCheck(a, r)
        \/ \E p \in Proxies : HubPins(a, p)
    \/ \E p \in Proxies : UpdateProxy(p)

AccountSpec == AccountInit /\ [][AccountNext]_accountVars

-----------------------------------------------------------------------------
(* Properties                                                              *)

AccountTypeOK ==
    /\ enabled \subseteq Accounts /\ checkpoint \subseteq Accounts
    /\ pin \in [Accounts -> Proxies \cup {Unpinned}] /\ address \in [Proxies -> Addresses]
    /\ ipType \in [Proxies -> {"static", "rotating", "unknown"}]
    /\ pinning \in [Operators -> SUBSET (Accounts \X Proxies)]
    /\ check \in [Accounts -> {"none", "dead", "ok", "warning", "unknown", "disabled"}]
    /\ touched \subseteq Accounts /\ renewed \subseteq Accounts /\ overtaken \subseteq Operators
    /\ unchecked \subseteq Accounts /\ edits \in 0 .. MaxEdits

\* No two accounts of the pool are pinned to one address, whichever rows of proxies have it and
\* whoever pins them: unless one of them came back to the pool with the pin it had, its proxy was
\* edited under it, or its request overtaken another, for none of these looks at the address again.
OneAddressEach ==
    \A a, b \in Accounts :
        a # b /\ InPool(a) /\ InPool(b) /\ pin[a] # Unpinned /\ pin[b] # Unpinned /\ address[pin[a]] = address[pin[b]]
            => a \in unchecked \/ b \in unchecked

\* A session that spider-hub has called dead stays so for every health check, until there is a new
\* cookie: no other change of the account brings it back.
DeadUntilCookie ==
    [][\A a \in Accounts : check[a] = "dead" /\ a \notin renewed => check'[a] = "dead"]_accountVars
=============================================================================
