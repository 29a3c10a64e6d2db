------------------------------ MODULE Devices -------------------------------
(***************************************************************************)
(* The device registry of p4n4-api (devices.py, routes/devices.py), the    *)
(* exchange of an API key for a token (POST /auth/token with api_key) and  *)
(* the check of device tokens in current_user.                             *)
(*                                                                         *)
(* A handler is a read step and one atomic write step, as in Sessions: the *)
(* SELECTs come before the transaction, which begins at the first INSERT,  *)
(* UPDATE or DELETE, and argon2 runs in between.  Requests of admins are   *)
(* taken as allowed (Sessions has that check).                             *)
(***************************************************************************)
EXTENDS Naturals

CONSTANTS
  Ids,        \* device ids
  Requests,   \* requests in progress at the same time
  AccessTTL,  \* lifetime of a token
  None,
  MaxKeys, MaxTime   \* bounds: API keys made, clock

ASSUME TTLAssumption == AccessTTL \in Nat \ {0}
ASSUME BoundsAssumption == MaxKeys \in Nat /\ MaxTime \in Nat

VARIABLES
  devices,  \* the table, by id; `life` (history) numbers the registrations
  keys,     \* how many API keys were made
  lives,    \* history: how many registrations there were
  tokens,   \* the tokens that have not expired; `key` and `life` are history
  now,
  audit,    \* the entry the last step added to audit_log, or None
  req       \* what each request in progress has read and will do

vars == <<devices, keys, lives, tokens, now, audit, req>>

\* An API key has the number it was made under (a random key_id and secret in the code).
Device == [key: Nat, gen: Nat, enabled: BOOLEAN, life: Nat]
NoDevice == [key |-> 0, gen |-> 0, enabled |-> FALSE, life |-> 0]

Token == [sub: Ids, gen: Nat, key: Nat, life: Nat, exp: Nat]
Idle == [op |-> "idle"]
Request ==
  {Idle}
  \cup [op: {"exchange"}, sub: Ids, seen: Device]   \* the key verified on the row seen
  \cup [op: {"found"}, sub: Ids]                    \* _existing
Entry == [action: {"create", "update", "rotate_key", "delete"}, target: Ids]

\* The values of the table, of the tokens devices hold and of the requests in progress.
TypeOK ==
  /\ devices \in [Ids -> Device]
  /\ keys \in Nat /\ lives \in Nat /\ now \in Nat
  /\ tokens \subseteq Token
  /\ audit \in Entry \cup {None}
  /\ req \in [Requests -> Request]

Registered(d) == devices[d].life # 0

\* current_user: a genuine, unexpired token of a device that is there and enabled, with the
\* key generation of its row.
Accepted(t) ==
  /\ t.exp > now
  /\ Registered(t.sub) /\ devices[t.sub].enabled
  /\ t.gen = devices[t.sub].gen

-----------------------------------------------------------------------------
Become(p, r) == req' = [req EXCEPT ![p] = r]
Done(p) == Become(p, Idle)
Audited(action, d) == audit' = [action |-> action, target |-> d]
Unchanged == UNCHANGED <<devices, keys, lives, tokens, now>> /\ audit' = None

\* Refused, or rolled back: database locked, process killed, the row of an update gone.
Fail(p) ==
  /\ req[p] # Idle
  /\ Done(p)
  /\ Unchanged

\* authenticate: the row of the key ...
KeyRead(p, d) ==
  /\ req[p] = Idle
  /\ Registered(d) /\ devices[d].enabled
  /\ Become(p, [op |-> "exchange", sub |-> d, seen |-> devices[d]])
  /\ Unchanged

\* ... then last_seen_at, of the row if it is still there, and a token for the row read.
\* A defect to test the properties with: the generation is read again for the token.
TokenOfRow(d, seen) ==
  [sub |-> d, gen |-> devices[d].gen, key |-> seen.key, life |-> seen.life,
   exp |-> now + AccessTTL]
TokenFor(d, seen) ==
  [sub |-> d, gen |-> seen.gen, key |-> seen.key, life |-> seen.life, exp |-> now + AccessTTL]

KeyWrite(p) ==
  /\ req[p].op = "exchange"
  /\ tokens' = tokens \cup {TokenFor(req[p].sub, req[p].seen)}
  /\ Done(p)
  /\ audit' = None
  /\ UNCHANGED <<devices, keys, lives, now>>

Create(d) ==
  /\ ~Registered(d)
  /\ keys < MaxKeys
  /\ keys' = keys + 1 /\ lives' = lives + 1
  /\ devices' = [devices EXCEPT ![d] =
       [key |-> keys + 1, gen |-> 0, enabled |-> TRUE, life |-> lives + 1]]
  /\ Audited("create", d)
  /\ UNCHANGED <<tokens, now, req>>

Find(p, d) ==
  /\ req[p] = Idle
  /\ Registered(d)
  /\ Become(p, [op |-> "found", sub |-> d])
  /\ Unchanged

\* update_device: `enabled`, or None when only the name or the description changes.  The
\* answer reads the row again, and fails with everything rolled back when it is gone.
\* A defect to test the properties with: enabling starts a new generation.
EnabledAnew(dev, enabled) == [dev EXCEPT !.enabled = enabled, !.gen = @ + 1]
WithEnabled(dev, enabled) == [dev EXCEPT !.enabled = enabled]

Update(p, enabled) ==
  /\ req[p].op = "found"
  /\ LET d == req[p].sub IN
     /\ Registered(d)
     /\ devices' = IF enabled = None THEN devices
                   ELSE [devices EXCEPT ![d] = WithEnabled(@, enabled)]
     /\ Audited("update", d)
  /\ Done(p)
  /\ UNCHANGED <<keys, lives, tokens, now>>

\* A defect to test the properties with: the tokens of the old key stay good.
SameGeneration(dev) == [dev EXCEPT !.key = keys + 1]
WithNewKey(dev) == [dev EXCEPT !.key = keys + 1, !.gen = @ + 1]

\* A defect to test the properties with: the row is not read again for the answer.
RotateUnread(p) ==
  /\ req[p].op = "found" /\ keys < MaxKeys
  /\ LET d == req[p].sub IN
     /\ devices' = IF Registered(d) THEN [devices EXCEPT ![d] = WithNewKey(@)] ELSE devices
     /\ Audited("rotate_key", d)
  /\ keys' = keys + 1
  /\ Done(p)
  /\ UNCHANGED <<lives, tokens, now>>

Rotate(p) ==
  /\ req[p].op = "found" /\ keys < MaxKeys
  /\ LET d == req[p].sub IN
     /\ Registered(d)
     /\ devices' = [devices EXCEPT ![d] = WithNewKey(@)]
     /\ Audited("rotate_key", d)
  /\ keys' = keys + 1
  /\ Done(p)
  /\ UNCHANGED <<lives, tokens, now>>

\* delete_device answers 204, with an audit entry, also when the device is already gone.
Delete(p) ==
  /\ req[p].op = "found"
  /\ devices' = [devices EXCEPT ![req[p].sub] = NoDevice]
  /\ Audited("delete", req[p].sub)
  /\ Done(p)
  /\ UNCHANGED <<keys, lives, tokens, now>>

Tick ==
  /\ now < MaxTime
  /\ now' = now + 1
  /\ tokens' = {t \in tokens : t.exp > now + 1}
  /\ audit' = None
  /\ UNCHANGED <<devices, keys, lives, req>>

Init ==
  /\ devices = [d \in Ids |-> NoDevice]
  /\ keys = 0 /\ lives = 0 /\ tokens = {} /\ now = 0
  /\ audit = None
  /\ req = [p \in Requests |-> Idle]

RequestStep(p) ==
  \/ \E d \in Ids : KeyRead(p, d) \/ Find(p, d)
  \/ KeyWrite(p)
  \/ \E enabled \in BOOLEAN \cup {None} : Update(p, enabled)
  \/ Rotate(p)
  \/ Delete(p)
  \/ Fail(p)

Next ==
  \/ \E p \in Requests : RequestStep(p)
  \/ \E d \in Ids : Create(d)
  \/ Tick

Spec == Init /\ [][Next]_vars

-----------------------------------------------------------------------------
(* Properties *)

\* rotate_key: "The old key and every token issued from it stop working at once", also a
\* token issued for the old key after the rotation, by an exchange that had read the row
\* before.  Within one registration, a token that is accepted was issued for the current key.
RotationEndsTokens ==
  \A t \in tokens :
    Accepted(t) /\ t.life = devices[t.sub].life => t.key = devices[t.sub].key

\* README: disabling is a pause, "re-enabling makes its current key and tokens valid again".
\* No sequence of changes loses a token of the current key of an enabled device.
CurrentTokensWork ==
  \A t \in tokens :
    devices[t.sub].enabled /\ t.key = devices[t.sub].key => Accepted(t)

\* An update or a rotation is in the audit log only if the device is there as it is written, in
\* the registration it then has, whatever deletions run between finding the device and writing
\* it.  That may be a later registration than the one found, which gets the change then.
AuditedChangesHappened ==
  [][audit' # None /\ audit'.action \in {"update", "rotate_key"}
     => /\ devices'[audit'.target].life # 0
        /\ devices'[audit'.target].life = devices[audit'.target].life]_vars

\* delete_device: "Its key and tokens stop working at once": a token that is accepted was
\* issued for the current key of the device, whatever happened to the device since.
AcceptedTokensHaveTheKey ==
  \A t \in tokens : Accepted(t) => t.key = devices[t.sub].key
=============================================================================
