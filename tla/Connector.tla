----------------------------- MODULE Connector -----------------------------
(***************************************************************************)
(* The MCP connector (holonbridge_mcp): the OAuth server that signs a      *)
(* client in behind GitHub (github_oauth.py), the gate in front of the     *)
(* transports (remote.py, identity.py), and each caller's own choice of    *)
(* dataset and bank (session.py, tools/datasets.py, tools/banks.py).       *)
(* A handler without an await is one step.  GitHub, the browser and the    *)
(* MCP client are outside src/: answers may be lost and requests retried.  *)
(***************************************************************************)
EXTENDS Integers, Sequences, FiniteSets

CONSTANTS
  Clients, Logins,
  Kinds,        \* what a caller may choose: "dataset", "bank"
  Names,        \* the names there are to choose
  Pinned,       \* HOLONBRIDGE_DATASET and HOLONBRIDGE_BANK
  Static,       \* whether MCP_INBOUND_TOKEN is set
  Durable,      \* whether MCP_DATA_DIR is set
  AccessTTL,    \* MCP_JWT_TTL_SECONDS, in ticks
  MaxFamilies,  \* bound on sign-ins
  MaxTokens,    \* bound on the refresh tokens of one sign-in
  MaxHappened   \* bound on what clients, operators and clocks do

Shared == "shared token"   \* the None of current_github_login
None   == "none"           \* no override: the empty string
Unread == "unread"         \* an identity session.py has not yet met
Either == "any"            \* a choice whose file could not be written

ASSUME ConnectorAssumption ==
  /\ Shared \notin Logins
  /\ Pinned \in [Kinds -> Names \cup {None}]
  /\ Names \cap {None, Unread, Either} = {}
  /\ Static \in BOOLEAN /\ Durable \in BOOLEAN
  /\ AccessTTL \in Nat \ {0}
  /\ MaxFamilies \in Nat /\ MaxTokens \in Nat \ {0} /\ MaxHappened \in Nat

VARIABLES
  allowed,  \* allowed_logins, fixed for the life of a process
  since,    \* ticks since each login was last allowed
  reg,      \* the clients the clients table knows
  flow,     \* the handshake of each client: pending, then codes
  fams,     \* the refresh_tokens table, by family
  held,     \* the refresh token each client has
  access,   \* the access token each client has
  sse,      \* the identity each open SSE connection was made with
  running,  \* the tool call each client has running
  mem,      \* _dataset_overrides, _bank_overrides
  file,     \* their state files
  chosen,   \* what each caller last chose
  unsaved,  \* the callers whose last choice could not be written
  happened  \* how much has happened so far

oauth   == <<allowed, since, reg, flow, fams, held, access>>
session == <<mem, file, chosen, unsaved>>
connectorVars == <<oauth, sse, running, session, happened>>

Callers == Logins \cup {Shared}
NoFlow  == [phase |-> "none", login |-> Shared]
NoToken == [fam |-> 0, gen |-> 0]
NoTask  == [op |-> "none", via |-> "http", who |-> Shared, poster |-> Shared,
            kind |-> "dataset", name |-> None]
Nothing == [who |-> Shared, left |-> 0]

Flows    == [phase : {"none", "pending", "github", "code"}, login : Callers]
Families == [client : Clients, login : Logins, toks : Seq({"live", "used"}),
             expired : Nat, purged : Nat, revoked : BOOLEAN, replayed : BOOLEAN]
ToolCalls == [op : {"none", "call", "switch", "check"}, via : {"http", "sse"},
              who : Callers, poster : Callers, kind : Kinds \cup {"dataset"},
              name : Names \cup {None}]

ConnectorTypeOK ==
  /\ allowed \subseteq Logins
  /\ since \in [Logins -> 0..AccessTTL]
  /\ reg \subseteq Clients
  /\ flow \in [Clients -> Flows]
  /\ fams \in Seq(Families)
  /\ held \in [Clients -> [fam : 0..MaxFamilies, gen : 0..MaxTokens]]
  /\ access \in [Clients -> [who : Callers, left : 0..AccessTTL]]
  /\ sse \in [Clients -> Callers \cup {None}]
  /\ running \in [Clients -> ToolCalls]
  /\ mem \in [Kinds -> [Callers -> Names \cup {None, Unread}]]
  /\ file \in [Kinds -> [Callers -> Names \cup {None}]]
  /\ chosen \in [Kinds -> [Callers -> Names \cup {None, Either}]]
  /\ unsaved \subseteq Kinds \X Callers
  /\ happened \in 0..MaxHappened

Everyone(x) == [k \in Kinds |-> [i \in Callers |-> x]]

ConnectorInit ==
  /\ allowed = Logins /\ since = [l \in Logins |-> 0]
  /\ reg = Clients /\ flow = [c \in Clients |-> NoFlow]
  /\ fams = <<>>
  /\ held = [c \in Clients |-> NoToken] /\ access = [c \in Clients |-> Nothing]
  /\ sse = [c \in Clients |-> None] /\ running = [c \in Clients |-> NoTask]
  /\ mem = Everyone(Unread) /\ file = Everyone(None)
  /\ chosen = [k \in Kinds |-> [i \in Callers |-> Pinned[k]]] /\ unsaved = {}
  /\ happened = 0

-----------------------------------------------------------------------------
(* Signing in.                                                             *)

Register(c) ==
  /\ c \notin reg
  /\ reg' = reg \cup {c}
  /\ held' = [held EXCEPT ![c] = NoToken]        \* its client_id is a new one
  /\ UNCHANGED <<allowed, since, flow, fams, access, sse, running, session>>

(* authorize stashes the request; without a registration it is refused.    *)
Authorize(c) ==
  /\ c \in reg /\ flow[c] = NoFlow /\ Len(fams) < MaxFamilies
  /\ flow' = [flow EXCEPT ![c] = [NoFlow EXCEPT !.phase = "pending"]]
  /\ UNCHANGED <<allowed, since, reg, fams, held, access, sse, running, session>>

(* github_callback takes the stashed request, once, and asks GitHub who    *)
(* is at the browser ...                                                   *)
Callback(c, l) ==
  /\ flow[c].phase = "pending"
  /\ flow' = [flow EXCEPT ![c] = [phase |-> "github", login |-> l]]
  /\ UNCHANGED <<allowed, since, reg, fams, held, access, sse, running, session>>

(* ... and issues a code if the login is on the allowlist; or denies.      *)
IssueCode(c) ==
  /\ flow[c].phase = "github"
  /\ \/ flow[c].login \in allowed /\ flow' = [flow EXCEPT ![c].phase = "code"]
     \/ flow' = [flow EXCEPT ![c] = NoFlow]
  /\ UNCHANGED <<allowed, since, reg, fams, held, access, sse, running, session>>

(* put_refresh drops what has expired, in every family.                    *)
Purged(f) == [f EXCEPT !.purged = f.expired]

(* Mutant: the family does not say whose it is.                            *)
Nameless(c, l) == [client |-> c, login |-> Shared, toks |-> <<"live">>, expired |-> 0,
                   purged |-> 0, revoked |-> FALSE, replayed |-> FALSE]

NewFamily(c, l) == [client |-> c, login |-> l, toks |-> <<"live">>, expired |-> 0,
                    purged |-> 0, revoked |-> FALSE, replayed |-> FALSE]

(* The code grant: the code is gone whatever the answer; a wrong redirect  *)
(* URI, client or verifier is refused, and a good answer may be lost.      *)
TokenGrant(c, delivered) ==
  /\ flow[c].phase = "code"
  /\ flow' = [flow EXCEPT ![c] = NoFlow]
  /\ \/ /\ Len(fams) < MaxFamilies
        /\ fams' = Append([i \in DOMAIN fams |-> Purged(fams[i])], NewFamily(c, flow[c].login))
        /\ IF delivered
             THEN /\ held' = [held EXCEPT ![c] = [fam |-> Len(fams) + 1, gen |-> 1]]
                  /\ access' = [access EXCEPT ![c] = [who |-> flow[c].login, left |-> AccessTTL]]
             ELSE UNCHANGED <<held, access>>
     \/ UNCHANGED <<fams, held, access>>
  /\ UNCHANGED <<allowed, since, reg, sse, running, session>>

-----------------------------------------------------------------------------
(* rotate_refresh: one transaction.  A token presented under a client_id   *)
(* other than its own is refused, and no more.  One that is used, or of a  *)
(* revoked family, takes the family with it; so does a login no longer     *)
(* allowed.                                                                *)

Known(f, g) == f.purged < g /\ g <= Len(f.toks)
Spent(f, g) == f.toks[g] = "used" \/ f.revoked

(* Mutant: a used token is refused, and its family left alone.             *)
RotatedQuietly(f, g, id) ==
  IF ~Known(f, g) \/ f.client # id THEN f
  ELSE IF Spent(f, g) THEN [f EXCEPT !.replayed = TRUE]
  ELSE IF g <= f.expired THEN f
  ELSE IF f.login \notin allowed THEN [f EXCEPT !.revoked = TRUE]
  ELSE [f EXCEPT !.toks = Append([@ EXCEPT ![g] = "used"], "live")]

(* Mutant: the allowlist is not read again.                                *)
RotatedForAnyone(f, g, id) ==
  IF ~Known(f, g) \/ f.client # id THEN f
  ELSE IF Spent(f, g) THEN [f EXCEPT !.revoked = TRUE, !.replayed = TRUE]
  ELSE IF g <= f.expired THEN f
  ELSE [f EXCEPT !.toks = Append([@ EXCEPT ![g] = "used"], "live")]

Rotated(f, g, id) ==
  IF ~Known(f, g) \/ f.client # id THEN f
  ELSE IF Spent(f, g) THEN [f EXCEPT !.revoked = TRUE, !.replayed = TRUE]
  ELSE IF g <= f.expired THEN f
  ELSE IF f.login \notin allowed THEN [f EXCEPT !.revoked = TRUE]
  ELSE [f EXCEPT !.toks = Append([@ EXCEPT ![g] = "used"], "live")]

(* A client presents its token, or the one before it: a retry of a request *)
(* whose answer was lost, or a second copy of the client.  It does so      *)
(* under its own client_id or, mistakenly, under another registered one.   *)
Refresh(c, id, back, delivered) ==
  LET t == held[c]
      g == t.gen - back
      f == fams[t.fam]
      n == Rotated(f, g, id)
      won == Len(n.toks) > Len(f.toks)
  IN /\ t # NoToken /\ g > 0 /\ t.fam <= Len(fams)
     /\ Len(n.toks) <= MaxTokens
     /\ id \in reg
     /\ fams' = [fams EXCEPT ![t.fam] = n]
     /\ IF won /\ delivered
          THEN /\ held' = [held EXCEPT ![c].gen = Len(n.toks)]
               /\ access' = [access EXCEPT ![c] = [who |-> f.login, left |-> AccessTTL]]
          ELSE UNCHANGED <<held, access>>
     /\ UNCHANGED <<allowed, since, reg, flow, sse, running, session>>

-----------------------------------------------------------------------------
(* The gate, and the tool call behind it.                                  *)

(* Who the credentials of a client may prove it to be, to _authorised.     *)
Proves(c) == {p \in Callers : IF p = Shared THEN Static
                              ELSE p = access[c].who /\ access[c].left > 0}

(* A connection, or another in its place: who it was made as is settled.   *)
OpenSse(c, p) ==
  /\ p \in Proves(c)
  /\ sse' = [sse EXCEPT ![c] = p]
  /\ UNCHANGED <<oauth, running, session>>

(* current_github_login in the task that serves the request: for SSE, the  *)
(* context of the connection; for Streamable HTTP, of the request.         *)
RunsAs(c, via, p) == IF via = "sse" THEN sse[c] ELSE p

(* A tool is called: any of them, or switch_dataset or switch_bank.        *)
Begin(c, via, p, op, k, n) ==
  /\ running[c] = NoTask /\ p \in Proves(c)
  /\ via = "sse" => sse[c] # None
  /\ op = "call" => k = "dataset" /\ n = None
  /\ running' = [running EXCEPT ![c] = [op |-> op, via |-> via, who |-> RunsAs(c, via, p),
                                        poster |-> p, kind |-> k, name |-> n]]
  /\ UNCHANGED <<oauth, sse, session>>

(* _ensure_dataset_override_loaded: an identity met for the first time     *)
(* gets the pin, or what its file holds.                                   *)
Effective(k, i) ==
  IF mem[k][i] # Unread THEN mem[k][i] ELSE IF Pinned[k] # None THEN Pinned[k] ELSE file[k][i]

(* _call reads both overrides and sends; a file that cannot be read counts *)
(* as none, for the rest of the process.                                   *)
Send(c, readable) ==
  LET i == running[c].who
      unread(k) == ~readable /\ mem[k][i] = Unread /\ Pinned[k] = None
  IN /\ running[c].op = "call" \/ (running[c].op = "switch" /\ running[c].name # None)
     /\ mem' = [k \in Kinds |-> [mem[k] EXCEPT ![i] =
                  IF unread(k) THEN None ELSE Effective(k, i)]]
     /\ chosen' = [k \in Kinds |-> [chosen[k] EXCEPT ![i] = IF unread(k) THEN Either ELSE @]]
     /\ running' = [running EXCEPT ![c] =
                      IF @.op = "call" THEN NoTask ELSE [@ EXCEPT !.op = "check"]]
     /\ UNCHANGED <<oauth, sse, file, unsaved>>

(* Mutant: clearing leaves the state file behind.                          *)
WriteOnly(k, i, n, saved) ==
  file' = [file EXCEPT ![k][i] = IF saved /\ n # None THEN n ELSE @]

Persist(k, i, n, saved) ==
  file' = [file EXCEPT ![k][i] = IF saved THEN n ELSE @]

(* set_dataset_override, set_bank_override                                 *)
SetOverride(c, saved) ==
  LET k == running[c].kind  i == running[c].who  n == running[c].name IN
  /\ mem' = [mem EXCEPT ![k][i] = n]
  /\ Persist(k, i, n, saved)
  /\ chosen' = [chosen EXCEPT ![k][i] = n]
  /\ unsaved' = IF saved THEN unsaved \ {<<k, i>>} ELSE unsaved \cup {<<k, i>>}

(* The empty name clears, then reads /endpoint, which changes nothing.     *)
Clear(c, saved) ==
  /\ running[c].op = "switch" /\ running[c].name = None
  /\ SetOverride(c, saved)
  /\ running' = [running EXCEPT ![c] = NoTask]
  /\ UNCHANGED <<oauth, sse>>

(* The bridge answers: the name is one it knows, or not, or it failed.     *)
Checked(c, saved) ==
  /\ running[c].op = "check"
  /\ SetOverride(c, saved) \/ UNCHANGED session
  /\ running' = [running EXCEPT ![c] = NoTask]
  /\ UNCHANGED <<oauth, sse>>

-----------------------------------------------------------------------------
(* Clocks, operators and crashes.                                          *)

Tick ==
  /\ access' = [c \in Clients |-> IF access[c].left > 1 THEN [access[c] EXCEPT !.left = @ - 1]
                                  ELSE Nothing]
  /\ since' = [l \in Logins |-> IF l \in allowed THEN 0
                                ELSE IF since[l] < AccessTTL THEN since[l] + 1 ELSE AccessTTL]
  /\ UNCHANGED <<allowed, reg, flow, fams, held, sse, running, session>>

(* A handshake outlives PENDING_AUTH_TTL or ISSUED_CODE_TTL; a client its  *)
(* registration; a refresh token refresh_ttl_seconds, the oldest first.    *)
TimeOut(c) ==
  /\ \/ flow[c].phase \in {"pending", "code"} /\ flow' = [flow EXCEPT ![c] = NoFlow] /\ UNCHANGED <<reg, fams>>
     \/ reg' = reg \ {c} /\ UNCHANGED <<flow, fams>>
     \/ \E f \in DOMAIN fams :
          /\ fams[f].expired < Len(fams[f].toks)
          /\ fams' = [fams EXCEPT ![f].expired = @ + 1]
          /\ UNCHANGED <<flow, reg>>
  /\ UNCHANGED <<allowed, since, held, access, sse, running, session>>

(* The process dies, or is restarted with another MCP_ALLOWED_GITHUB_LOGINS;*)
(* the signing key stays, so access tokens stay good.                      *)
Restart(logins) ==
  /\ allowed' = logins
  /\ since' = [l \in Logins |-> IF l \in logins \cup allowed THEN 0 ELSE since[l]]
  /\ flow' = [c \in Clients |-> NoFlow]
  /\ sse' = [c \in Clients |-> None] /\ running' = [c \in Clients |-> NoTask]
  /\ IF Durable THEN UNCHANGED <<reg, fams, held>>
     ELSE reg' = {} /\ fams' = <<>> /\ held' = [c \in Clients |-> NoToken]
  /\ mem' = Everyone(Unread)
  /\ chosen' = [k \in Kinds |-> [i \in Callers |->
                  IF Pinned[k] # None THEN Pinned[k]
                  ELSE IF <<k, i>> \in unsaved THEN Either ELSE chosen[k][i]]]
  /\ unsaved' = {}
  /\ UNCHANGED <<access, file>>

-----------------------------------------------------------------------------
ConnectorSteps ==
  \E c \in Clients :
    \/ IssueCode(c)
    \/ \E b \in BOOLEAN : TokenGrant(c, b) \/ Send(c, b) \/ Clear(c, b) \/ Checked(c, b)

Happenings ==
  \/ \E c \in Clients :
       \/ Register(c) \/ Authorize(c) \/ TimeOut(c)
       \/ \E l \in Logins : Callback(c, l)
       \/ \E id \in Clients, back \in {0, 1}, d \in BOOLEAN : Refresh(c, id, back, d)
       \/ \E p \in Callers :
            \/ OpenSse(c, p)
            \/ \E via \in {"http", "sse"}, op \in {"call", "switch"}, k \in Kinds,
                 n \in Names \cup {None} : Begin(c, via, p, op, k, n)
  \/ Tick
  \/ \E logins \in SUBSET Logins : logins # {} /\ Restart(logins)

ConnectorNext ==
  \/ ConnectorSteps /\ UNCHANGED happened
  \/ happened < MaxHappened /\ Happenings /\ happened' = happened + 1

ConnectorSpec == ConnectorInit /\ [][ConnectorNext]_connectorVars

-----------------------------------------------------------------------------
(* verify_session_token: "revocation takes effect within one access-token  *)
(* lifetime".  A call that runs as the identity its own request proved     *)
(* began less than AccessTTL ticks after that login was last allowed,      *)
(* whatever refreshes, restarts and lost answers came in between.  On SSE  *)
(* a call runs as whoever opened the connection, who may be somebody else. *)
RevokedLoginStops ==
  [][\A c \in Clients :
       (running[c] = NoTask /\ running'[c] # NoTask) =>
         LET t == running'[c] IN
         (t.who \in Logins /\ (t.via = "http" \/ t.who = t.poster)) =>
           since[t.who] < AccessTTL]_connectorVars

(* "a replayed one revokes its whole family": once a spent refresh token   *)
(* has been presented under its own client_id nobody can renew from its    *)
(* family again, so a copied token is worth nothing after its owner's next *)
(* refresh; and of one family at most one token is ever good.              *)
ReplayEndsFamily ==
  \A i \in DOMAIN fams :
    LET f == fams[i]
        good == {g \in DOMAIN f.toks : ~Spent(f, g) /\ Known(f, g)}
    IN Cardinality(good) <= (IF f.replayed THEN 0 ELSE 1)

(* A caller's calls go where that caller last chose: nobody else's choice, *)
(* no restart and no second session moves them, unless the choice could    *)
(* not be written or read back, or the operator pins one.                  *)
ChoiceIsKept ==
  \A k \in Kinds, i \in Callers : chosen[k][i] \in {Effective(k, i), Either}

=============================================================================
