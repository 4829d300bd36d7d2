---------------------------- MODULE ShareTokens ----------------------------
(***************************************************************************)
(* Share tokens (internal/share, internal/server/tokens.go and             *)
(* download.go): the table "tokens", creation and revocation, and the      *)
(* downloads under /share/..., each of which reads the token, decides      *)
(* whether it is usable, and writes the incremented usage counter back in  *)
(* a later statement.  A subscription or collection is converted between   *)
(* the two (up to 60 seconds); a file is read after the second.            *)
(*                                                                         *)
(* A token authorises one (type, name); the name and the output format are *)
(* not modelled, the type is, because the paths differ.  Whether the       *)
(* shared thing still exists and converts is left open.                    *)
(***************************************************************************)
EXTENDS Integers

CONSTANTS
    Clients,        \* share downloads in flight at a time
    Tokens,         \* the strings RandomToken may draw
    Requests,       \* what clients ask of POST /api/token
    BasePath,       \* whether base_path puts a prefix before every route
    DefaultSeconds, \* the validity of a token created without a duration
    MaxTime,        \* last instant of the clock
    MaxServed       \* downloads answered, and texts produced, per token

Types == {"sub", "col", "file"}
Modes == {"duration", "datetime", "count", "other"}  \* the mode is not validated

TokenRequest == [type : Types, mode : Modes \cup {""},
                 seconds : Int, permanent : BOOLEAN, exp : Int, count : Int]

ASSUME TokensAssumptions ==
    /\ Tokens # {}
    /\ Requests \subseteq TokenRequest
    /\ DefaultSeconds \in Nat \ {0}
    /\ MaxTime \in Nat /\ MaxServed \in Nat
    /\ BasePath \in BOOLEAN

VARIABLES
    tokens,   \* the table: token -> document
    drawn,    \* strings RandomToken has returned; it never repeats one
    now,      \* wall clock
    d,        \* where each download is, and the token document it read
    produced, \* how many conversions for a token came to a text
    served    \* how many downloads of a token were answered with content

vars == <<tokens, drawn, now, d, produced, served>>

Token == [type : Types, mode : Modes, exp : Nat, count : Nat, used : Nat]

NoToken == [type |-> "sub", mode |-> "duration", exp |-> 0, count |-> 0, used |-> 0]

DIdle == [pc |-> "idle", token |-> CHOOSE k \in Tokens : TRUE, rec |-> NoToken]

Init ==
    /\ tokens = [k \in {} |-> NoToken]
    /\ drawn = {}
    /\ now = 1
    /\ d = [c \in Clients |-> DIdle]
    /\ produced = [k \in Tokens |-> 0]
    /\ served = [k \in Tokens |-> 0]

-----------------------------------------------------------------------------
(* Creation and revocation.                                                *)

\* Exp of a new token; 0 means that it never expires.
Expiry(req) ==
    CASE req.mode \in {"", "duration"} ->
           IF req.permanent \/ req.seconds < 0 THEN 0
           ELSE now + (IF req.seconds = 0 THEN DefaultSeconds ELSE req.seconds)
      [] req.mode = "datetime" -> IF req.exp > 0 THEN req.exp ELSE 0
      [] OTHER -> 0

BuildTokenKeepsMode(req) ==
    [type  |-> req.type,
     mode  |-> req.mode,
     exp   |-> Expiry(req),
     count |-> IF req.mode = "count" /\ req.count > 0 THEN req.count ELSE 0,
     used  |-> 0]

BuildTokenPayload(req) ==
    [type  |-> req.type,
     mode  |-> IF req.mode = "" THEN "duration" ELSE req.mode,
     exp   |-> Expiry(req),
     count |-> IF req.mode = "count" /\ req.count > 0 THEN req.count ELSE 0,
     used  |-> 0]

handleCreateToken(req) ==
    \E k \in Tokens \ drawn :
        /\ drawn' = drawn \cup {k}
        /\ tokens' = [j \in DOMAIN tokens \cup {k} |->
                         IF j = k THEN BuildTokenPayload(req) ELSE tokens[j]]
        /\ UNCHANGED <<now, d, produced, served>>

handleDeleteToken(k) ==
    /\ k \in DOMAIN tokens
    /\ tokens' = [j \in DOMAIN tokens \ {k} |-> tokens[j]]
    /\ UNCHANGED <<drawn, now, d, produced, served>>

-----------------------------------------------------------------------------
(* A share download.                                                       *)

UsableOffByOne(t) ==
    /\ ~ (t.exp > 0 /\ t.exp <= now)
    /\ t.mode = "count" => t.count > 0 /\ t.used <= t.count

Usable(t) ==
    /\ ~ (t.exp > 0 /\ t.exp <= now)
    /\ t.mode = "count" => t.count > 0 /\ t.used < t.count

Move(c, state) == d' = [d EXCEPT ![c] = state]

\* The type a request is for, from the route it came in by, /share/sub,
\* /share/col or /share/file: the handler looks for "/share/col" and
\* "/share/file" at the very beginning of the path.
Kind(route) == IF BasePath THEN "sub" ELSE route

\* The lookup that matches the token with the requested type and name.
handleShareDownload(c, k, route) ==
    /\ d[c] = DIdle
    /\ k \in DOMAIN tokens /\ served[k] < MaxServed /\ produced[k] < MaxServed
    /\ tokens[k].type = Kind(route)
    /\ Move(c, [pc |-> "check", token |-> k, rec |-> NoToken])
    /\ UNCHANGED <<tokens, drawn, now, produced, served>>

\* UPDATE tokens SET data = ? WHERE token = ?: a revoked token stays revoked.
UpdateTokenUpserts(k, rec) ==
    tokens' = [j \in DOMAIN tokens \cup {k} |-> IF j = k THEN rec ELSE tokens[j]]

UpdateToken(k, rec) ==
    tokens' = [j \in DOMAIN tokens |-> IF j = k THEN rec ELSE tokens[j]]

Consumed(rec) == [rec EXCEPT !.used = @ + 1]

\* Resolve converts first and charges last; CheckAndConsume charges at once.
AfterCheck(t) == IF t.type # "file" THEN "convert"
                 ELSE IF t.mode = "count" THEN "consume" ELSE "getFile"

\* The second read of the token, by CheckAndConsume or by Resolve: a token
\* that is gone or not usable ends the download.
Check(c) ==
    LET k == d[c].token IN
    /\ d[c].pc = "check"
    /\ IF k \in DOMAIN tokens /\ Usable(tokens[k])
       THEN Move(c, [pc |-> AfterCheck(tokens[k]), token |-> k, rec |-> tokens[k]])
       ELSE Move(c, DIdle)
    /\ UNCHANGED <<tokens, drawn, now, produced, served>>

\* CheckAndConsume, the write: an error ends the download.
Consume(c) ==
    /\ d[c].pc = "consume"
    /\ \/ /\ UpdateToken(d[c].token, Consumed(d[c].rec))
          /\ Move(c, [d[c] EXCEPT !.pc = "getFile"])
       \/ Move(c, DIdle) /\ UNCHANGED tokens
    /\ UNCHANGED <<drawn, now, produced, served>>

\* shareDownloadFile: the file may be gone, after its token was charged.
GetFile(c) ==
    /\ d[c].pc = "getFile"
    /\ \/ Move(c, [d[c] EXCEPT !.pc = "answer"])
       \/ Move(c, DIdle)
    /\ UNCHANGED <<tokens, drawn, now, produced, served>>

AfterConvert(t) == IF t.mode = "count" THEN "charge" ELSE "answer"

\* Resolve, from the fetch to the produced text: on any error nothing is
\* charged.
ConvertChargesFirst(c) ==
    /\ d[c].pc = "convert"
    /\ \/ /\ Move(c, [d[c] EXCEPT !.pc = AfterConvert(d[c].rec)])
          /\ produced' = [produced EXCEPT ![d[c].token] = @ + 1]
          /\ UNCHANGED tokens
       \/ /\ UpdateToken(d[c].token, Consumed(d[c].rec))
          /\ Move(c, DIdle) /\ UNCHANGED produced
    /\ UNCHANGED <<drawn, now, served>>

Convert(c) ==
    /\ d[c].pc = "convert"
    /\ \/ /\ Move(c, [d[c] EXCEPT !.pc = AfterConvert(d[c].rec)])
          /\ produced' = [produced EXCEPT ![d[c].token] = @ + 1]
       \/ Move(c, DIdle) /\ UNCHANGED produced
    /\ UNCHANGED <<tokens, drawn, now, served>>

\* Resolve, the write: its error is ignored and the text is sent anyway.
Charge(c) ==
    /\ d[c].pc = "charge"
    /\ \/ UpdateToken(d[c].token, Consumed(d[c].rec))
       \/ UNCHANGED tokens
    /\ Move(c, [d[c] EXCEPT !.pc = "answer"])
    /\ UNCHANGED <<drawn, now, produced, served>>

\* The handler sends the content.
Answer(c) ==
    /\ d[c].pc = "answer"
    /\ served' = [served EXCEPT ![d[c].token] = @ + 1]
    /\ Move(c, DIdle)
    /\ UNCHANGED <<tokens, drawn, now, produced>>

\* A read of the token fails, the client or the deadline cancels the request,
\* or the client is gone when the content is sent.
Abandon(c) ==
    /\ d[c].pc \in {"check", "convert", "answer"}
    /\ Move(c, DIdle)
    /\ UNCHANGED <<tokens, drawn, now, produced, served>>

Advance ==
    /\ now < MaxTime
    /\ now' = now + 1
    /\ UNCHANGED <<tokens, drawn, d, produced, served>>

Restart ==
    /\ d' = [c \in Clients |-> DIdle]
    /\ UNCHANGED <<tokens, drawn, now, produced, served>>

Next ==
    \/ \E req \in Requests : handleCreateToken(req)
    \/ \E k \in Tokens : handleDeleteToken(k)
    \/ \E c \in Clients, k \in Tokens, route \in Types : handleShareDownload(c, k, route)
    \/ \E c \in Clients : \/ Check(c) \/ Consume(c) \/ GetFile(c)
                          \/ Convert(c) \/ Charge(c) \/ Answer(c) \/ Abandon(c)
    \/ Advance
    \/ Restart

Spec == Init /\ [][Next]_vars

-----------------------------------------------------------------------------
(* Properties                                                              *)

\* The types of the variables.
TypeOK ==
    /\ drawn \subseteq Tokens
    /\ DOMAIN tokens \subseteq drawn
    /\ tokens \in [DOMAIN tokens -> Token]
    /\ now \in Nat
    /\ d \in [Clients -> [pc : {"idle", "check", "consume", "getFile", "convert",
                                "charge", "answer"},
                          token : Tokens, rec : Token]]
    /\ produced \in [Tokens -> Nat]
    /\ served \in [Tokens -> Nat]

\* However many downloads hold stale copies of a token and write them back,
\* the counter shown for a count-limited token never exceeds its limit.
UsedWithinCount ==
    \A k \in DOMAIN tokens : tokens[k].mode = "count" => tokens[k].used <= tokens[k].count

\* A conversion that fails, is cancelled or is lost in a restart before its
\* text is there costs nothing: a subscription or collection token is charged
\* at most once for every conversion that came to a text.  (After the charge
\* the answer can still be lost, with the process or with the client.)
OnlyConversionsCost ==
    \A k \in DOMAIN tokens : tokens[k].type # "file" => tokens[k].used <= produced[k]

\* A revoked token is never reinstated, not even by a download that read it
\* before and charges it after the revocation.
RevokedStaysRevoked ==
    [][\A k \in drawn : k \notin DOMAIN tokens => k \notin DOMAIN tokens']_vars

\* CheckAndConsume "atomically increments" the usage of a count-limited token:
\* it is answered at most count times.
ServedWithinCount ==
    \A k \in DOMAIN tokens : tokens[k].mode = "count" => served[k] <= tokens[k].count
=============================================================================
