------------------------- MODULE ShareTokensProofs -------------------------
(***************************************************************************)
(* Proofs about ShareTokens, for any number of downloads, tokens and       *)
(* requests, at any time.                                                  *)
(*                                                                         *)
(* The counter of a token is written from the copy a download took when it *)
(* checked the token, so the invariant Inv speaks of those copies too: a   *)
(* copy that will be charged still has a use left, and, for subscriptions  *)
(* and collections, shows fewer uses than conversions came to a text once  *)
(* its own has, and no more before.                                        *)
(***************************************************************************)
EXTENDS ShareTokens, TLAPS

WithinCount(rec) == rec.mode = "count" => rec.used <= rec.count

HasUseLeft(rec) == rec.mode = "count" => rec.used < rec.count

GoodCopy(s) ==
    /\ s.pc \in {"consume", "convert", "charge"} => HasUseLeft(s.rec)
    /\ s.pc = "consume" => s.rec.type = "file"
    /\ s.pc = "convert" => s.rec.used <= produced[s.token]
    /\ s.pc = "charge" => s.rec.used < produced[s.token]

Inv ==
    /\ TypeOK
    /\ \A k \in DOMAIN tokens : WithinCount(tokens[k])
    /\ \A k \in DOMAIN tokens : tokens[k].type # "file" => tokens[k].used <= produced[k]
    /\ \A c \in Clients : GoodCopy(d[c])

DStates == [pc : {"idle", "check", "consume", "getFile", "convert", "charge",
                  "answer"},
            token : Tokens, rec : Token]

\* A worker without a download is good.
LEMMA IdleGood == DIdle \in DStates /\ GoodCopy(DIdle)
<1>1. (CHOOSE k \in Tokens : TRUE) \in Tokens
  BY TokensAssumptions
<1>2. NoToken \in Token
  BY DEF NoToken, Token, Types, Modes
<1> QED
  BY <1>1, <1>2 DEF DIdle, DStates, GoodCopy

\* A new token has not been used, and its limits are natural numbers.
LEMMA PayloadGood ==
    ASSUME NEW req \in TokenRequest, now \in Nat
    PROVE  /\ BuildTokenPayload(req) \in Token
           /\ BuildTokenPayload(req).used = 0
           /\ WithinCount(BuildTokenPayload(req))
<1>1. Expiry(req) \in Nat
  <2>1. CASE req.mode \in {"", "duration"}
    <3>1. Expiry(req) = IF req.permanent \/ req.seconds < 0 THEN 0
                        ELSE now + (IF req.seconds = 0 THEN DefaultSeconds ELSE req.seconds)
      BY <2>1 DEF Expiry
    <3>2. req.seconds \in Int /\ DefaultSeconds \in Nat
      BY TokensAssumptions DEF TokenRequest
    <3> QED
      BY <3>1, <3>2
  <2>2. CASE req.mode = "datetime"
    <3>1. Expiry(req) = IF req.exp > 0 THEN req.exp ELSE 0
      BY <2>2 DEF Expiry
    <3>2. req.exp \in Int
      BY DEF TokenRequest
    <3> QED
      BY <3>1, <3>2
  <2>3. CASE req.mode \in {"count", "other"}
    BY <2>3 DEF Expiry
  <2> QED
    BY <2>1, <2>2, <2>3 DEF TokenRequest, Modes
<1> DEFINE count == IF req.mode = "count" /\ req.count > 0 THEN req.count ELSE 0
           mode == IF req.mode = "" THEN "duration" ELSE req.mode
<1>2. /\ count \in Nat /\ req.type \in Types
      /\ mode \in Modes
  <2>1. req.count \in Int
    BY DEF TokenRequest
  <2>2. count \in Nat
    BY <2>1
  <2>3. req.type \in Types /\ mode \in Modes
    BY DEF TokenRequest, Modes
  <2> QED
    BY <2>2, <2>3
<1>3. BuildTokenPayload(req) = [type |-> req.type, mode |-> mode, exp |-> Expiry(req),
                                count |-> count, used |-> 0]
  BY DEF BuildTokenPayload
<1> HIDE DEF count, mode
<1> QED
  BY <1>1, <1>2, <1>3 DEF Token, WithinCount

\* Charging a copy with a use left.
LEMMA ConsumedGood ==
    ASSUME NEW rec \in Token, HasUseLeft(rec)
    PROVE  /\ Consumed(rec) \in Token
           /\ WithinCount(Consumed(rec))
           /\ Consumed(rec).used = rec.used + 1
           /\ Consumed(rec).type = rec.type
           /\ Consumed(rec).mode = rec.mode
BY DEF Token, Consumed, HasUseLeft, WithinCount

-----------------------------------------------------------------------------
\* The invariant holds at the start.
LEMMA InitInv == Init => Inv
BY IdleGood, TokensAssumptions DEF Init, Inv, TypeOK, DStates

\* Every step of a download, a handler or a restart keeps it.
LEMMA NextInv == Inv /\ [Next]_vars => Inv'
<1> SUFFICES ASSUME Inv, [Next]_vars PROVE Inv'
  OBVIOUS
<1>0. TypeOK
  BY DEF Inv
<1>1. ASSUME NEW c \in Clients, NEW s \in DStates, GoodCopy(s), Move(c, s),
             UNCHANGED <<tokens, drawn, now, produced, served>>
      PROVE  Inv'
  <2>1. d' \in [Clients -> DStates] /\ \A b \in Clients : GoodCopy(d[b])' 
    BY <1>0, <1>1 DEF Move, TypeOK, DStates, Inv, GoodCopy
  <2> QED
    BY <1>0, <1>1, <2>1 DEF Inv, TypeOK, DStates
<1>2. ASSUME NEW req \in Requests, handleCreateToken(req) PROVE Inv'
  <2>1. PICK k \in Tokens \ drawn :
           /\ drawn' = drawn \cup {k}
           /\ tokens' = [j \in DOMAIN tokens \cup {k} |->
                            IF j = k THEN BuildTokenPayload(req) ELSE tokens[j]]
           /\ UNCHANGED <<now, d, produced, served>>
    BY <1>2 DEF handleCreateToken
  <2>2. /\ BuildTokenPayload(req) \in Token /\ BuildTokenPayload(req).used = 0
        /\ WithinCount(BuildTokenPayload(req))
    BY <1>0, PayloadGood, TokensAssumptions DEF TypeOK
  <2>3. TypeOK'
    BY <1>0, <2>1, <2>2 DEF TypeOK
  <2>4. \A j \in DOMAIN tokens' : WithinCount(tokens'[j])
    BY <2>1, <2>2 DEF Inv
  <2>5. \A j \in DOMAIN tokens' : tokens'[j].type # "file" => tokens'[j].used <= produced'[j]
    <3>1. produced[k] \in Nat
      BY <1>0 DEF TypeOK
    <3> QED
      BY <2>1, <2>2, <3>1 DEF Inv
  <2>6. \A c \in Clients : GoodCopy(d[c])'
    BY <2>1 DEF Inv, GoodCopy
  <2> QED
    BY <2>3, <2>4, <2>5, <2>6 DEF Inv, WithinCount
<1>3. ASSUME NEW k \in Tokens, handleDeleteToken(k) PROVE Inv'
  BY <1>0, <1>3 DEF handleDeleteToken, Inv, TypeOK, WithinCount, GoodCopy
<1>4. ASSUME NEW c \in Clients, NEW k \in Tokens, NEW route \in Types,
             handleShareDownload(c, k, route)
      PROVE  Inv'
  <2> DEFINE s == [pc |-> "check", token |-> k, rec |-> NoToken]
  <2>1. s \in DStates /\ GoodCopy(s)
    BY DEF DStates, GoodCopy, NoToken, Token, Types, Modes
  <2> QED
    BY <2>1, <1>4, <1>1 DEF handleShareDownload
<1>5. ASSUME NEW c \in Clients, Check(c) PROVE Inv'
  <2> DEFINE k == d[c].token
             s == [pc |-> AfterCheck(tokens[k]), token |-> k, rec |-> tokens[k]]
  <2>1. CASE k \in DOMAIN tokens /\ Usable(tokens[k])
    <3>1. /\ k \in Tokens /\ tokens[k] \in Token
          /\ HasUseLeft(tokens[k])
          /\ tokens[k].type # "file" => tokens[k].used <= produced[k]
      BY <1>0, <2>1 DEF TypeOK, Usable, HasUseLeft, Inv
    <3>2. s \in DStates
      BY <3>1 DEF DStates, AfterCheck
    <3>3. GoodCopy(s)
      BY <3>1 DEF GoodCopy, AfterCheck
    <3>4. Move(c, s)
      BY <1>5, <2>1 DEF Check
    <3> HIDE DEF s
    <3> QED
      BY <3>2, <3>3, <3>4, <1>5, <1>1 DEF Check
  <2>2. CASE ~ (k \in DOMAIN tokens /\ Usable(tokens[k]))
    BY <2>2, <1>5, <1>1, IdleGood DEF Check
  <2> QED
    BY <2>1, <2>2
<1>6. ASSUME NEW c \in Clients, Consume(c) PROVE Inv'
  <2> DEFINE k == d[c].token
             new == Consumed(d[c].rec)
  <2>1. CASE Move(c, DIdle) /\ UNCHANGED tokens
    BY <2>1, <1>6, <1>1, IdleGood DEF Consume
  <2>2. CASE /\ UpdateToken(k, new)
             /\ Move(c, [d[c] EXCEPT !.pc = "getFile"])
    <3>1. d[c] \in DStates /\ d[c].rec \in Token /\ HasUseLeft(d[c].rec)
          /\ d[c].rec.type = "file"
      BY <1>0, <1>6 DEF TypeOK, DStates, Consume, Inv, GoodCopy
    <3>2. new \in Token /\ WithinCount(new) /\ new.type = "file"
      BY <3>1, ConsumedGood
    <3> HIDE DEF new
    <3>3. tokens' = [j \in DOMAIN tokens |-> IF j = k THEN new ELSE tokens[j]]
      BY <2>2 DEF UpdateToken
    <3>4. /\ [d[c] EXCEPT !.pc = "getFile"] \in DStates
          /\ GoodCopy([d[c] EXCEPT !.pc = "getFile"])
      BY <3>1 DEF DStates, GoodCopy
    <3>5. d' \in [Clients -> DStates] /\ \A b \in Clients : GoodCopy(d[b])'
      BY <1>0, <1>6, <2>2, <3>4 DEF Move, Consume, TypeOK, DStates, Inv, GoodCopy
    <3>6. TypeOK'
      BY <1>0, <1>6, <3>2, <3>3, <3>5 DEF Consume, TypeOK, DStates
    <3>7. \A j \in DOMAIN tokens' : WithinCount(tokens'[j])
      BY <3>2, <3>3 DEF Inv
    <3>8. \A j \in DOMAIN tokens' : tokens'[j].type # "file" => tokens'[j].used <= produced'[j]
      BY <1>6, <3>2, <3>3 DEF Inv, Consume
    <3> QED
      BY <3>5, <3>6, <3>7, <3>8 DEF Inv, WithinCount
  <2> QED
    BY <2>1, <2>2, <1>6 DEF Consume
<1>7. ASSUME NEW c \in Clients, GetFile(c) PROVE Inv'
  <2>1. [d[c] EXCEPT !.pc = "answer"] \in DStates /\ GoodCopy([d[c] EXCEPT !.pc = "answer"])
    BY <1>0 DEF TypeOK, DStates, GoodCopy
  <2> QED
    BY <1>1, <1>7, <2>1, IdleGood DEF GetFile
<1>8. ASSUME NEW c \in Clients, Convert(c) PROVE Inv'
  <2> DEFINE k == d[c].token
             s == [d[c] EXCEPT !.pc = AfterConvert(d[c].rec)]
  <2>0. served' = served
    BY <1>8 DEF Convert
  <2>1. CASE Move(c, DIdle) /\ UNCHANGED produced
    BY <2>0, <2>1, <1>8, <1>1, IdleGood DEF Convert
  <2>2. CASE /\ Move(c, s)
             /\ produced' = [produced EXCEPT ![k] = @ + 1]
    <3>1. /\ d[c] \in DStates /\ k \in Tokens /\ HasUseLeft(d[c].rec)
          /\ d[c].rec.used \in Nat /\ d[c].rec.used <= produced[k]
      BY <1>0, <1>8 DEF TypeOK, DStates, Token, Convert, Inv, GoodCopy
    <3>2. /\ \A j \in Tokens : produced[j] \in Nat /\ produced'[j] \in Nat
                               /\ produced[j] <= produced'[j]
          /\ produced'[k] = produced[k] + 1 /\ produced' \in [Tokens -> Nat]
      BY <1>0, <2>2, <3>1 DEF TypeOK
    <3>3. /\ s \in DStates /\ s.pc \in {"charge", "answer"}
          /\ s.token = k /\ s.rec = d[c].rec
      BY <3>1 DEF DStates, AfterConvert
    <3>4. d' = [d EXCEPT ![c] = s]
      BY <2>2 DEF Move
    <3> HIDE DEF s
    <3>5. d' \in [Clients -> DStates]
      BY <1>0, <3>3, <3>4 DEF TypeOK, DStates
    <3>6. \A b \in Clients : GoodCopy(d[b])'
      <4> SUFFICES ASSUME NEW b \in Clients PROVE GoodCopy(d[b])'
        OBVIOUS
      <4>1. CASE b = c
        <5>1. d'[b] = s
          BY <1>0, <3>4, <4>1 DEF TypeOK
        <5> QED
          BY <3>1, <3>2, <3>3, <5>1 DEF GoodCopy, HasUseLeft
      <4>2. CASE b # c
        <5>1. d'[b] = d[b] /\ d[b].token \in Tokens /\ d[b].rec.used \in Nat
          BY <1>0, <3>4, <4>2 DEF TypeOK, Token
        <5> QED
          BY <3>2, <5>1 DEF GoodCopy, Inv
      <4> QED
        BY <4>1, <4>2
    <3>7. \A j \in DOMAIN tokens : tokens[j].type # "file" => tokens[j].used <= produced'[j]
      BY <1>0, <3>2 DEF Inv, TypeOK, Token
    <3>8. UNCHANGED <<tokens, drawn, now>>
      BY <1>8 DEF Convert
    <3> QED
      BY <1>0, <2>0, <3>2, <3>5, <3>6, <3>7, <3>8 DEF Inv, TypeOK, DStates, WithinCount
  <2> QED
    BY <2>1, <2>2, <1>8 DEF Convert
<1>9. ASSUME NEW c \in Clients, Charge(c) PROVE Inv'
  <2> DEFINE k == d[c].token
             new == Consumed(d[c].rec)
             s == [d[c] EXCEPT !.pc = "answer"]
  <2>1. s \in DStates /\ GoodCopy(s)
    BY <1>0 DEF TypeOK, DStates, GoodCopy
  <2>2. CASE UNCHANGED tokens
    BY <1>1, <1>9, <2>1, <2>2 DEF Charge
  <2>3. CASE UpdateToken(k, new)
    <3>1. /\ k \in Tokens /\ d[c].rec \in Token /\ HasUseLeft(d[c].rec)
          /\ d[c].rec.used \in Nat /\ d[c].rec.used < produced[k]
      BY <1>0, <1>9 DEF TypeOK, Charge, Inv, GoodCopy, Token
    <3>2. new \in Token /\ WithinCount(new) /\ new.used = d[c].rec.used + 1
      BY <3>1, ConsumedGood
    <3> HIDE DEF new
    <3>3. tokens' = [j \in DOMAIN tokens |-> IF j = k THEN new ELSE tokens[j]]
      BY <2>3 DEF UpdateToken
    <3>4. d' = [d EXCEPT ![c] = s] /\ UNCHANGED <<drawn, now, produced, served>>
      BY <1>9 DEF Charge, Move
    <3> HIDE DEF s
    <3>5. d' \in [Clients -> DStates] /\ \A b \in Clients : GoodCopy(d[b])'
      BY <1>0, <2>1, <3>4 DEF TypeOK, DStates, Inv, GoodCopy
    <3>6. TypeOK'
      BY <1>0, <3>2, <3>3, <3>4, <3>5 DEF TypeOK, DStates
    <3>7. \A j \in DOMAIN tokens' : WithinCount(tokens'[j])
      BY <3>2, <3>3 DEF Inv
    <3>8. produced[k] \in Nat
      BY <1>0, <3>1 DEF TypeOK
    <3>9. \A j \in DOMAIN tokens' : tokens'[j].type # "file" => tokens'[j].used <= produced'[j]
      BY <3>1, <3>2, <3>3, <3>4, <3>8 DEF Inv
    <3> QED
      BY <3>5, <3>6, <3>7, <3>9 DEF Inv, WithinCount
  <2> QED
    BY <2>2, <2>3, <1>9 DEF Charge
<1>10. ASSUME NEW c \in Clients, Abandon(c) PROVE Inv'
  BY <1>10, <1>1, IdleGood DEF Abandon
<1>11. CASE Advance
  BY <1>0, <1>11 DEF Advance, Inv, TypeOK, WithinCount, GoodCopy
<1>12. CASE Restart
  BY <1>0, <1>12, IdleGood DEF Restart, Inv, TypeOK, WithinCount, GoodCopy, DStates
<1>13. CASE UNCHANGED vars
  BY <1>0, <1>13 DEF vars, Inv, TypeOK, WithinCount, GoodCopy
<1>14. ASSUME NEW c \in Clients, Answer(c) PROVE Inv'
  <2>1. /\ d' = [d EXCEPT ![c] = DIdle] /\ UNCHANGED <<tokens, drawn, now, produced>>
        /\ served' \in [Tokens -> Nat]
    BY <1>0, <1>14 DEF Answer, Move, TypeOK
  <2>2. d' \in [Clients -> DStates] /\ \A b \in Clients : GoodCopy(d[b])'
    BY <1>0, <2>1, IdleGood DEF TypeOK, DStates, Inv, GoodCopy
  <2> QED
    BY <1>0, <2>1, <2>2 DEF Inv, TypeOK, DStates, WithinCount
<1> QED
  BY <1>2, <1>3, <1>4, <1>5, <1>6, <1>7, <1>8, <1>9, <1>10, <1>11, <1>12, <1>13, <1>14
  DEF Next

\* The inductive invariant holds in every reachable state.
THEOREM Invariance == Spec => []Inv
BY InitInv, NextInv, PTL DEF Spec

\* The variables keep their types.
THEOREM TypeCorrect == Spec => []TypeOK
<1>1. Inv => TypeOK
  BY DEF Inv
<1> QED
  BY <1>1, Invariance, PTL

\* The stored counter never passes the limit (UsedWithinCount), although
\* concurrent downloads overwrite each other's increments.
THEOREM CounterWithinLimit == Spec => []UsedWithinCount
<1>1. Inv => UsedWithinCount
  BY DEF Inv, UsedWithinCount, WithinCount
<1> QED
  BY <1>1, Invariance, PTL

\* A conversion that does not come to a text costs nothing
\* (OnlyConversionsCost), also when others are charged from stale copies.
THEOREM FailedConversionsAreFree == Spec => []OnlyConversionsCost
<1>1. Inv => OnlyConversionsCost
  BY DEF Inv, OnlyConversionsCost
<1> QED
  BY <1>1, Invariance, PTL

\* A revocation is final (RevokedStaysRevoked).
THEOREM RevocationIsFinal == Spec => RevokedStaysRevoked
<1> DEFINE Step == \A k \in drawn : k \notin DOMAIN tokens => k \notin DOMAIN tokens'
<1>1. [Next]_vars => [Step]_vars
  BY DEF Next, vars, handleCreateToken, handleDeleteToken, handleShareDownload, Check,
         Consume, GetFile, Convert, Charge, Answer, Abandon, Advance, Restart, UpdateToken
<1> QED
  BY <1>1, PTL DEF Spec, RevokedStaysRevoked

-----------------------------------------------------------------------------
(* Without concurrency, a file token is answered at most count times.  The *)
(* write that charges it then follows the read that checked it with        *)
(* nothing but a revocation in between, so a copy to be charged is what    *)
(* the table holds, and a download that was charged and not yet answered   *)
(* accounts for one use more than were answered.                           *)

Alone     == \A b, c \in Clients : b = c
FilesOnly == \A req \in Requests : req.type = "file"

Paid(s) ==
    /\ s.pc \notin {"convert", "charge"}
    /\ s.pc # "idle" => s.token \in drawn
    /\ s.pc \in {"consume", "getFile", "answer"} /\ s.token \in DOMAIN tokens =>
          /\ s.pc = "consume" => tokens[s.token] = s.rec
          /\ s.pc \in {"getFile", "answer"} /\ tokens[s.token].mode = "count" =>
                served[s.token] < tokens[s.token].used

PaidInv ==
    /\ \A k \in Tokens \ drawn : served[k] = 0
    /\ \A k \in DOMAIN tokens :
          /\ tokens[k].type = "file"
          /\ tokens[k].mode = "count" => served[k] <= tokens[k].used
    /\ \A c \in Clients : Paid(d[c])

\* One download at a time pays before it is answered.
LEMMA PaidStep ==
    ASSUME Alone, FilesOnly, Inv, PaidInv, [Next]_vars
    PROVE  PaidInv'
<1>0. TypeOK
  BY DEF Inv
<1>1. Paid(DIdle) /\ DIdle.pc = "idle"
  BY DEF Paid, DIdle
<1>2. ASSUME NEW c \in Clients, NEW s, Paid(s), Move(c, s),
             UNCHANGED <<tokens, drawn, served>>
      PROVE  PaidInv'
  <2>1. \A b \in Clients : d'[b] = s
    BY <1>0, <1>2 DEF Move, TypeOK, Alone
  <2> QED
    BY <1>2, <2>1 DEF PaidInv, Paid
<1>3. ASSUME NEW req \in Requests, handleCreateToken(req) PROVE PaidInv'
  <2>1. PICK k \in Tokens \ drawn :
           /\ drawn' = drawn \cup {k}
           /\ tokens' = [j \in DOMAIN tokens \cup {k} |->
                            IF j = k THEN BuildTokenPayload(req) ELSE tokens[j]]
           /\ UNCHANGED <<now, d, produced, served>>
    BY <1>3 DEF handleCreateToken
  <2>2. /\ BuildTokenPayload(req).type = "file" /\ BuildTokenPayload(req).used = 0
    BY DEF BuildTokenPayload, FilesOnly
  <2>3. k \notin DOMAIN tokens /\ served[k] = 0
    BY <1>0 DEF TypeOK, PaidInv
  <2>4. \A c \in Clients : Paid(d[c])'
    <3> SUFFICES ASSUME NEW c \in Clients PROVE Paid(d[c])'
      OBVIOUS
    <3>1. Paid(d[c]) /\ d'[c] = d[c]
      BY <2>1 DEF PaidInv
    <3>2. d[c].pc # "idle" => d[c].token # k
      BY <3>1 DEF Paid
    <3> QED
      BY <2>1, <3>1, <3>2 DEF Paid
  <2>5. \A j \in DOMAIN tokens' :
           /\ tokens'[j].type = "file"
           /\ tokens'[j].mode = "count" => served'[j] <= tokens'[j].used
    BY <2>1, <2>2, <2>3 DEF PaidInv
  <2> QED
    BY <2>1, <2>4, <2>5 DEF PaidInv
<1>4. ASSUME NEW k \in Tokens, handleDeleteToken(k) PROVE PaidInv'
  BY <1>4 DEF handleDeleteToken, PaidInv, Paid
<1>5. ASSUME NEW c \in Clients, NEW k \in Tokens, NEW route \in Types,
             handleShareDownload(c, k, route)
      PROVE  PaidInv'
  <2>1. Paid([pc |-> "check", token |-> k, rec |-> NoToken])
    BY <1>0, <1>5 DEF handleShareDownload, TypeOK, Paid
  <2> QED
    BY <1>2, <1>5, <2>1 DEF handleShareDownload
<1>6. ASSUME NEW c \in Clients, Check(c) PROVE PaidInv'
  <2> DEFINE k == d[c].token
             s == [pc |-> AfterCheck(tokens[k]), token |-> k, rec |-> tokens[k]]
  <2>1. CASE k \in DOMAIN tokens /\ Usable(tokens[k])
    <3>1. tokens[k].type = "file" /\ k \in drawn
      BY <1>0, <2>1 DEF TypeOK, PaidInv
    <3>2. s.pc \in {"consume", "getFile"} /\ s.token = k /\ s.rec = tokens[k]
          /\ (s.pc = "getFile" => tokens[k].mode # "count")
      BY <3>1 DEF AfterCheck
    <3>3. Move(c, s)
      BY <1>6, <2>1 DEF Check
    <3> HIDE DEF s
    <3>4. Paid(s)
      BY <3>1, <3>2 DEF Paid
    <3> QED
      BY <1>2, <1>6, <3>3, <3>4 DEF Check
  <2>2. CASE ~ (k \in DOMAIN tokens /\ Usable(tokens[k]))
    BY <1>1, <1>2, <1>6, <2>2 DEF Check
  <2> QED
    BY <2>1, <2>2
<1>7. ASSUME NEW c \in Clients, Consume(c) PROVE PaidInv'
  <2> DEFINE k == d[c].token
             new == Consumed(d[c].rec)
  <2>1. CASE Move(c, DIdle) /\ UNCHANGED tokens
    BY <1>1, <1>2, <1>7, <2>1 DEF Consume
  <2>2. CASE /\ UpdateToken(k, new)
             /\ Move(c, [d[c] EXCEPT !.pc = "getFile"])
    <3>1. /\ d[c] \in DStates /\ d[c].rec \in Token /\ HasUseLeft(d[c].rec)
          /\ k \in DOMAIN tokens => tokens[k] = d[c].rec
          /\ k \in drawn /\ k \in Tokens
      BY <1>0, <1>7 DEF TypeOK, DStates, Consume, Inv, GoodCopy, PaidInv, Paid
    <3>2. /\ new.used = d[c].rec.used + 1 /\ new.type = d[c].rec.type
          /\ new.mode = d[c].rec.mode
      BY <3>1, ConsumedGood
    <3>3. d[c].rec.used \in Nat /\ \A j \in Tokens : served[j] \in Nat
      BY <1>0, <3>1 DEF TypeOK, Token
    <3> HIDE DEF new
    <3>4. /\ tokens' = [j \in DOMAIN tokens |-> IF j = k THEN new ELSE tokens[j]]
          /\ served' = served /\ drawn' = drawn
      BY <1>7, <2>2 DEF UpdateToken, Consume
    <3>5. \A b \in Clients : d'[b].pc = "getFile" /\ d'[b].token = k
      BY <1>0, <2>2, <3>1 DEF Move, TypeOK, DStates, Alone
    <3>6. k \in DOMAIN tokens /\ tokens[k].mode = "count" => served[k] <= tokens[k].used
      BY DEF PaidInv
    <3>7. \A b \in Clients : Paid(d[b])'
      BY <3>1, <3>2, <3>3, <3>4, <3>5, <3>6 DEF Paid
    <3>8. \A j \in DOMAIN tokens' :
             /\ tokens'[j].type = "file"
             /\ tokens'[j].mode = "count" => served'[j] <= tokens'[j].used
      BY <3>1, <3>2, <3>3, <3>4, <3>6 DEF PaidInv
    <3> QED
      BY <3>4, <3>7, <3>8 DEF PaidInv
  <2> QED
    BY <1>7, <2>1, <2>2 DEF Consume
<1>8. ASSUME NEW c \in Clients, GetFile(c) PROVE PaidInv'
  <2>1. CASE Move(c, DIdle)
    BY <1>1, <1>2, <1>8, <2>1 DEF GetFile
  <2>2. CASE Move(c, [d[c] EXCEPT !.pc = "answer"])
    <3>1. Paid([d[c] EXCEPT !.pc = "answer"])
      BY <1>0, <1>8 DEF GetFile, TypeOK, PaidInv, Paid
    <3> QED
      BY <1>2, <1>8, <2>2, <3>1 DEF GetFile
  <2> QED
    BY <1>8, <2>1, <2>2 DEF GetFile
<1>9. ASSUME NEW c \in Clients, Convert(c) \/ Charge(c) PROVE FALSE
  BY <1>9 DEF Convert, Charge, PaidInv, Paid
<1>10. ASSUME NEW c \in Clients, Abandon(c) PROVE PaidInv'
  BY <1>1, <1>2, <1>10 DEF Abandon
<1>11. CASE Advance
  BY <1>11 DEF Advance, PaidInv, Paid
<1>12. CASE Restart
  BY <1>1, <1>12 DEF Restart, PaidInv, Paid
<1>13. CASE UNCHANGED vars
  BY <1>13 DEF vars, PaidInv, Paid
<1>14. ASSUME NEW c \in Clients, Answer(c) PROVE PaidInv'
  <2> DEFINE k == d[c].token
  <2>1. /\ k \in drawn /\ k \in Tokens
        /\ (k \in DOMAIN tokens /\ tokens[k].mode = "count" => served[k] < tokens[k].used)
        /\ (k \in DOMAIN tokens => tokens[k].used \in Nat)
        /\ served[k] \in Nat
    BY <1>0, <1>14 DEF Answer, PaidInv, Paid, TypeOK, Token
  <2>2. /\ served' = [served EXCEPT ![k] = @ + 1]
        /\ tokens' = tokens /\ drawn' = drawn
    BY <1>14 DEF Answer
  <2>3. \A b \in Clients : d'[b] = DIdle
    BY <1>0, <1>14 DEF Answer, Move, TypeOK, Alone
  <2>4. \A b \in Clients : Paid(d[b])'
    BY <1>1, <2>3 DEF Paid
  <2>5. /\ served'[k] = served[k] + 1
        /\ \A j \in Tokens : j # k => served'[j] = served[j]
    BY <1>0, <2>1, <2>2 DEF TypeOK
  <2>6. \A j \in Tokens \ drawn' : served'[j] = 0
    BY <2>1, <2>2, <2>5 DEF PaidInv
  <2>7. \A j \in DOMAIN tokens' :
           /\ tokens'[j].type = "file"
           /\ tokens'[j].mode = "count" => served'[j] <= tokens'[j].used
    <3>1. DOMAIN tokens \subseteq Tokens
      BY <1>0 DEF TypeOK
    <3> QED
      BY <2>1, <2>2, <2>5, <3>1 DEF PaidInv
  <2> QED
    BY <2>4, <2>6, <2>7 DEF PaidInv
<1> QED
  BY <1>3, <1>4, <1>5, <1>6, <1>7, <1>8, <1>9, <1>10, <1>11, <1>12, <1>13, <1>14 DEF Next

\* What CheckAndConsume calls atomic is so when downloads do not overlap: a
\* file token is then answered at most count times, whatever is revoked, fails
\* or restarts in between.  (With two downloads in flight it is not.)
THEOREM AloneWithinCount ==
    ASSUME Alone, FilesOnly
    PROVE  Spec => []ServedWithinCount
<1>1. Init => PaidInv
  BY DEF Init, PaidInv, Paid, DIdle
<1>2. Inv /\ PaidInv /\ [Next]_vars => PaidInv'
  BY PaidStep
<1>3. Inv /\ PaidInv => ServedWithinCount
  <2> SUFFICES ASSUME Inv, PaidInv, NEW k \in DOMAIN tokens, tokens[k].mode = "count"
               PROVE  served[k] <= tokens[k].count
    BY DEF ServedWithinCount
  <2>1. served[k] \in Nat /\ tokens[k].used \in Nat /\ tokens[k].count \in Nat
    BY DEF Inv, TypeOK, Token
  <2> QED
    BY <2>1 DEF Inv, PaidInv, WithinCount
<1> QED
  BY <1>1, <1>2, <1>3, Invariance, PTL DEF Spec
=============================================================================
