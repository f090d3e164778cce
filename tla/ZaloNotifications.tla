------------------------- MODULE ZaloNotifications -------------------------
(***************************************************************************)
(* Payment requests sent to parents over Zalo, and the one pair of tokens  *)
(* they need.  Zalo renews the pair against its refresh token, which is    *)
(* good for one use; a request that is answered late, or whose answer is   *)
(* lost, has used it all the same.                                         *)
(***************************************************************************)
EXTENDS OfficeRequests

CONSTANT TokenDays    \* how long an access token is good for

InitialToken == 0     \* ZALO_INITIAL_REFRESH_TOKEN

TokenRow  == <<"zalo_oauth_tokens", "oaId">>
LogRow(p) == <<"notification_logs", p>>

NoToken == [refresh |-> -1, expires |-> 0]

(* What Zalo keeps: the refresh token it will take next, and whether it    *)
(* has delivered the message of a request.  No transaction covers it.      *)
ZaloToken        == <<"zalo refresh token", InitialToken>>
ZaloMessage(p)   == <<"zalo message", p>>

(* Bound: answers that are lost count as requests that are cut off. *)
AnswerIsLost == crashes < MaxCrashes /\ crashes' = crashes + 1

AtWithFault(p, label) ==
  /\ pc[p] = label
  /\ MayStart(p)
  /\ UNCHANGED <<work, now, until>>

-----------------------------------------------------------------------------
(* PaymentNotificationsService.notifyParentForOrder. *)

(* The parent has a telephone and there is a template to fill in, both of  *)
(* which are looked for outside of what sendTemplate catches: without them *)
(* the request is refused and nothing is logged.                           *)
CanBeSent(p) == work[p].lacks \notin {"phone", "template"}

Notify(p) ==
  /\ At(p, "notify")
  /\ IF CanBeSent(p) THEN OnlyReads /\ Proceeds(p, "readToken", {}, local[p])
     ELSE Refuses(p, "refused")

(* Whatever goes wrong with the token or the message is logged as FAILED.  *)
LogsFailure(p) == Proceeds(p, "logFailure", {}, local[p])

LogNotification(p) ==
  \/ /\ At(p, "logFailure")
     /\ WritesAtOnce(NewVersion(LogRow(p), "FAILED"))
     /\ Answers(p, "done")
  \/ /\ At(p, "logSent")
     /\ WritesAtOnce(NewVersion(LogRow(p), "SENT"))
     /\ Answers(p, "done")

-----------------------------------------------------------------------------
(* ZaloTokenService.getValidAccessToken and refresh. *)

ReadToken(p) ==
  LET token == Sees(p, TokenRow) IN
  /\ At(p, "readToken")
  /\ OnlyReads
  /\ \/ /\ token # NoToken /\ token.expires > now
        /\ Proceeds(p, "sendMessage", {}, local[p])
     \/ /\ token # NoToken /\ token.expires <= now
        /\ Proceeds(p, "askToken", {}, [local[p] EXCEPT !.token = token.refresh])
     \/ /\ token = NoToken
        /\ Proceeds(p, "askToken", {}, [local[p] EXCEPT !.token = InitialToken])

(* The program has an account with Zalo, and the token is the one good.    *)
Renews(p) == work[p].lacks # "account" /\ local[p].token = Sees(p, ZaloToken)

NewToken(p) == Sees(p, ZaloToken) + 1

AskToken(p) ==
  \/ /\ At(p, "askToken")
     /\ Renews(p)
     /\ WritesAtOnce(NewVersion(ZaloToken, NewToken(p)))
     /\ Proceeds(p, "findToken", {}, [local[p] EXCEPT !.token = NewToken(p)])
  \/ /\ At(p, "askToken")
     /\ ~Renews(p)
     /\ OnlyReads
     /\ LogsFailure(p)
  \/ /\ AtWithFault(p, "askToken")
     /\ Renews(p)
     /\ AnswerIsLost
     /\ WritesAtOnce(NewVersion(ZaloToken, NewToken(p))) \/ OnlyReads
     /\ LogsFailure(p)

(* The row to be overwritten is looked up once Zalo has answered. *)
FindToken(p) ==
  /\ At(p, "findToken")
  /\ OnlyReads
  /\ Proceeds(p, "saveToken", {TokenRow}, local[p])

(* Mutation: the refresh token is kept as it was. *)
KeepsOldRefreshToken(p) ==
  [refresh |-> Sees(p, TokenRow).refresh, expires |-> now + TokenDays]

TokenPair(p) == [refresh |-> local[p].token, expires |-> now + TokenDays]

(* While no token is stored only one request can have been given one, so   *)
(* an insert meets no other.                                               *)
SaveToken(p) ==
  /\ At(p, "saveToken")
  /\ WritesAtOnce(NewVersion(TokenRow, TokenPair(p)))
  /\ Proceeds(p, "sendMessage", {}, local[p])

-----------------------------------------------------------------------------
(* ZaloZnsService.sendTemplate. *)

(* Mutation: an answer that does not come counts as success. *)
LogsSuccess(p) == Proceeds(p, "logSent", {}, local[p])

AfterLostAnswer(p) == LogsFailure(p)

SendMessage(p) ==
  \/ /\ At(p, "sendMessage")
     /\ WritesAtOnce(NewVersion(ZaloMessage(p), "delivered"))
     /\ Proceeds(p, "logSent", {}, local[p])
  \/ /\ At(p, "sendMessage")                    \* Zalo refuses it
     /\ OnlyReads
     /\ LogsFailure(p)
  \/ /\ AtWithFault(p, "sendMessage")
     /\ AnswerIsLost
     /\ \/ WritesAtOnce(NewVersion(ZaloMessage(p), "delivered")) \/ OnlyReads
     /\ AfterLostAnswer(p)

NotifyStatement(p) ==
  \/ Notify(p) \/ ReadToken(p) \/ AskToken(p) \/ FindToken(p) \/ SaveToken(p)
  \/ SendMessage(p) \/ LogNotification(p)
=============================================================================
