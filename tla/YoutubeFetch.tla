---------------------------- MODULE YoutubeFetch ----------------------------
(***************************************************************************)
(* Fetching the YouTube data of one creator, in the API (getYoutubeMetrics *)
(* of socials.service.ts, as answered by ingestion/youtube/services/       *)
(* youtube.service.ts) and in the worker (syncUser): which calls are made, *)
(* what each failure becomes, and which data is missing in the end.        *)
(*                                                                         *)
(* A grant says whether the creator has connected YouTube, whether the     *)
(* access token is usable (30 seconds before it expires it no longer is),  *)
(* whether there is a refresh token, and what Google says to a refresh.    *)
(* An answer is the pair of what Google says to a call and to its retry.   *)
(***************************************************************************)
EXTENDS Naturals, FiniteSets

Comments     == {"top", "latest"}
Demographics == {"age", "gender", "country"}
Calls == {"channel", "search", "videos", "analytics"}
             \cup Comments \cup Demographics
Responses == {"ok", "unauthorized", "scope", "commentsDisabled", "forbidden",
              "server", "timeout", "network"}

Grants   == [linked : BOOLEAN, usable : BOOLEAN, refreshable : BOOLEAN,
             google : {"ok", "revoked", "down"}]
Findings == [channel : {"named", "unnamed", "none"}, videos : BOOLEAN]
Answers  == [Calls -> Responses \X Responses]

Err(type, reason) == [type |-> type, reason |-> reason]
NoError           == Err("none", "none")
Required(reason)  == Err("oauth2-link-required", reason)

-----------------------------------------------------------------------------
(* The API.                                                                *)
fetchGoogleJson(response) ==
    CASE response = "ok"           -> NoError
      [] response = "unauthorized" -> Err("InvalidToken", "401")
      [] response \in {"scope", "commentsDisabled", "forbidden"} ->
             Err("InsufficientPermissions", response)
      [] response \in {"server", "timeout"} -> Err("ExternalApi", response)
      [] response = "network"      -> Err("Error", response)

refreshGoogleOauthTokensForUser(grant) ==
    CASE ~grant.linked      -> Err("InvalidToken", "oauth-account-not-found")
      [] grant.linked /\ ~grant.refreshable ->
             Err("InvalidToken", "missing-refresh-token")
      [] grant.linked /\ grant.refreshable ->
             (CASE grant.google = "ok"      -> NoError
                [] grant.google = "revoked" ->
                       Err("InvalidToken", "invalid-grant")
                [] grant.google = "down"    ->
                       Err("ExternalApi", "refresh-token-exchange-failed"))

resolveGoogleAccessToken(grant) ==
    IF ~grant.linked THEN Required("oauth-account-not-found")
    ELSE IF grant.usable THEN NoError
    ELSE IF ~grant.refreshable THEN Required("missing-refresh-token")
    ELSE refreshGoogleOauthTokensForUser(grant)

fetchGoogleJsonWithRefresh(grant, answer) ==
    LET token  == resolveGoogleAccessToken(grant)
        first  == fetchGoogleJson(answer[1])
        renew  == refreshGoogleOauthTokensForUser(grant)
    IN  IF token # NoError THEN token
        ELSE IF first.type # "InvalidToken" THEN first
        ELSE IF renew # NoError THEN renew
        ELSE fetchGoogleJson(answer[2])

isGoogleCommentsDisabledError(error) ==
    error = Err("InsufficientPermissions", "commentsDisabled")

isRecoverableDemographicsError(error) ==
    error.type \in {"InsufficientPermissions", "ExternalApi"}

(* fetchAudienceDemographics: all three are awaited; the first failure in  *)
(* order that is not recoverable is thrown.                                *)
fetchAudienceDemographics(grant, answers) ==
    LET error(c) == fetchGoogleJsonWithRefresh(grant, answers[c])
        fatal(c) == error(c) # NoError
                       /\ ~isRecoverableDemographicsError(error(c))
        failed   == {c \in Demographics : error(c) # NoError}
    IN  [failed |-> failed,
         error |-> IF fatal("age") THEN error("age")
                   ELSE IF fatal("gender") THEN error("gender")
                   ELSE IF fatal("country") THEN error("country")
                   ELSE NoError]

(* What the calls before the analytics come to: channel, search, videos    *)
(* and comments, these for the videos found, all comments at a time.       *)
(* Whose failure comes first among the comments, nobody can say.           *)
Listing(grant, found, answers) ==
    LET error(c) == fetchGoogleJsonWithRefresh(grant, answers[c])
        bad      == {c \in Comments :
                        /\ error(c) # NoError
                        /\ ~isGoogleCommentsDisabledError(error(c))}
        listed   == IF found.videos THEN {error(c) : c \in bad} ELSE {}
    IN  CASE error("channel") # NoError      -> {error("channel")}
          [] error("channel") = NoError /\ found.channel = "none" ->
                 {Err("YoutubeChannelNotFound", "no-channel")}
          [] error("channel") = NoError /\ found.channel = "unnamed" ->
                 {Err("Validation", "missing-channel-id")}
          [] OTHER ->
             IF error("search") # NoError THEN {error("search")}
             ELSE IF found.videos /\ error("videos") # NoError
             THEN {error("videos")}
             ELSE IF listed = {} THEN {NoError} ELSE listed

Refused(error) ==
    [stored |-> FALSE, error |-> error, analyticsStatus |-> "success",
     demographicsStatus |-> "success", missing |-> {}]

(* getYoutubeMetrics: what may become of a request.                        *)
ApiFetch(grant, found, answers) ==
    LET error(c)  == fetchGoogleJsonWithRefresh(grant, answers[c])
        \* a call refused for a missing scope asks to connect again
        Asked(e)  == IF e = Err("InsufficientPermissions", "scope")
                     THEN Required("insufficient-youtube-scopes") ELSE e
        listing   == Listing(grant, found, answers)
        analytics == error("analytics")
        demo      == fetchAudienceDemographics(grant, answers)
        absent    == {c \in Comments : found.videos /\ error(c) # NoError}
                        \cup {c \in {"analytics"} : analytics # NoError}
                        \cup demo.failed
        Status(b) == IF b THEN "warning" ELSE "success"
    IN  IF listing # {NoError} THEN {Refused(Asked(e)) : e \in listing}
        ELSE IF analytics.type \notin {"none", "InsufficientPermissions"}
        THEN {Refused(analytics)}
        ELSE IF demo.error # NoError THEN {Refused(demo.error)}
        ELSE {[stored |-> TRUE, error |-> NoError,
               analyticsStatus |-> Status(analytics # NoError),
               demographicsStatus |-> Status(demo.failed # {}),
               missing |-> absent]}

(* The ingestion service: without a channel it answers with a warning.     *)
Ingestion(outcome) ==
    IF outcome.error.type \in {"YoutubeChannelNotFound", "Validation"}
    THEN "warning" ELSE IF outcome.stored THEN "success" ELSE "thrown"

-----------------------------------------------------------------------------
(* The worker.  An error of its own is not retried when Unrecoverable.     *)
WorkerRefresh(grant) ==
    CASE ~grant.refreshable -> "Error"
      [] grant.refreshable /\ grant.google = "ok" -> "ok"
      [] grant.refreshable /\ grant.google = "down" -> "Error"
      [] grant.refreshable /\ grant.google = "revoked" ->
             IF grant.usable THEN "ok" ELSE "UnrecoverableError"

WorkerCall(grant, answer) ==
    LET token == IF grant.usable THEN "ok" ELSE WorkerRefresh(grant)
        Plain(response) == IF response = "ok" THEN "ok" ELSE "Error"
    IN  IF token # "ok" THEN token
        ELSE IF answer[1] # "unauthorized" THEN Plain(answer[1])
        ELSE IF WorkerRefresh(grant) # "ok" THEN WorkerRefresh(grant)
        ELSE Plain(answer[2])

(* syncUser: comments and demographics are done without.                   *)
(* Faulty: comments that cannot be fetched fail the job.                   *)
Needed_Comments(found) ==
    {"channel", "search", "analytics"}
        \cup (IF found.videos THEN {"videos"} \cup Comments ELSE {})
Needed(found) ==
    {"channel", "search", "analytics"}
        \cup (IF found.videos THEN {"videos"} ELSE {})

WorkerFetch(grant, found, answers) ==
    LET result(c) == WorkerCall(grant, answers[c])
        failed    == {c \in Needed(found) : result(c) # "ok"}
        optional  == Demographics \cup (IF found.videos THEN Comments ELSE {})
    IN  IF ~grant.linked \/ failed # {} \/ found.channel # "named"
        THEN [stored |-> FALSE, missing |-> {},
              retried |-> ~\E c \in failed : result(c) = "UnrecoverableError"]
        ELSE [stored |-> TRUE, retried |-> FALSE,
              missing |-> {c \in optional : result(c) # "ok"}]
=============================================================================
