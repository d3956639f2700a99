------------------------------ MODULE ReleaseCheck -------------------------------
(* FirmwareUpdateManager.kt: the application's search for a newer firmware.  The   *)
(* periodic check, manual checks and the download of an update are coroutines on   *)
(* threads of their own; they share the ETag, the cached release, the latest       *)
(* version and the banner with each other and with the main thread, unguarded.     *)
EXTENDS Naturals

CONSTANTS
  Manual,      \* manual checks that can be under way at the same time
  MaxVersion   \* bound: the last release that is published

ASSUME ReleaseAssumption == MaxVersion \in Nat \ {0}

None == 0                       \* null
Versions == 1 .. MaxVersion     \* releases, the older before the newer
Maybe == None .. MaxVersion

\* Coroutines that check; those that fetch a release; and the main thread.
Checks == {"periodic"} \cup Manual
Jobs == Checks \cup {"download"}
Threads == Jobs \cup {"main"}

VARIABLES
  published,      \* the newest release on GitHub
  installed,      \* the firmware of the device
  lastETag,       \* the release the ETag is of
  cachedRelease,
  latest,         \* latestGithubVersion
  deviceVersion,
  isPaused,
  banner,         \* latestVersionState
  stage,          \* per thread: "idle", or where it is
  found,          \* per thread: the ETag it sent, the release it was given, or the
                  \* version it is about to offer
  broken          \* history: two answers overlapped, or the last one was not parsed

gitVars == <<published, installed>>
cacheVars == <<lastETag, cachedRelease, broken>>
shownVars == <<deviceVersion, isPaused, banner>>
relVars == <<gitVars, cacheVars, latest, shownVars, stage, found>>

\* Where a thread is: the request is out; the answer is 304, or 200 with a release that
\* is then parsed and cached; fetchReleaseInfo returns it; and checkIfUpdateNeeded.
Stages == {"idle", "sent", "same", "fresh", "parse", "got", "check", "write"}

RelTypeOK == /\ published \in Versions /\ installed \in Versions
             /\ lastETag \in Maybe /\ cachedRelease \in Maybe /\ latest \in Maybe
             /\ deviceVersion \in Maybe /\ isPaused \in BOOLEAN /\ banner \in Maybe
             /\ stage \in [Threads -> Stages] /\ found \in [Threads -> Maybe]
             /\ broken \in BOOLEAN

RelInit == /\ published \in Versions /\ installed \in Versions
           /\ lastETag = None /\ cachedRelease = None /\ latest = None
           /\ deviceVersion = None /\ isPaused = FALSE /\ banner = None
           /\ stage = [j \in Threads |-> "idle"] /\ found = [j \in Threads |-> None]
           /\ broken = FALSE

--------------------------------------------------------------------------------
(* fetchReleaseInfo                                                              *)

Goes(j, to, release) == /\ stage' = [stage EXCEPT ![j] = to]
                        /\ found' = [found EXCEPT ![j] = release]

Send(j) == /\ Goes(j, "sent", lastETag)
           /\ UNCHANGED <<gitVars, cacheVars, latest>>

\* What an exception is caught to: a check goes on to compare, the download is over.
AfterException(j) == IF j \in Checks THEN "check" ELSE "idle"

Answer(j) == /\ stage[j] = "sent"
             /\ \/ found[j] = published /\ Goes(j, "same", None)
                \/ found[j] # published /\ Goes(j, "fresh", published)
                \/ Goes(j, AfterException(j), None)
             /\ UNCHANGED <<gitVars, cacheVars, latest, shownVars>>

\* 304.  Mutant: the version known already is taken for the latest one.
KnownAlready == latest
FromCache == cachedRelease

NotModified(j) == /\ stage[j] = "same"
                  /\ IF FromCache = None THEN Goes(j, AfterException(j), None)
                                         ELSE Goes(j, "got", FromCache)
                  /\ UNCHANGED <<gitVars, cacheVars, latest, shownVars>>

\* 200.  The ETag is taken before the text is parsed.
Modified(j) == /\ stage[j] = "fresh"
               /\ lastETag' = found[j]
               /\ broken' = \E k \in Jobs \ {j} : stage[k] = "parse"
               /\ Goes(j, "parse", found[j])
               /\ UNCHANGED <<gitVars, cachedRelease, latest, shownVars>>

\* Mutant: the first release stays in the cache.
FirstRelease(j) == IF cachedRelease = None THEN found[j] ELSE cachedRelease
ParsedRelease(j) == found[j]

Parse(j) == /\ stage[j] = "parse"
            /\ \/ /\ cachedRelease' = ParsedRelease(j)
                  /\ Goes(j, "got", found[j])
                  /\ UNCHANGED broken
               \/ /\ broken' = TRUE
                  /\ Goes(j, AfterException(j), None)
                  /\ UNCHANGED cachedRelease
            /\ UNCHANGED <<gitVars, lastETag, latest, shownVars>>

--------------------------------------------------------------------------------
(* The checks                                                                    *)

PeriodicCheck == /\ stage["periodic"] = "idle" /\ ~isPaused
                 /\ Send("periodic")
                 /\ UNCHANGED shownVars

ManualCheck == /\ stage["main"] = "idle"
               /\ \E j \in Manual : stage[j] = "idle" /\ Send(j)
               /\ isPaused' = FALSE
               /\ UNCHANGED <<deviceVersion, banner>>

\* fetchLatestRelease
Latest(j) == /\ j \in Checks /\ stage[j] = "got"
             /\ latest' = found[j]
             /\ Goes(j, "check", None)
             /\ UNCHANGED <<gitVars, cacheVars, shownVars>>

\* getHigherVersionOrNull: what the banner is to say.  Mutant: an equal version, too.
NotOlder == IF latest >= deviceVersion THEN latest ELSE None
HigherOrNull == IF latest > deviceVersion THEN latest ELSE None

\* checkIfUpdateNeeded
Compare(j) == /\ stage[j] = "check"
              /\ IF latest = None \/ deviceVersion = None
                 THEN Goes(j, "idle", None)
                 ELSE Goes(j, "write", HigherOrNull)
              /\ UNCHANGED <<gitVars, cacheVars, latest, shownVars>>

Offer(j) == /\ stage[j] = "write"
            /\ banner' = found[j]
            /\ Goes(j, "idle", None)
            /\ UNCHANGED <<gitVars, cacheVars, latest, deviceVersion, isPaused>>

--------------------------------------------------------------------------------
(* The main thread, and the update it starts                                      *)

\* onDeviceVersionReceived
DeviceVersion == /\ stage["main"] = "idle"
                 /\ deviceVersion' = installed
                 /\ Goes("main", "check", None)
                 /\ UNCHANGED <<gitVars, cacheVars, latest, isPaused, banner>>

HideBanner == /\ stage["main"] = "idle" /\ banner # None
              /\ banner' = None
              /\ UNCHANGED <<gitVars, cacheVars, latest, deviceVersion, isPaused, stage,
                             found>>

\* startFirmwareUpdate: hideBanner, pauseChecks, and fetchReleaseInfo.
StartUpdate == /\ stage["main"] = "idle" /\ stage["download"] = "idle"
               /\ deviceVersion # None
               /\ banner' = None /\ isPaused' = TRUE
               /\ Send("download")
               /\ UNCHANGED deviceVersion

\* The files of the release are fetched and checked and sent to the device, or not.
EndUpdate == /\ stage["download"] = "got"
             /\ installed' \in {installed, found["download"]}
             /\ Goes("download", "idle", None)
             /\ UNCHANGED <<published, cacheVars, latest, shownVars>>

\* resumeChecks: connected again, or an update that failed is given up.
ResumeChecks == /\ stage["main"] = "idle" /\ isPaused
                /\ isPaused' = FALSE
                /\ UNCHANGED <<gitVars, cacheVars, latest, deviceVersion, banner, stage,
                               found>>

\* Somebody publishes a release.
Publish == /\ published < MaxVersion
           /\ published' = published + 1
           /\ UNCHANGED <<installed, cacheVars, latest, shownVars, stage, found>>

--------------------------------------------------------------------------------
Fetch(j) == j \in Jobs /\ (Answer(j) \/ NotModified(j) \/ Modified(j) \/ Parse(j))

Step(j) == Fetch(j) \/ Latest(j) \/ Compare(j) \/ Offer(j)

Main == DeviceVersion \/ HideBanner \/ StartUpdate \/ ResumeChecks \/ ManualCheck

RelNext == \/ \E j \in Threads : Step(j)
           \/ PeriodicCheck \/ EndUpdate \/ Main \/ Publish

RelSpec == RelInit /\ [][RelNext]_relVars

\* What has begun goes on, and the periodic check comes again.  An answer may always be
\* an error, and nothing is assumed of the user, the device and GitHub.
RelFairness == /\ \A j \in Threads : WF_relVars(Step(j))
               /\ WF_relVars(PeriodicCheck) /\ WF_relVars(EndUpdate)

RelLiveSpec == RelSpec /\ RelFairness

--------------------------------------------------------------------------------
(* Properties.                                                                   *)

\* The cached release is the one the ETag stands for, so that a 304 brings the newest
\* release, unless answers of two fetches overlapped or the last one was not parsed.
CacheBelongsToTag ==
  ~broken /\ (\A j \in Jobs : stage[j] # "parse") => cachedRelease = lastETag

\* If GitHub answers the periodic check again and again, the newest release becomes known,
\* although old answers may be late, unless the cache is broken for good.
NewReleaseNoticed ==
  []<>(stage["periodic"] \in {"same", "fresh"})
    => []<>(latest = published) \/ <>[]broken

\* A banner that a late check put up for what the device already has, or for less, goes.
StaleBannerGoes ==
  (banner # None /\ banner <= deviceVersion) ~>
    (banner = None \/ banner > deviceVersion \/ isPaused)
================================================================================
