---------------------------- MODULE Certificates ----------------------------
(* The certificate of the web interface: TLSService and ACMEService             *)
(* (internal/services/tls.go, acme.go, acme_dns.go) writing the key pair        *)
(* (internal/config/tls.go), the settings handlers that call them, the renewal  *)
(* loop, and the reloader that serves the pair (internal/web/certreload.go).    *)
(* A pair is a number, new for every issuance; each file holds the number of    *)
(* the pair it belongs to, which stands for its modification time as well.      *)
EXTENDS Naturals

CONSTANTS
    TLSRequests,    \* requests of the settings page
    Renewal,        \* the renewal loop
    AcmeForms,      \* what the ACME form can be filled with
    NoForm,         \* an ACME block nobody filled in yet
    MaxPairs,       \* bound: pairs issued
    MaxTLSFaults    \* bound: failed writes, saves, removals and provider calls, and crashes

ASSUME CertAssumption ==
    /\ Renewal \notin TLSRequests /\ "free" \notin TLSRequests \cup {Renewal} /\ NoForm \notin AcmeForms
    /\ MaxPairs \in Nat \ {0} /\ MaxTLSFaults \in Nat

VARIABLES
    tlsMem, tlsDisk,       \* cfg.System.TLS in memory and in router.yaml
    certFile, pairKeyFile,     \* the pair each file belongs to, 0 for no file
    certDue,               \* the certificate on disk is inside renewBefore
    pairsMade,
    pairTorn,                  \* history: the last install stopped between its two files
    tlsHolder,             \* who holds TLSService.mu
    issuance,                 \* what each request and the loop is doing
    stagedPair,            \* mkcert's staging files exist
    challenges,            \* who holds the ID of a TXT record it published
    certReloader,              \* the certReloader and where its check stands
    tlsFaults,
    stagedLeft,            \* history: nobody is left to remove the staging files that exist
    strayTXT               \* history: a TXT record is published and nobody holds its ID

certFiles == <<certFile, pairKeyFile, certDue, pairsMade, pairTorn>>
certVars == <<tlsMem, tlsDisk, certFiles, tlsHolder, issuance, stagedPair, challenges, certReloader, tlsFaults, stagedLeft, strayTXT>>

Issuers == TLSRequests \cup {Renewal}
AcmeBlocks == [form : AcmeForms \cup {NoForm}, enabled : BOOLEAN]
TLSModes == {"self-signed", "mkcert", "acme"}
NoBlock == [form |-> NoForm, enabled |-> FALSE]
NoIssue == [pc |-> "idle", mode |-> "self-signed", pair |-> 0, previous |-> NoBlock, next |-> NoBlock]

CertInit ==
    /\ tlsMem \in [mode : TLSModes, acme : {[form |-> NoForm, enabled |-> TRUE]}] /\ tlsDisk = tlsMem
    /\ pairsMade \in {0, 1} /\ certFile = pairsMade /\ pairKeyFile = pairsMade /\ certDue = FALSE /\ pairTorn = FALSE
    /\ tlsHolder = "free" /\ issuance = [x \in Issuers |-> NoIssue]
    /\ stagedPair = FALSE /\ challenges = {}
    /\ certReloader = [pc |-> "ensure", served |-> 0, certMod |-> 0, keyMod |-> 0, seen |-> <<0, 0>>, read |-> 0]
    /\ tlsFaults = 0 /\ stagedLeft = FALSE /\ strayTXT = FALSE

TLSFault == tlsFaults < MaxTLSFaults /\ tlsFaults' = tlsFaults + 1
CertServing == certReloader.served # 0 /\ certReloader.pc # "failed"
IssueAt(x, pc) == issuance[x].pc = pc
IssueTo(x, pc) == issuance' = [issuance EXCEPT ![x].pc = pc]
EndIssue(x) == issuance' = [issuance EXCEPT ![x] = NoIssue]
TLSLock(x) == tlsHolder = "free" /\ tlsHolder' = x
TLSUnlock == tlsHolder' = "free"
\* A pair nobody has issued before, about to be written under mode.
NewPair(x, mode) ==
    /\ pairsMade < MaxPairs /\ pairsMade' = pairsMade + 1
    /\ issuance' = [issuance EXCEPT ![x].pc = "first", ![x].mode = mode, ![x].pair = pairsMade + 1]
    /\ UNCHANGED <<certFile, pairKeyFile, certDue, pairTorn>>
onlySettings == <<certFiles, stagedPair, challenges, certReloader, tlsDisk, tlsFaults, stagedLeft, strayTXT>>

-----------------------------------------------------------------------------
(* Issuing: the settings page.                                                  *)

\* issueSelfSigned, for a form that validates.
IssueSelfSigned(q) == TLSLock(q) /\ NewPair(q, "self-signed")
\* Regenerate, refused outside the self-signed mode.
Regenerate(q) == tlsMem.mode = "self-signed" /\ IssueSelfSigned(q)
HandleRegenerateTLS(q) ==
    /\ CertServing /\ IssueAt(q, "idle")
    /\ Regenerate(q)
    /\ UNCHANGED <<tlsMem, tlsDisk, stagedPair, challenges, certReloader, tlsFaults, stagedLeft, strayTXT>>

SwitchMode(q, mode) ==
    \/ mode = "self-signed" /\ IssueSelfSigned(q)
    \/ mode = "mkcert" /\ TLSLock(q) /\ IssueTo(q, "mkcert") /\ UNCHANGED certFiles
HandleSetTLSMode(q, mode) ==
    /\ CertServing /\ IssueAt(q, "idle")
    /\ SwitchMode(q, mode)
    /\ UNCHANGED <<tlsMem, tlsDisk, stagedPair, challenges, certReloader, tlsFaults, stagedLeft, strayTXT>>

\* issueMkcertPair: mkcert writes its staging files, which have fixed names. When mkcert fails, or what comes
\* before it, the removal is not deferred yet: what mkcert wrote stays until the next pair takes its place.
IssueMkcertPair(q) ==
    /\ IssueAt(q, "mkcert")
    /\ \/ stagedPair' = TRUE /\ stagedLeft' = FALSE /\ IssueTo(q, "staged") /\ UNCHANGED tlsHolder
       \/ stagedPair' \in {stagedPair, TRUE} /\ stagedLeft' = stagedPair' /\ EndIssue(q) /\ TLSUnlock
    /\ UNCHANGED <<tlsMem, tlsDisk, certFiles, challenges, certReloader, tlsFaults, strayTXT>>
\* The deferred rm, whose failure is only logged.
RemoveStaged ==
    \/ stagedPair' = FALSE /\ UNCHANGED <<tlsFaults, stagedLeft>>
    \/ TLSFault /\ stagedLeft' = TRUE /\ UNCHANGED stagedPair
\* enableMkcert: a pair that cannot be read ends the request; it is removed either way.
EnableMkcert(q) ==
    /\ IssueAt(q, "staged") /\ RemoveStaged
    /\ \/ NewPair(q, "mkcert") /\ UNCHANGED tlsHolder
       \/ EndIssue(q) /\ TLSUnlock /\ UNCHANGED certFiles
    /\ UNCHANGED <<tlsMem, tlsDisk, challenges, certReloader, strayTXT>>

\* HandleConfigureACME reads the settings, then stages the form over them.
HandleConfigureACME(q, form) ==
    /\ CertServing /\ IssueAt(q, "idle") /\ tlsHolder = "free"
    /\ issuance' = [issuance EXCEPT ![q].pc = "stage", ![q].previous = tlsMem.acme,
                              ![q].next = [tlsMem.acme EXCEPT !.form = form]]
    /\ UNCHANGED <<tlsMem, tlsHolder, onlySettings>>
SetSettings(q, block) == tlsHolder = "free" /\ tlsMem' = [tlsMem EXCEPT !.acme = block]
StageACME(q) ==
    /\ IssueAt(q, "stage") /\ SetSettings(q, issuance[q].next) /\ IssueTo(q, "order")
    /\ UNCHANGED <<tlsHolder, onlySettings>>

\* acmeIssueFailed puts the staged settings back; a pending manual record keeps and saves them.
AcmeIssueFailed(q) ==
    /\ q # Renewal
    /\ \/ IssueAt(q, "failed") /\ SetSettings(q, issuance[q].previous) /\ UNCHANGED <<tlsDisk, tlsFaults>>
       \/ /\ IssueAt(q, "manual") /\ SetSettings(q, issuance[q].next)
          /\ \/ tlsDisk' = tlsMem' /\ UNCHANGED tlsFaults
             \/ TLSFault /\ UNCHANGED tlsDisk
    /\ EndIssue(q)
    /\ UNCHANGED <<certFiles, tlsHolder, stagedPair, challenges, certReloader, stagedLeft, strayTXT>>

-----------------------------------------------------------------------------
(* The DNS-01 flow of a request or of the renewal loop.                         *)

AcmeActive(tls) == tls.mode = "acme" /\ tls.acme.enabled
RenewIfDue ==
    /\ certReloader.pc # "failed" /\ IssueAt(Renewal, "idle") /\ tlsHolder = "free"
    /\ AcmeActive(tlsMem) /\ certDue
    /\ IssueTo(Renewal, "order")
    /\ UNCHANGED <<tlsMem, tlsHolder, onlySettings>>
\* recordRenewal: the loop drops a failure and waits for its next tick.
RecordRenewal ==
    /\ issuance[Renewal].pc \in {"failed", "manual"}
    /\ EndIssue(Renewal)
    /\ UNCHANGED <<tlsMem, tlsHolder, onlySettings>>

RenewalLoop == RenewIfDue \/ RecordRenewal

\* The cloudflare provider; the manual one reports the record instead. Without the answer to its POST Present
\* has no ID, and the record that may exist all the same is nobody's.
PresentTXT(x) == challenges' = challenges \cup {x}
PresentFails == TLSFault /\ strayTXT' \in {strayTXT, TRUE} /\ UNCHANGED challenges
CleanUpTXT(x) ==
    /\ challenges' = challenges \ {x}
    /\ \/ UNCHANGED <<tlsFaults, strayTXT>>
       \/ TLSFault /\ strayTXT' = TRUE
\* validateACMEConfig to satisfy: a valid authorization needs no challenge, and CleanUp is deferred only once
\* Present has succeeded.
AuthorizeOrder(x) ==
    /\ IssueAt(x, "order")
    /\ \/ PresentTXT(x) /\ IssueTo(x, "validate") /\ UNCHANGED <<tlsFaults, strayTXT>>
       \/ PresentFails /\ IssueTo(x, "failed")
       \/ \E pc \in {"finalize", "manual", "failed"} : IssueTo(x, pc) /\ UNCHANGED <<challenges, tlsFaults, strayTXT>>
    /\ UNCHANGED <<tlsMem, tlsDisk, certFiles, tlsHolder, stagedPair, certReloader, stagedLeft>>
\* satisfy accepts the challenge and waits; the deferred CleanUp runs whatever comes of it.
SatisfyOrder(x) ==
    /\ IssueAt(x, "validate")
    /\ \E pc \in {"finalize", "failed"} : IssueTo(x, pc)
    /\ CleanUpTXT(x)
    /\ UNCHANGED <<tlsMem, tlsDisk, certFiles, tlsHolder, stagedPair, certReloader, stagedLeft>>
FinalizeOrder(x) ==
    /\ IssueAt(x, "finalize")
    /\ \E pc \in {"install", "failed"} : IssueTo(x, pc)
    /\ UNCHANGED <<tlsMem, tlsHolder, onlySettings>>
\* Variant: a renewal installs whatever the mode has become.
InstallACMEPairAnyway(x) ==
    /\ IssueAt(x, "install") /\ TLSLock(x) /\ NewPair(x, "acme")
    /\ UNCHANGED <<tlsMem, tlsDisk, stagedPair, challenges, certReloader, tlsFaults, stagedLeft, strayTXT>>
\* installACMEPair: a renewal whose mode was switched away is discarded.
InstallACMEPair(x) ==
    /\ IssueAt(x, "install")
    /\ IF x = Renewal /\ ~AcmeActive(tlsMem)
       THEN tlsHolder = "free" /\ IssueTo(x, "failed") /\ UNCHANGED <<tlsHolder, certFiles>>
       ELSE TLSLock(x) /\ NewPair(x, "acme")
    /\ UNCHANGED <<tlsMem, tlsDisk, stagedPair, challenges, certReloader, tlsFaults, stagedLeft, strayTXT>>

IssueOrder(x) == AuthorizeOrder(x) \/ SatisfyOrder(x) \/ FinalizeOrder(x) \/ InstallACMEPair(x)

-----------------------------------------------------------------------------
(* Writing the pair, recording the mode and saving it, under the lock.          *)

\* writeKeyPair writes the certificate first, InstallTLSPair the key.
CertFirst(x) == issuance[x].mode = "self-signed"
WriteCert(x) == certFile' = issuance[x].pair /\ certDue' = FALSE /\ UNCHANGED pairKeyFile
WriteKey(x) == pairKeyFile' = issuance[x].pair /\ UNCHANGED <<certFile, certDue>>
\* A write that fails ends the issuance; the ACME handler restores its settings.
WriteFails(x) ==
    /\ TLSFault /\ TLSUnlock
    /\ IF issuance[x].mode = "acme" THEN IssueTo(x, "failed") ELSE EndIssue(x)
    /\ UNCHANGED certFiles
WriteFirst(x) ==
    /\ IssueAt(x, "first")
    /\ \/ /\ IF CertFirst(x) THEN WriteCert(x) ELSE WriteKey(x)
          /\ pairTorn' = TRUE /\ IssueTo(x, "second") /\ UNCHANGED <<pairsMade, tlsHolder, tlsFaults>>
       \/ WriteFails(x)
    /\ UNCHANGED <<tlsMem, tlsDisk, stagedPair, challenges, certReloader, stagedLeft, strayTXT>>
WriteSecond(x) ==
    /\ IssueAt(x, "second")
    /\ \/ /\ IF CertFirst(x) THEN WriteKey(x) ELSE WriteCert(x)
          /\ pairTorn' = FALSE /\ IssueTo(x, "record") /\ UNCHANGED <<pairsMade, tlsHolder, tlsFaults>>
       \/ WriteFails(x)
    /\ UNCHANGED <<tlsMem, tlsDisk, stagedPair, challenges, certReloader, stagedLeft, strayTXT>>
\* The new mode in memory, once the pair is in place.
RecordMode(x) ==
    /\ IssueAt(x, "record")
    /\ tlsMem' = [tlsMem EXCEPT !.mode = issuance[x].mode,
                                !.acme.enabled = IF issuance[x].mode = "acme" THEN TRUE ELSE @]
    /\ IssueTo(x, "save")
    /\ UNCHANGED <<tlsHolder, onlySettings>>
SaveTLS(x) ==
    /\ IssueAt(x, "save") /\ TLSUnlock
    /\ \/ tlsDisk' = tlsMem /\ UNCHANGED tlsFaults /\ (IF x = Renewal THEN EndIssue(x) ELSE IssueTo(x, "restart"))
       \/ TLSFault /\ UNCHANGED tlsDisk /\ (IF issuance[x].mode = "acme" THEN IssueTo(x, "failed") ELSE EndIssue(x))
    /\ UNCHANGED <<tlsMem, certFiles, stagedPair, challenges, certReloader, stagedLeft, strayTXT>>

\* Any other handler saves the whole configuration, the staged block with it.
OtherTLSSave ==
    /\ CertServing /\ tlsDisk' = tlsMem
    /\ UNCHANGED <<tlsMem, certFiles, tlsHolder, issuance, stagedPair, challenges, certReloader, tlsFaults, stagedLeft, strayTXT>>
CertAges ==
    /\ ~certDue /\ certFile # 0 /\ certDue' = TRUE
    /\ UNCHANGED <<tlsMem, tlsDisk, certFile, pairKeyFile, pairsMade, pairTorn, tlsHolder, issuance, stagedPair, challenges, certReloader, tlsFaults, stagedLeft, strayTXT>>

-----------------------------------------------------------------------------
(* Restarting and serving.                                                      *)

CertProcessEnds ==
    /\ issuance' = [x \in Issuers |-> NoIssue] /\ TLSUnlock
    /\ tlsMem' = tlsDisk
    /\ challenges' = {} /\ stagedLeft' = stagedPair
    /\ certReloader' = [certReloader EXCEPT !.pc = "ensure", !.served = 0]
    /\ UNCHANGED <<tlsDisk, certFiles, stagedPair>>
CutOff == TLSFault /\ CertProcessEnds /\ strayTXT' = (strayTXT \/ challenges # {})
\* TLSService.Restart, from the goroutine the handler leaves behind: the shutdown lets the flows withdraw
\* their records, unless they outlast drainBackground.
TLSRestart(q) ==
    /\ IssueAt(q, "restart")
    /\ \/ CertProcessEnds /\ UNCHANGED <<tlsFaults, strayTXT>>
       \/ CutOff
TLSCrash == CutOff

\* EnsureTLSCert as Serve starts: only the self-signed mode makes a pair.
ensureLeaves == <<tlsMem, tlsDisk, tlsHolder, issuance, stagedPair, challenges, stagedLeft, strayTXT>>
EnsureTLSCert ==
    /\ certReloader.pc = "ensure"
    /\ \/ certFile # 0 /\ certReloader' = [certReloader EXCEPT !.pc = "stat"]
       \/ certFile = 0 /\ tlsMem.mode # "self-signed" /\ certReloader' = [certReloader EXCEPT !.pc = "failed"]
    /\ UNCHANGED <<certFiles, tlsFaults, ensureLeaves>>
\* A self-signed pair is made when there is no certificate, or it has expired: whether the key
\* belongs to it is not looked at. A write that fails ends the start.
EnsureFails == TLSFault /\ certReloader' = [certReloader EXCEPT !.pc = "failed"] /\ UNCHANGED certFiles
EnsureSelfSigned ==
    /\ certReloader.pc = "ensure" /\ tlsMem.mode = "self-signed" /\ (certFile = 0 \/ certDue)
    /\ \/ /\ pairsMade < MaxPairs /\ pairsMade' = pairsMade + 1
          /\ certFile' = pairsMade' /\ certDue' = FALSE /\ pairTorn' = TRUE /\ UNCHANGED <<pairKeyFile, tlsFaults>>
          /\ certReloader' = [certReloader EXCEPT !.pc = "ensureKey"]
       \/ EnsureFails
    /\ UNCHANGED ensureLeaves
GenerateSelfSignedKey ==
    /\ certReloader.pc = "ensureKey"
    /\ \/ /\ pairKeyFile' = certFile /\ pairTorn' = FALSE /\ UNCHANGED <<certFile, certDue, pairsMade, tlsFaults>>
          /\ certReloader' = [certReloader EXCEPT !.pc = "stat"]
       \/ EnsureFails
    /\ UNCHANGED ensureLeaves

ReloaderGoes(fields) ==
    /\ certReloader' = fields
    /\ UNCHANGED <<tlsMem, tlsDisk, certFiles, tlsHolder, issuance, stagedPair, challenges, tlsFaults, stagedLeft, strayTXT>>
ReloadIfChanged == <<certFile, pairKeyFile>> # <<certReloader.certMod, certReloader.keyMod>>
\* The check of a handshake, when the interval has passed.
GetCertificate ==
    /\ certReloader.pc = "idle"
    /\ ReloadIfChanged
    /\ ReloaderGoes([certReloader EXCEPT !.pc = "stat"])
\* load: the modification times, then the two files, which have to match.
LoadModTimes ==
    /\ certReloader.pc = "stat"
    /\ ReloaderGoes([certReloader EXCEPT !.pc = "cert", !.seen = <<certFile, pairKeyFile>>])
LoadCert == certReloader.pc = "cert" /\ ReloaderGoes([certReloader EXCEPT !.pc = "key", !.read = certFile])
LoadKeyPair ==
    /\ certReloader.pc = "key"
    /\ ReloaderGoes(IF pairKeyFile = certReloader.read
                    THEN [certReloader EXCEPT !.pc = "idle", !.served = pairKeyFile,
                                          !.certMod = certReloader.seen[1], !.keyMod = certReloader.seen[2]]
                    ELSE [certReloader EXCEPT !.pc = IF certReloader.served = 0 THEN "failed" ELSE "idle"])
LoadPair == LoadModTimes \/ LoadCert \/ LoadKeyPair

CertNext ==
    \/ \E q \in TLSRequests :
        \/ HandleRegenerateTLS(q) \/ \E mode \in {"self-signed", "mkcert"} : HandleSetTLSMode(q, mode)
        \/ IssueMkcertPair(q) \/ EnableMkcert(q)
        \/ (\E form \in AcmeForms : HandleConfigureACME(q, form)) \/ StageACME(q) \/ AcmeIssueFailed(q)
        \/ TLSRestart(q)
    \/ RenewalLoop
    \/ \E x \in Issuers :
        \/ IssueOrder(x) \/ WriteFirst(x) \/ WriteSecond(x) \/ RecordMode(x) \/ SaveTLS(x)
    \/ OtherTLSSave \/ CertAges \/ TLSCrash
    \/ EnsureTLSCert \/ EnsureSelfSigned \/ GenerateSelfSignedKey \/ GetCertificate \/ LoadPair

CertSpec == CertInit /\ [][CertNext]_certVars

-----------------------------------------------------------------------------
TLSSettings == [mode : TLSModes, acme : AcmeBlocks]
PairNumbers == 0..MaxPairs
\* Where an issuance is while it writes, and while it holds the lock.
WritingPair == {"first", "second", "record", "save"}
HoldingLock == WritingPair \cup {"mkcert", "staged"}
IssueSteps ==
    HoldingLock \cup {"idle", "stage", "order", "validate", "finalize", "install", "manual", "failed", "restart"}
IssueType ==
    [pc : IssueSteps, mode : TLSModes, pair : PairNumbers, previous : AcmeBlocks, next : AcmeBlocks]
ReloaderType ==
    [pc : {"idle", "ensure", "ensureKey", "stat", "cert", "key", "failed"}, served : PairNumbers, certMod : PairNumbers,
     keyMod : PairNumbers, seen : PairNumbers \X PairNumbers, read : PairNumbers]

LeftoverTypes ==
    /\ stagedPair \in BOOLEAN /\ stagedLeft \in BOOLEAN /\ strayTXT \in BOOLEAN
    /\ challenges \subseteq Issuers /\ tlsFaults \in Nat
\* Among the types: who is about to write holds the lock.
PairTypes ==
    /\ tlsMem \in TLSSettings /\ tlsDisk \in TLSSettings
    /\ certFile \in PairNumbers /\ pairKeyFile \in PairNumbers /\ pairsMade \in PairNumbers
    /\ certDue \in BOOLEAN /\ pairTorn \in BOOLEAN
    /\ tlsHolder \in Issuers \cup {"free"}
    /\ issuance \in [Issuers -> IssueType]
    /\ \A x \in Issuers : issuance[x].pc \in HoldingLock => tlsHolder = x
    /\ certReloader \in ReloaderType
CertTypeOK == PairTypes /\ LeftoverTypes

\* The next start of the server finds a pair it can bind with, whatever mode is on disk: "every branch issues
\* first and persists second". Only an install cut between its two files can leave it without one.
NextStartBinds ==
    tlsHolder = "free" /\ ~pairTorn => certFile = pairKeyFile /\ (pairsMade # 0 => certFile # 0)

\* When the reloader believes it holds what is on disk, it does; what it serves is always one whole pair.
ServesWhatItSaw ==
    certReloader.pc = "idle" /\ <<certFile, pairKeyFile>> = <<certReloader.certMod, certReloader.keyMod>> =>
        certReloader.served = certFile /\ certFile = pairKeyFile

\* A flow that holds the ID of a TXT record is still validating: every later path withdraws it. A staged key
\* is being read, or was left by a mkcert or an rm that failed or a process that ended. A record nobody can
\* withdraw is there only after a call to the provider failed or the process was cut off.
NothingLeftBehind ==
    /\ \A x \in challenges : issuance[x].pc = "validate"
    /\ stagedPair => stagedLeft \/ \E q \in TLSRequests : issuance[q].pc = "staged"
    /\ strayTXT => tlsFaults # 0

\* A renewal that was under way while the operator switched the mode never switches it back.
RenewalKeepsMode == [][issuance[Renewal].pc = "record" /\ issuance'[Renewal].pc = "save" => tlsMem'.mode = tlsMem.mode]_certVars

\* What issuing, renewing and serving the certificate promise together.
CertificatesSound == [](NextStartBinds /\ ServesWhatItSaw /\ NothingLeftBehind) /\ RenewalKeepsMode

\* Why it is so.  A pair is written under the lock and is newer than both files, a
\* start makes a pair only while nobody issues one, and a renewal that writes does so
\* in the mode it renews for.
IssuerInv(x) ==
    LET i == issuance[x]
    IN  /\ i.pc # "idle" => pairsMade # 0
        /\ i.pair <= pairsMade
        /\ i.pc = "first" => i.pair > certFile /\ i.pair > pairKeyFile
        /\ i.pc = "second" => IF i.mode = "self-signed" THEN certFile = i.pair /\ i.pair > pairKeyFile
                              ELSE pairKeyFile = i.pair /\ i.pair > certFile
        /\ x = Renewal /\ i.pc \in WritingPair => tlsMem.mode = "acme" /\ i.mode = "acme"
        /\ certReloader.pc = "ensure" /\ i.pc # "idle" => x = Renewal /\ tlsMem.mode = "acme"
        /\ certReloader.pc = "ensureKey" => i.pc = "idle"

FilesInv ==
    /\ certFile <= pairsMade /\ pairKeyFile <= pairsMade
    /\ pairsMade # 0 => certFile # 0
    /\ certDue => pairsMade # 0
    /\ ~pairTorn => certFile = pairKeyFile

\* What the reloader serves lies between what it saw and what is on disk now.
ReloaderInv ==
    LET r == certReloader
    IN  /\ r.pc = "idle" => r.served # 0
        /\ r.pc \in {"ensure", "ensureKey"} => r.served = 0
        /\ r.pc = "ensureKey" => tlsMem.mode = "self-signed"
        /\ r.pc \in {"ensureKey", "stat", "cert", "key"} => pairsMade # 0
        /\ r.served # 0 => /\ r.certMod <= r.served /\ r.served <= certFile
                           /\ r.keyMod <= r.served /\ r.served <= pairKeyFile
        /\ r.pc \in {"cert", "key"} => r.seen[1] <= certFile /\ r.seen[2] <= pairKeyFile
        /\ r.pc = "key" => r.seen[1] <= r.read /\ r.read <= certFile /\ r.read # 0

CertInv ==
    /\ PairTypes /\ FilesInv /\ ReloaderInv
    /\ \A x \in Issuers : IssuerInv(x)

=============================================================================
