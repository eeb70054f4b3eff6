----------------------------- MODULE Onboarding -----------------------------
(***************************************************************************)
(* The guided set-up (src/src/onboarding): a session per chat, kept in      *)
(* memory and saved after every change; handlers of buttons and texts that  *)
(* wait for a key derivation or a save between their steps, while others    *)
(* run; the recovery phrase of the new wallet, sealed in the session until  *)
(* it is verified.  Buttons never look at the state of the session, and a   *)
(* keyboard that was shown once can be pressed for ever.                    *)
(* /wallet delete and recover are in WalletLife: here no keystore is removed *)
(* or written over.                                                        *)
(* A save makes the directory, takes a snapshot, writes a temporary file -  *)
(* the same one for every save - and renames it.  What a handler does when  *)
(* its rename returns is one step with the rename; the reply is a later one. *)
(***************************************************************************)
EXTENDS WalletKeys

CONSTANTS
    Chats, NoChat,
    NoFile,         \* no such file, and no snapshot
    Slots,          \* handlers that can be under way at the same time
    RoundLimit,     \* 3 in handleVerificationInput()
    TotalLimit,     \* MAX_TOTAL_VERIFICATION_ATTEMPTS
    MaxCrashes

ASSUME OnboardingAssumption ==
    /\ NoChat \notin Chats
    /\ {RoundLimit, TotalLimit} \subseteq Nat \ {0, 1}
    /\ MaxCrashes \in Nat
    /\ IsFiniteSet(Slots) /\ Slots # {}

VARIABLES
    sessions,       \* store.sessions
    temp,           \* chats with a passphrase in tempPassphrases
    file,           \* onboarding-state.json
    tempFile,       \* onboarding-state.json.tmp
    tasks,          \* the handlers under way
    offered,        \* the keyboards each chat has been shown
    cleanupDue,     \* service.start() has still to clean up expired sessions
    crashes,
    created,        \* history: wallets the onboarding made
    shown,          \* history: wallets whose phrase reached the chat
    dropped,        \* history: wallets whose phrase a crash took from its handler
    guesses,        \* history: answers compared with the phrase of a wallet
    verified,       \* history: wallets whose phrase was verified
    announced,      \* history: wallets a completion message called ready
    overlapped      \* history: two saves were under way at the same time

(* Bound: where guesses stops counting.                                    *)
MaxGuesses == TotalLimit + (MaxCrashes + 1) * Cardinality(Slots)

setupVars == <<sessions, temp, file, tempFile, tasks, offered, cleanupDue, crashes, created,
               shown, dropped, guesses, verified, announced, overlapped>>
pastVars == <<cleanupDue, crashes, created, shown, dropped, guesses, verified, announced>>

States == {"none", "welcome", "pending", "weak", "displayed", "verifying", "limits", "complete"}
(* The keyboards that speak of a phrase; the others - start, try again, use *)
(* anyway, resume, start over - are in the chat since a set-up that was     *)
(* given up before it made a wallet, and can be pressed at any time.        *)
Keyboards == {"nothing", "phrase", "failed", "limits"}
Steps == {"free", "replies", "starts", "restarts", "hashes", "creates", "seals", "displays",
          "shows", "asks", "asksAgain", "decrypts", "checks", "judges", "unseals", "counts",
          "configures", "completes", "closes", "announces", "givesUp"}

(* OnboardingSession.  opens: the hash of the session is the one the phrase *)
(* was sealed with; idle: not updated for SESSION_EXPIRY_MS.               *)
Session == [state : States, hashed : BOOLEAN, phrase : Wallets \cup {NoWallet},
            opens : BOOLEAN, words : BOOLEAN, round : Nat, total : Nat, idle : BOOLEAN]
NoSession == [state |-> "none", hashed |-> FALSE, phrase |-> NoWallet, opens |-> FALSE,
              words |-> FALSE, round |-> 0, total |-> 0, idle |-> FALSE]
NoSessions == [c \in Chats |-> NoSession]

ASSUME FilesAssumption == NoFile \notin [Chats -> Session]

(* A handler: the step it takes when what it awaits is there - other is a   *)
(* key derivation or the I/O of another file.  holds: it read the hash of   *)
(* the session, and whether that is still the session's; origin: it makes a *)
(* wallet, after a text or after "Use Anyway".                             *)
Task == [step : Steps, chat : Chats \cup {NoChat}, awaits : {"", "other", "mkdir", "write", "rename"},
         snap : {NoFile} \cup [Chats -> Session], wallet : Wallets \cup {NoWallet},
         holds : {"none", "current", "stale"}, origin : {"", "text", "button"}, words : BOOLEAN,
         claim : Wallets \cup {NoWallet}, count : Nat, shows : Keyboards]
Free == [step |-> "free", chat |-> NoChat, awaits |-> "", snap |-> NoFile, wallet |-> NoWallet,
         holds |-> "none", origin |-> "", words |-> FALSE, claim |-> NoWallet, count |-> 0,
         shows |-> "nothing"]

SetupTypeOK ==
    /\ KeysTypeOK
    /\ sessions \in [Chats -> Session]
    /\ temp \subseteq Chats
    /\ \A f \in {file, tempFile} : f = NoFile \/ f \in [Chats -> Session]
    /\ tasks \in [Slots -> Task]
    /\ offered \in [Chats -> SUBSET Keyboards]
    /\ {cleanupDue, overlapped} \subseteq BOOLEAN
    /\ crashes \in 0 .. MaxCrashes
    /\ \A set \in {created, shown, dropped, verified, announced} : set \subseteq Wallets
    /\ guesses \in [Wallets -> 0 .. MaxGuesses]

SetupInit ==
    /\ KeysInit
    /\ sessions = NoSessions
    /\ temp = {}
    /\ file = NoFile /\ tempFile = NoFile
    /\ tasks = [t \in Slots |-> Free]
    /\ offered = [c \in Chats |-> {}]
    /\ cleanupDue = FALSE                  \* nothing can have expired yet
    /\ crashes = 0
    /\ created = {} /\ shown = {} /\ dropped = {} /\ verified = {} /\ announced = {}
    /\ guesses = [w \in Wallets |-> 0]
    /\ overlapped = FALSE

-----------------------------------------------------------------------------
HasSession(c) == sessions[c] # NoSession

Handler(c, step) == [Free EXCEPT !.step = step, !.chat = c]
Answer(c, keyboard) == [Handler(c, "replies") EXCEPT !.shows = keyboard]
PhraseAnswer(c, w) == [Answer(c, "phrase") EXCEPT !.wallet = w]
Continues(t, step) == [tasks[t] EXCEPT !.step = step]
(* The answer of the handler that made the wallet.                         *)
NewPhrase(t) == [PhraseAnswer(tasks[t].chat, tasks[t].wallet) EXCEPT !.origin = tasks[t].origin]

Begins(t) == tasks[t] = Free /\ UNCHANGED <<file, tempFile>>

(* What the handler waited for is there: the other I/O, or its rename.     *)
Arrives(t, step) ==
    /\ tasks[t].step = step
    /\ \/ tasks[t].awaits = "other" /\ UNCHANGED <<file, tempFile>>
       \/ /\ tasks[t].awaits = "rename" /\ tempFile # NoFile
          /\ file' = tempFile
          /\ tempFile' = NoFile

Becomes(t, task) == tasks' = [tasks EXCEPT ![t] = task] /\ UNCHANGED overlapped
Waits(t, task) == Becomes(t, [task EXCEPT !.awaits = "other"])

SaveUnderWay(u) == tasks[u].awaits \in {"mkdir", "write", "rename"}

(* saveStore(); the hash a handler of c holds is no longer the session's if *)
(* the session or its hash is replaced.                                    *)
SavesOver(t, task, outdated) ==
    /\ tasks' = [u \in Slots |->
          IF u = t THEN [task EXCEPT !.awaits = "mkdir"]
          ELSE IF tasks[u].chat \in outdated /\ tasks[u].holds = "current"
          THEN [tasks[u] EXCEPT !.holds = "stale"] ELSE tasks[u]]
    /\ overlapped' = (overlapped \/ \E u \in Slots \ {t} : SaveUnderWay(u))
Saves(t, task) == SavesOver(t, task, {})

(* updateSession(): with a session, it is updated - which ends its idleness *)
(* - and saved; without one, the handler goes on at once.                   *)
Updates(t, c, session, task, otherwise) ==
    IF HasSession(c)
    THEN /\ sessions' = [sessions EXCEPT ![c] = [session EXCEPT !.idle = FALSE]]
         /\ Saves(t, task)
    ELSE UNCHANGED sessions /\ Becomes(t, otherwise)

Clears(t, c, task) ==
    /\ sessions' = [sessions EXCEPT ![c] = NoSession]
    /\ SavesOver(t, task, {c})

StartsSession(t, c) ==
    /\ sessions' = [sessions EXCEPT ![c] = [NoSession EXCEPT !.state = "welcome"]]
    /\ SavesOver(t, Answer(c, "nothing"), {c})

-----------------------------------------------------------------------------
(* saveStore(), step by step.                                              *)
Snapshot == [c \in Chats |-> [sessions[c] EXCEPT !.idle = FALSE]]

SaveMakesDirectory(t) ==
    /\ tasks[t].awaits = "mkdir"
    /\ tasks' = [tasks EXCEPT ![t].awaits = "write", ![t].snap = Snapshot]
    /\ UNCHANGED <<keyVars, sessions, temp, file, tempFile, offered, pastVars, overlapped>>

SaveWrites(t) ==
    /\ tasks[t].awaits = "write"
    /\ tempFile' = tasks[t].snap
    /\ tasks' = [tasks EXCEPT ![t].awaits = "rename", ![t].snap = NoFile]
    /\ UNCHANGED <<keyVars, sessions, temp, file, offered, pastVars, overlapped>>

(* The rename finds no temporary file: another save has taken it.  The     *)
(* handler throws; the one that makes a wallet drops the session first.    *)
SaveFails(t) ==
    /\ tasks[t].awaits = "rename" /\ tempFile = NoFile
    /\ IF tasks[t].origin # "" /\ tasks[t].step \in {"displays", "replies"}
       THEN Clears(t, tasks[t].chat, Answer(tasks[t].chat, "nothing"))
       ELSE UNCHANGED sessions /\ Becomes(t, Free)
    /\ UNCHANGED <<keyVars, temp, file, tempFile, offered, pastVars>>

(* The save before the answer is done; "Use Anyway" then forgets the        *)
(* passphrase if the phrase is displayed.                                  *)
AnswerIsReady(t) ==
    /\ Arrives(t, "replies")
    /\ Becomes(t, IF tasks[t].shows = "nothing" THEN Free ELSE [tasks[t] EXCEPT !.awaits = ""])
    /\ temp' = IF tasks[t].origin = "button" /\ sessions[tasks[t].chat].state = "displayed"
               THEN temp \ {tasks[t].chat} ELSE temp
    /\ UNCHANGED <<keyVars, sessions, offered, pastVars>>

(* The answer reaches the chat.                                            *)
AnswerIsShown(t) ==
    /\ tasks[t].step = "replies" /\ tasks[t].awaits = ""
    /\ Becomes(t, Free)
    /\ offered' = [offered EXCEPT ![tasks[t].chat] = @ \cup {tasks[t].shows}]
    /\ shown' = shown \cup ({tasks[t].wallet} \ {NoWallet})
    /\ UNCHANGED <<keyVars, sessions, temp, file, tempFile, cleanupDue, crashes, created,
                   dropped, guesses, verified, announced>>

-----------------------------------------------------------------------------
(* /wallet without a keystore: resume, or a new session.                   *)
WalletCommand(t, c) ==
    /\ Begins(t)
    /\ ~IsInitialized
    /\ CASE sessions[c].idle -> Clears(t, c, Handler(c, "starts"))
         [] ~sessions[c].idle /\ sessions[c].state \notin {"none", "complete"} ->
              UNCHANGED sessions /\ Becomes(t, Free)
         [] OTHER -> StartsSession(t, c)
    /\ UNCHANGED <<keyVars, temp, offered, pastVars>>

(* handleWelcome(), once the old session is cleared.                       *)
StartsOver(t) ==
    /\ \/ Arrives(t, "starts") /\ UNCHANGED temp
       \/ Arrives(t, "restarts") /\ temp' = temp \ {tasks[t].chat}
    /\ StartsSession(t, tasks[t].chat)
    /\ UNCHANGED <<keyVars, offered, pastVars>>

PromptsPassphrase(t, c) ==
    Updates(t, c, [sessions[c] EXCEPT !.state = "pending"], Answer(c, "nothing"), Free)

PressStart(t, c) ==
    /\ Begins(t)
    /\ PromptsPassphrase(t, c)
    /\ UNCHANGED <<keyVars, temp, offered, pastVars>>

PressRetry(t, c) ==
    /\ Begins(t)
    /\ temp' = temp \ {c}
    /\ PromptsPassphrase(t, c)
    /\ UNCHANGED <<keyVars, offered, pastVars>>

(* "Use Anyway": the passphrase may have expired or gone.                  *)
PressWeakOk(t, c) ==
    /\ Begins(t)
    /\ IF c \in temp
       THEN UNCHANGED sessions
            /\ Waits(t, [Handler(c, "hashes") EXCEPT !.origin = "button"])
       ELSE PromptsPassphrase(t, c)
    /\ UNCHANGED <<keyVars, temp, offered, pastVars>>

(* The hook asks for the session first, which clears an expired one.       *)
TextInExpiredSession(t, c) ==
    /\ Begins(t)
    /\ sessions[c].idle
    /\ Clears(t, c, Answer(c, "nothing"))
    /\ UNCHANGED <<keyVars, temp, offered, pastVars>>

AwaitsPassphrase(c) == sessions[c].state \in {"pending", "weak"} /\ ~sessions[c].idle

TextWeakPassphrase(t, c) ==
    /\ Begins(t)
    /\ AwaitsPassphrase(c)
    /\ temp' = temp \cup {c}
    /\ Updates(t, c, [sessions[c] EXCEPT !.state = "weak"], Answer(c, "nothing"), Free)
    /\ UNCHANGED <<keyVars, offered, pastVars>>

TextStrongPassphrase(t, c) ==
    /\ Begins(t)
    /\ AwaitsPassphrase(c)
    /\ Waits(t, [Handler(c, "hashes") EXCEPT !.origin = "text"])
    /\ UNCHANGED <<keyVars, sessions, temp, offered, pastVars>>

-----------------------------------------------------------------------------
(* proceedWithPassphrase().  The wallet is made, and its phrase sealed with *)
(* the hash the session has now; or a keystore exists, and the session is  *)
(* dropped.                                                                *)
CreatesWallet(t, c, session) ==
    \/ /\ IsInitialized
       /\ Clears(t, c, Answer(c, "nothing"))
       /\ UNCHANGED <<keyVars, temp, created>>
    \/ \E w \in Wallets :
          /\ GenerateKeys(w)
          /\ created' = created \cup {w}
          /\ temp' = temp \ {c}
          /\ LET made_w == [tasks[t] EXCEPT !.wallet = w, !.holds = "current", !.step = "seals"]
                 phrase == [PhraseAnswer(c, w) EXCEPT !.origin = tasks[t].origin]
             IN IF session.hashed
                THEN sessions' = [sessions EXCEPT ![c] = session] /\ Waits(t, made_w)
                ELSE Updates(t, c, [session EXCEPT !.state = "displayed"], phrase, phrase)

HashesPassphrase(t) == LET c == tasks[t].chat IN
    /\ Arrives(t, "hashes")
    /\ IF HasSession(c)
       THEN /\ sessions' = [sessions EXCEPT ![c].hashed = TRUE, ![c].opens = FALSE,
                                            ![c].idle = FALSE]
            /\ SavesOver(t, Continues(t, "creates"), {c})
            /\ UNCHANGED <<keyVars, temp, created>>
       ELSE CreatesWallet(t, c, NoSession)
    /\ UNCHANGED <<offered, cleanupDue, crashes, shown, dropped, guesses, verified, announced>>

CreatesWithHash(t) == LET c == tasks[t].chat IN
    /\ Arrives(t, "creates")
    /\ CreatesWallet(t, c, sessions[c])
    /\ UNCHANGED <<offered, cleanupDue, crashes, shown, dropped, guesses, verified, announced>>

SealsPhrase_NeedsSession(t) == LET c == tasks[t].chat IN
    /\ Arrives(t, "seals")
    /\ Updates(t, c, [sessions[c] EXCEPT !.phrase = tasks[t].wallet,
                                         !.opens = (tasks[t].holds = "current")],
               Continues(t, "displays"), Free)
    /\ UNCHANGED <<keyVars, temp, offered, pastVars>>

SealsPhrase(t) == LET c == tasks[t].chat IN
    /\ Arrives(t, "seals")
    /\ Updates(t, c, [sessions[c] EXCEPT !.phrase = tasks[t].wallet,
                                         !.opens = (tasks[t].holds = "current")],
               Continues(t, "displays"), NewPhrase(t))
    /\ UNCHANGED <<keyVars, temp, offered, pastVars>>

DisplaysPhrase(t) == LET c == tasks[t].chat IN
    /\ Arrives(t, "displays")
    /\ Updates(t, c, [sessions[c] EXCEPT !.state = "displayed"], NewPhrase(t), NewPhrase(t))
    /\ UNCHANGED <<keyVars, temp, offered, pastVars>>

-----------------------------------------------------------------------------
PressSaved(t, c) ==
    /\ Begins(t)
    /\ "phrase" \in offered[c]
    /\ Updates(t, c, [sessions[c] EXCEPT !.words = TRUE, !.round = 0], Handler(c, "asks"), Free)
    /\ UNCHANGED <<keyVars, temp, offered, pastVars>>

AsksForWords_Unsaved(t) == LET c == tasks[t].chat IN
    /\ Arrives(t, "asks")
    /\ sessions' = IF HasSession(c) THEN [sessions EXCEPT ![c].state = "verifying"] ELSE sessions
    /\ Becomes(t, Free)
    /\ UNCHANGED <<keyVars, temp, offered, pastVars>>

AsksForWords(t) == LET c == tasks[t].chat IN
    /\ Arrives(t, "asks")
    /\ Updates(t, c, [sessions[c] EXCEPT !.state = "verifying"], Answer(c, "nothing"), Free)
    /\ UNCHANGED <<keyVars, temp, offered, pastVars>>

(* getTempMnemonic(): what it read of the session decides the outcome.      *)
Sealed(c) == sessions[c].hashed /\ sessions[c].phrase # NoWallet
Opened(c) == IF sessions[c].opens THEN sessions[c].phrase ELSE NoWallet

PressShowAgain(t, c) ==
    /\ Begins(t)
    /\ "failed" \in offered[c]
    /\ IF sessions[c].idle
       THEN Clears(t, c, Answer(c, "nothing"))
       ELSE /\ UNCHANGED sessions
            /\ IF Sealed(c)
               THEN Waits(t, [Handler(c, "decrypts") EXCEPT !.wallet = Opened(c)])
               ELSE Becomes(t, Free)
    /\ UNCHANGED <<keyVars, temp, offered, pastVars>>

ShowsDecrypted(t) == LET c == tasks[t].chat IN
    /\ Arrives(t, "decrypts")
    /\ Becomes(t, IF tasks[t].wallet # NoWallet THEN PhraseAnswer(c, tasks[t].wallet) ELSE Free)
    /\ UNCHANGED <<keyVars, sessions, temp, offered, pastVars>>

NewWords(t, c) ==
    Updates(t, c, [sessions[c] EXCEPT !.words = TRUE, !.round = 0], Answer(c, "nothing"), Free)

PressVerifyRetry(t, c) ==
    /\ Begins(t)
    /\ "failed" \in offered[c]
    /\ CASE sessions[c].idle -> Clears(t, c, Handler(c, "asksAgain"))
         [] ~sessions[c].idle /\ sessions[c].words ->
              UNCHANGED sessions /\ Becomes(t, Free)
         [] OTHER -> NewWords(t, c)
    /\ UNCHANGED <<keyVars, temp, offered, pastVars>>

AsksAgain(t) ==
    /\ Arrives(t, "asksAgain")
    /\ NewWords(t, tasks[t].chat)
    /\ UNCHANGED <<keyVars, temp, offered, pastVars>>

-----------------------------------------------------------------------------
(* handleVerificationInput(): the owner types words of a phrase she was     *)
(* shown, or other words.                                                  *)
TextWords(t, c, claim) ==
    /\ Begins(t)
    /\ sessions[c].state = "verifying" /\ ~sessions[c].idle
    /\ UNCHANGED sessions
    /\ IF Sealed(c)
       THEN Waits(t, [Handler(c, "checks") EXCEPT !.wallet = Opened(c), !.claim = claim,
                                                  !.words = sessions[c].words])
       ELSE Becomes(t, Free)
    /\ UNCHANGED <<keyVars, temp, offered, pastVars>>

(* Counters are only compared with their limits: they stop there.          *)
OneMore(n, limit) == IF n < limit THEN n + 1 ELSE n

IsCorrect(t) == tasks[t].claim = tasks[t].wallet

(* The limit on all attempts is looked at before the answer.               *)
Judges(t, c, session, total) ==
    IF total >= TotalLimit
    THEN Clears(t, c, Handler(c, "givesUp")) /\ UNCHANGED <<guesses, verified>>
    ELSE /\ guesses' = [guesses EXCEPT ![tasks[t].wallet] = OneMore(@, MaxGuesses)]
         /\ IF IsCorrect(t)
            THEN /\ verified' = verified \cup {tasks[t].wallet}
                 /\ Updates(t, c, [session EXCEPT !.phrase = NoWallet, !.opens = FALSE],
                            Handler(c, "unseals"), Answer(c, "limits"))
            ELSE /\ UNCHANGED verified
                 /\ Updates(t, c, [session EXCEPT !.round = OneMore(@, RoundLimit)],
                            [Handler(c, "counts") EXCEPT !.wallet = tasks[t].wallet,
                                                         !.count = OneMore(session.round, RoundLimit)],
                            Answer(c, "failed"))

ChecksWords_NotCounted(t) == LET c == tasks[t].chat IN
    /\ Arrives(t, "checks")
    /\ IF tasks[t].wallet = NoWallet \/ ~tasks[t].words
       THEN Becomes(t, Free) /\ UNCHANGED <<sessions, guesses, verified>>
       ELSE Judges(t, c, sessions[c], sessions[c].total)
    /\ UNCHANGED <<keyVars, temp, offered, cleanupDue, crashes, created, shown, dropped,
                   announced>>

ChecksWords(t) == LET c == tasks[t].chat IN
    /\ Arrives(t, "checks")
    /\ CASE tasks[t].wallet = NoWallet \/ ~tasks[t].words ->
              /\ Becomes(t, Free)
              /\ UNCHANGED <<sessions, guesses, verified>>
         [] tasks[t].wallet # NoWallet /\ tasks[t].words /\ HasSession(c) ->
              /\ sessions' = [sessions EXCEPT ![c].total = OneMore(@, TotalLimit), ![c].idle = FALSE]
              /\ Saves(t, [Continues(t, "judges") EXCEPT !.count = OneMore(sessions[c].total, TotalLimit)])
              /\ UNCHANGED <<guesses, verified>>
         [] OTHER -> Judges(t, c, NoSession, 1)
    /\ UNCHANGED <<keyVars, temp, offered, cleanupDue, crashes, created, shown, dropped, announced>>

JudgesWords(t) == LET c == tasks[t].chat IN
    /\ Arrives(t, "judges")
    /\ Judges(t, c, sessions[c], tasks[t].count)
    /\ UNCHANGED <<keyVars, temp, offered, cleanupDue, crashes, created, shown, dropped, announced>>

GivesUp(t) ==
    /\ Arrives(t, "givesUp")
    /\ temp' = temp \ {tasks[t].chat}
    /\ Becomes(t, Free)
    /\ UNCHANGED <<keyVars, sessions, offered, pastVars>>

UnsealsPhrase(t) == LET c == tasks[t].chat IN
    /\ Arrives(t, "unseals")
    /\ Updates(t, c, [sessions[c] EXCEPT !.state = "limits"], Answer(c, "limits"),
               Answer(c, "limits"))
    /\ UNCHANGED <<keyVars, temp, offered, pastVars>>

CountsFailure_OffersLimits(t) == LET c == tasks[t].chat IN
    /\ Arrives(t, "counts")
    /\ UNCHANGED sessions
    /\ Becomes(t, Answer(c, "limits"))
    /\ UNCHANGED <<keyVars, temp, offered, pastVars>>

(* After RoundLimit wrong answers the phrase is shown again.               *)
CountsFailure(t) == LET c == tasks[t].chat IN
    /\ Arrives(t, "counts")
    /\ IF tasks[t].count >= RoundLimit
       THEN Updates(t, c, [sessions[c] EXCEPT !.state = "displayed", !.round = 0],
                    PhraseAnswer(c, tasks[t].wallet), PhraseAnswer(c, tasks[t].wallet))
       ELSE UNCHANGED sessions /\ Becomes(t, Answer(c, "failed"))
    /\ UNCHANGED <<keyVars, temp, offered, pastVars>>

-----------------------------------------------------------------------------
(* handleLimitsSelection(): the limit is stored, config.json rewritten, and *)
(* the session closed; the address is the key manager's.                   *)
PressLimit(t, c) ==
    /\ Begins(t)
    /\ "limits" \in offered[c]
    /\ IF HasSession(c)
       THEN /\ sessions' = [sessions EXCEPT ![c].idle = FALSE]
            /\ Saves(t, Handler(c, "configures"))
       ELSE UNCHANGED sessions /\ Waits(t, Handler(c, "completes"))
    /\ UNCHANGED <<keyVars, temp, offered, pastVars>>

WritesLimit(t) ==
    /\ Arrives(t, "configures")
    /\ Waits(t, Handler(tasks[t].chat, "completes"))
    /\ UNCHANGED <<keyVars, sessions, temp, offered, pastVars>>

Completes(t) == LET c == tasks[t].chat IN
    /\ Arrives(t, "completes")
    /\ AddressIsRead
    /\ CASE Address = NoWallet -> UNCHANGED sessions /\ Becomes(t, Free)
         [] Address # NoWallet /\ HasSession(c) ->
              /\ sessions' = [sessions EXCEPT ![c].state = "complete"]
              /\ Saves(t, [Handler(c, "closes") EXCEPT !.wallet = Address])
         [] OTHER -> Clears(t, c, [Handler(c, "announces") EXCEPT !.wallet = Address])
    /\ UNCHANGED <<disk, key, made, deleting, temp, offered, pastVars>>

ClosesSession(t) ==
    /\ Arrives(t, "closes")
    /\ Clears(t, tasks[t].chat, Continues(t, "announces"))
    /\ UNCHANGED <<keyVars, temp, offered, pastVars>>

AnnouncesWallet(t) ==
    /\ Arrives(t, "announces")
    /\ temp' = temp \ {tasks[t].chat}
    /\ announced' = announced \cup {tasks[t].wallet}
    /\ Becomes(t, Free)
    /\ UNCHANGED <<keyVars, sessions, offered, cleanupDue, crashes, created, shown, dropped,
                   guesses, verified>>

-----------------------------------------------------------------------------
PressResume(t, c) == LET s == sessions[c] IN
    /\ Begins(t)
    /\ CASE s.idle -> Clears(t, c, Handler(c, "starts"))
         [] ~s.idle /\ s.state \in {"none", "complete"} -> StartsSession(t, c)
         [] ~s.idle /\ s.state = "weak" -> PromptsPassphrase(t, c)
         [] ~s.idle /\ s.state = "verifying" /\ ~s.words -> NewWords(t, c)
         [] ~s.idle /\ s.state = "displayed" /\ Sealed(c) ->
              /\ UNCHANGED sessions
              /\ Waits(t, [Handler(c, "decrypts") EXCEPT !.wallet = Opened(c)])
         [] OTHER ->
              /\ UNCHANGED sessions
              /\ Becomes(t, IF s.state = "limits" THEN Answer(c, "limits") ELSE Free)
    /\ UNCHANGED <<keyVars, temp, offered, pastVars>>

PressRestart(t, c) ==
    /\ Begins(t)
    /\ Clears(t, c, Handler(c, "restarts"))
    /\ UNCHANGED <<keyVars, temp, offered, pastVars>>

-----------------------------------------------------------------------------
(* Fifteen minutes without an update; five for a passphrase.               *)
Idles(c) ==
    /\ HasSession(c) /\ ~sessions[c].idle
    /\ \A t \in Slots : tasks[t].chat # c
    /\ sessions' = [sessions EXCEPT ![c].idle = TRUE]
    /\ UNCHANGED <<keyVars, temp, file, tempFile, tasks, offered, pastVars, overlapped>>

PassphraseExpires(c) ==
    /\ c \in temp
    /\ temp' = temp \ {c}
    /\ UNCHANGED <<keyVars, sessions, file, tempFile, tasks, offered, pastVars, overlapped>>

(* cleanupExpiredSessions(), once after every start.                       *)
CleansUp(t) ==
    /\ cleanupDue
    /\ cleanupDue' = FALSE
    /\ Begins(t)
    /\ LET expired == {c \in Chats : sessions[c].idle} IN
       IF expired = {} THEN UNCHANGED <<sessions, tasks, overlapped>>
       ELSE /\ sessions' = [c \in Chats |-> IF c \in expired THEN NoSession ELSE sessions[c]]
            /\ SavesOver(t, Answer(NoChat, "nothing"), expired)
    /\ UNCHANGED <<keyVars, temp, offered, crashes, created, shown, dropped, guesses, verified, announced>>

(* The handler that made w has not shown its phrase yet.                   *)
Carries(t, w) == tasks[t].wallet = w /\ tasks[t].origin # ""

Crash ==
    /\ crashes < MaxCrashes
    /\ crashes' = crashes + 1
    /\ KeysAreForgotten(disk)
    /\ sessions' = IF file = NoFile THEN NoSessions ELSE file
    /\ temp' = {}
    /\ tasks' = [t \in Slots |-> Free]
    /\ cleanupDue' = TRUE
    /\ dropped' = dropped \cup {w \in created \ shown : \E t \in Slots : Carries(t, w)}
    /\ UNCHANGED <<file, tempFile, offered, created, shown, guesses, verified, announced,
                   overlapped>>

-----------------------------------------------------------------------------
Presses(t, c) ==
    \/ PressStart(t, c) \/ PressRetry(t, c) \/ PressWeakOk(t, c) \/ PressSaved(t, c)
    \/ PressShowAgain(t, c) \/ PressVerifyRetry(t, c) \/ PressLimit(t, c)
    \/ PressResume(t, c) \/ PressRestart(t, c)

Texts(t, c) ==
    \/ WalletCommand(t, c) \/ TextInExpiredSession(t, c)
    \/ TextWeakPassphrase(t, c) \/ TextStrongPassphrase(t, c)
    \/ \E claim \in shown \cup {NoWallet} : TextWords(t, c, claim)

HandlerGoesOn(t) ==
    \/ SaveMakesDirectory(t) \/ SaveWrites(t) \/ SaveFails(t)
    \/ AnswerIsReady(t) \/ AnswerIsShown(t) \/ StartsOver(t)
    \/ HashesPassphrase(t) \/ CreatesWithHash(t) \/ SealsPhrase(t) \/ DisplaysPhrase(t)
    \/ AsksForWords(t) \/ ShowsDecrypted(t) \/ AsksAgain(t)
    \/ ChecksWords(t) \/ JudgesWords(t) \/ GivesUp(t) \/ UnsealsPhrase(t) \/ CountsFailure(t)
    \/ WritesLimit(t) \/ Completes(t) \/ ClosesSession(t) \/ AnnouncesWallet(t)

SetupNext ==
    \/ \E t \in Slots, c \in Chats : Presses(t, c) \/ Texts(t, c)
    \/ \E t \in Slots : HandlerGoesOn(t) \/ CleansUp(t)
    \/ \E c \in Chats : Idles(c) \/ PassphraseExpires(c)
    \/ Crash

SetupSpec == SetupInit /\ [][SetupNext]_<<keyVars, setupVars>>

-----------------------------------------------------------------------------
(* The recovery phrase of a wallet the onboarding made, and that is still   *)
(* there, reaches its owner: it is lost only to a crash while the handler   *)
(* that made the wallet still held it, or when two saves met on the one     *)
(* temporary file and the second rename failed.                            *)
PhraseLossHasCause == \A w \in created \ shown : disk = w =>
    (\E t \in Slots : Carries(t, w)) \/ w \in dropped \/ overlapped

(* Fewer answers than TotalLimit are compared with a phrase, over all rounds *)
(* - but for an answer each of the other handlers may hold when the session, *)
(* and the count with it, is dropped, again after every crash that brings a *)
(* dropped session back from the file - unless two saves overlapped and a   *)
(* crash brought an older count back.                                      *)
GuessesAreBounded == \A w \in Wallets :
    \/ guesses[w] < TotalLimit + (crashes + 1) * (Cardinality(Slots) - 1)
    \/ overlapped /\ crashes > 0

(* What the owner verified, and what the completion message calls ready, is *)
(* the wallet of the keystore, and ready means verified, whatever buttons   *)
(* of earlier sessions are pressed in between.                             *)
SetupIsOfThisWallet == verified \subseteq {disk} /\ announced \subseteq verified

(* When no handler is under way the file holds the sessions: no change of a *)
(* session is lost to the order of the saves, unless saves overlapped.     *)
FileCatchesUp ==
    (\A t \in Slots : tasks[t] = Free) /\ ~overlapped
    => Snapshot = IF file = NoFile THEN NoSessions ELSE file
=============================================================================
