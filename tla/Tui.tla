--------------------------------- MODULE Tui ---------------------------------
(***************************************************************************)
(* The keys, dialogs and calls of the TUI (cmd/nowplaying/tui/model.go):   *)
(* what Model.Update does with a key, the goroutine of each command that a *)
(* key starts, the daemon's loop for the TUI's connection                  *)
(* (internal/ipc/server.go), which runs one request after the other, and   *)
(* the messages that come back to Update in any order.                     *)
(*                                                                         *)
(* A query is abstracted to whether anything is left of it when trimmed,   *)
(* the results to the search they answer and their number.  The flash is   *)
(* its text; when it is over is left to the environment.                   *)
(***************************************************************************)
EXTENDS Integers, Sequences, FiniteSets

CONSTANTS
  MaxKeys,     \* bound: keys that start a call
  MaxResults,  \* results of one search (10)
  MaxBreaks    \* bound: connections that break

ASSUME TuiAssumption == {MaxKeys, MaxResults, MaxBreaks} \subseteq Nat

VARIABLES
  client,         \* m.client: the number of its connection, 0 for nil
  link,           \* the number of the connection that is up, 0 if none is
  searchMode, searchInput,
  searchResults,  \* the call they answer and how many are left to choose from
  searchCursor,
  flash,
  call,           \* the calls so far
  queue,          \* the requests the daemon has received from the connection
  breaks,         \* counter of the bound
  quit,
  before,         \* history: the searches on their way when "/" was pressed
  offline         \* history: the text of the flash was set without a connection

dialogVars == <<searchMode, searchInput, searchResults, searchCursor>>
callVars   == <<call, queue>>
linkVars   == <<client, link, breaks>>
tuiVars    == <<linkVars, dialogVars, flash, callVars, quit, before, offline>>

-----------------------------------------------------------------------------
NoResults == [of |-> 0, number |-> 0]
Kinds     == {"transport", "like", "search", "play", "auth"}
Inputs    == {"", "blank", "text"}

\* A call is written to its connection, queued and served there, and its answer
\* waits to be handled by Update.  Transport calls answer with no message.
Stages == {"started", "sent", "answered", "over"}

Outstanding(kind) == {c \in DOMAIN call : call[c].kind = kind /\ call[c].stage # "over"}

TuiInit ==
  /\ client = 0 /\ link = 0 /\ breaks = 0
  /\ searchMode = FALSE /\ searchInput = "" /\ searchResults = NoResults /\ searchCursor = 0
  /\ flash = "none"
  /\ call = <<>> /\ queue = <<>>
  /\ quit = FALSE
  /\ before = {}
  /\ offline = FALSE

-----------------------------------------------------------------------------
(* Keys.                                                                   *)

\* callCmd, searchQueryCmd, playTrackCmd, authStartCmd, likeCmd: no command
\* without a client.
Start(kind) ==
  /\ Len(call) < MaxKeys
  /\ call' = IF client = 0 THEN call
             ELSE Append(call, [kind |-> kind, conn |-> client, stage |-> "started",
                                ok |-> FALSE, number |-> 0])

FlashText(text) == flash' = text /\ offline' = (client = 0)

\* Mutant: the dialog stays open after enter.
SearchEnterStays ==
  /\ searchInput' = "" /\ UNCHANGED searchMode
  /\ IF searchInput = "text"
     THEN FlashText("searching...") /\ Start("search")
     ELSE UNCHANGED <<flash, offline, call>>

\* Enter in the search dialog.
SearchEnter ==
  /\ searchMode' = FALSE /\ searchInput' = ""
  /\ IF searchInput = "text"
     THEN FlashText("searching...") /\ Start("search")
     ELSE UNCHANGED <<flash, offline, call>>

\* What is left of a query without its last rune.
Shorter(input) == CASE input = "text"  -> {"text", "blank", ""}
                    [] input = "blank" -> {"blank", ""}
                    [] OTHER           -> {""}

HandleSearchKey(k) ==
  \/ k = "enter" /\ SearchEnter /\ UNCHANGED quit
  \/ /\ k # "enter"
     /\ searchMode' = (k # "esc")
     /\ searchInput' \in CASE k = "esc" -> {""}
                           [] k = "backspace" -> Shorter(searchInput)
                           [] k = "space" -> {IF searchInput = "text" THEN "text" ELSE "blank"}
                           [] k \in {"ctrl+c", "up", "down"} -> {searchInput}
                           [] OTHER -> {"text"}
     /\ quit' = (k = "ctrl+c")
     /\ UNCHANGED <<flash, offline, call>>

\* Mutant: the cursor may pass the last result.
MovedUnbounded(k) ==
  CASE k \in {"j", "down"} -> searchCursor + 1
    [] k \in {"k", "up"} /\ searchCursor > 0 -> searchCursor - 1
    [] OTHER -> searchCursor

Moved(k) ==
  CASE k \in {"j", "down"} /\ searchCursor < searchResults.number - 1 -> searchCursor + 1
    [] k \in {"k", "up"} /\ searchCursor > 0 -> searchCursor - 1
    [] OTHER -> searchCursor

\* Enter plays the result under the cursor, which is not reset.
HandleResultsKey(k) ==
  /\ searchCursor' = Moved(k)
  /\ searchResults' = IF k \in {"enter", "esc"} THEN NoResults ELSE searchResults
  /\ IF k = "enter" THEN FlashText("playing") /\ Start("play")
     ELSE UNCHANGED <<flash, offline, call>>
  /\ quit' = (k \in {"q", "ctrl+c"})

HandleKey(k) ==
  /\ CASE k \in {"space", "n", "p"} -> Start("transport")
       [] k = "l" -> Start("like")
       [] k = "a" -> Start("auth")
       [] OTHER -> UNCHANGED call
  /\ IF k = "a" THEN FlashText("opening browser...") ELSE UNCHANGED <<flash, offline>>
  /\ searchMode' = (k = "/")
  /\ searchInput' = IF k = "/" THEN "" ELSE searchInput
  /\ before' = IF k = "/" THEN Outstanding("search") ELSE before
  /\ quit' = (k \in {"q", "ctrl+c"})

\* "x" stands for the keys that no dialog knows, and for "t" and "v".
Keys == {"space", "n", "p", "l", "a", "/", "q", "ctrl+c", "enter", "esc", "backspace",
         "j", "k", "up", "down", "x"}

\* Results that are shown take the keys, then the search dialog.
Key(k) ==
  /\ ~quit
  /\ \/ /\ searchResults.number > 0
        /\ HandleResultsKey(k)
        /\ UNCHANGED <<searchMode, searchInput, before>>
     \/ /\ searchResults.number = 0 /\ searchMode
        /\ HandleSearchKey(k)
        /\ UNCHANGED <<searchResults, searchCursor, before>>
     \/ /\ searchResults.number = 0 /\ ~searchMode
        /\ HandleKey(k)
        /\ UNCHANGED <<searchResults, searchCursor>>
  /\ UNCHANGED <<linkVars, queue>>

-----------------------------------------------------------------------------
(* The goroutines of the calls, and the daemon's loop for the connection.  *)

\* A call on a connection that is down, or that goes down, returns an error.
\* A transport call's goroutine is over when the call is.
Answered(c, isOk, number) ==
  [c EXCEPT !.stage = IF c.kind = "transport" THEN "over" ELSE "answered",
            !.ok = isOk, !.number = number]

CallSend(c) ==
  /\ call[c].stage = "started"
  /\ IF call[c].conn = link
     THEN call' = [call EXCEPT ![c].stage = "sent"] /\ queue' = Append(queue, c)
     ELSE call' = [call EXCEPT ![c] = Answered(@, FALSE, 0)] /\ UNCHANGED queue
  /\ UNCHANGED <<linkVars, dialogVars, flash, quit, before, offline>>

\* Mutant: an authorization waits for its callback for ever.
ServeAuthUntimed ==
  /\ queue # <<>>
  /\ call[Head(queue)].kind # "auth"
  /\ LET c == Head(queue)
     IN  \E isOk \in BOOLEAN, number \in 0 .. MaxResults :
           /\ number > 0 => isOk /\ call[c].kind = "search"
           /\ call' = [call EXCEPT ![c] = Answered(@, isOk, number)]
  /\ queue' = Tail(queue)
  /\ UNCHANGED <<linkVars, dialogVars, flash, quit, before, offline>>

\* The handler of the oldest request returns: serveClient reads the next frame
\* only afterwards.  auth.start returns when its 120 s are over at the latest,
\* search, like and play when their HTTP requests time out.
Serve ==
  /\ queue # <<>>
  /\ LET c == Head(queue)
     IN  \E isOk \in BOOLEAN, number \in 0 .. MaxResults :
           /\ number > 0 => isOk /\ call[c].kind = "search"
           /\ call' = [call EXCEPT ![c] = Answered(@, isOk, number)]
  /\ queue' = Tail(queue)
  /\ UNCHANGED <<linkVars, dialogVars, flash, quit, before, offline>>

-----------------------------------------------------------------------------
(* The messages of the calls in Update.                                    *)

\* searchResultsMsg
ShowResults(c) ==
  IF call[c].number = 0
  THEN FlashText("no results") /\ UNCHANGED dialogVars
  ELSE /\ searchResults' = [of |-> c, number |-> call[c].number]
       /\ searchCursor' = 0
       /\ UNCHANGED <<flash, offline, searchMode, searchInput>>

\* Mutant: only failures of the authorization are shown.
ShowAuthFailure(c) ==
  /\ IF call[c].ok THEN UNCHANGED <<flash, offline>> ELSE FlashText("auth failed")
  /\ UNCHANGED dialogVars

\* authResultMsg
ShowAuth(c) ==
  /\ FlashText(IF call[c].ok THEN "authenticated!" ELSE "auth failed")
  /\ UNCHANGED dialogVars

\* Of the calls that play a result only a failure has a message.
UpdateAnswer(c) ==
  /\ ~quit
  /\ call[c].stage = "answered"
  /\ call' = [call EXCEPT ![c].stage = "over"]
  /\ CASE call[c].kind = "search" /\ call[c].ok -> ShowResults(c)
       [] call[c].kind = "auth" -> ShowAuth(c)
       [] call[c].kind = "like" /\ call[c].ok -> FlashText("liked") /\ UNCHANGED dialogVars
       [] call[c].kind = "play" /\ call[c].ok -> UNCHANGED <<flash, offline, dialogVars>>
       [] OTHER -> FlashText("failed") /\ UNCHANGED dialogVars
  /\ UNCHANGED <<linkVars, queue, quit, before>>

\* The flash is drawn until its time is over.
FlashOver ==
  /\ flash # "none"
  /\ flash' = "none" /\ offline' = FALSE
  /\ UNCHANGED <<linkVars, dialogVars, callVars, quit, before>>

-----------------------------------------------------------------------------
(* The connection, of which module Pipeline has the details.               *)

Connected ==
  /\ ~quit
  /\ client = 0 /\ link = 0
  /\ link' = breaks + 1
  /\ client' = breaks + 1
  /\ UNCHANGED <<breaks, dialogVars, flash, callVars, quit, before, offline>>

\* The calls that wait on the connection return an error.
Broken ==
  /\ link # 0
  /\ breaks < MaxBreaks
  /\ link' = 0
  /\ breaks' = breaks + 1
  /\ queue' = <<>>
  /\ call' = [c \in DOMAIN call |-> IF call[c].stage = "sent" THEN Answered(call[c], FALSE, 0)
                                    ELSE call[c]]
  /\ UNCHANGED <<client, dialogVars, flash, quit, before, offline>>

\* disconnectedMsg: dialogs stay as they are.
Disconnected ==
  /\ ~quit
  /\ client # 0 /\ link = 0
  /\ client' = 0
  /\ UNCHANGED <<link, breaks, dialogVars, flash, callVars, quit, before, offline>>

-----------------------------------------------------------------------------
Answers == \E c \in DOMAIN call : CallSend(c) \/ UpdateAnswer(c)

TuiNext ==
  \/ \E k \in Keys : Key(k)
  \/ Answers
  \/ Serve
  \/ FlashOver
  \/ Connected \/ Broken \/ Disconnected

\* Goroutines go on, Bubble Tea's loop handles every message, and every handler
\* of the daemon returns.  Nobody has to press a key.
TuiFairness ==
  /\ \A c \in 1 .. MaxKeys : WF_tuiVars(c \in DOMAIN call /\ (CallSend(c) \/ UpdateAnswer(c)))
  /\ WF_tuiVars(Serve)

TuiSpec == TuiInit /\ [][TuiNext]_tuiVars
FairTuiSpec == TuiSpec /\ TuiFairness

-----------------------------------------------------------------------------
\* What View draws in its last line.
Hints ==
  CASE client = 0 -> "press q to quit"
    [] client # 0 /\ searchResults.number > 0 -> "results"
    [] client # 0 /\ searchResults.number = 0 /\ searchMode -> "query"
    [] OTHER -> flash

-----------------------------------------------------------------------------
(* Properties.                                                             *)

\* Types; and the index with which enter plays a result (model.go:249) is that
\* of a result, whatever results replaced the ones the cursor was moved over.
TuiTypeOK ==
  /\ client \in 0 .. MaxBreaks + 1 /\ link \in 0 .. MaxBreaks + 1 /\ breaks \in 0 .. MaxBreaks
  /\ searchMode \in BOOLEAN /\ searchInput \in Inputs
  /\ searchResults \in [of : 0 .. MaxKeys, number : 0 .. MaxResults]
  /\ searchCursor \in Nat
  /\ searchResults.number > 0 => searchCursor < searchResults.number
  /\ call \in Seq([kind : Kinds, conn : 1 .. MaxBreaks + 1, stage : Stages,
                   ok : BOOLEAN, number : 0 .. MaxResults])
  /\ Len(call) <= MaxKeys
  /\ queue \in Seq(DOMAIN call)
  /\ quit \in BOOLEAN /\ offline \in BOOLEAN /\ before \subseteq DOMAIN call

\* Results take the keys of a query that is being typed only if they answer a search
\* that was already on its way when "/" was pressed (model.go:145, 159).
TypingUndisturbed == searchMode /\ searchResults.number > 0 => searchResults.of \in before

\* "opening browser" is on the screen only while an authorization is on its way
\* (model.go:195), however many were started and in whatever order they answer;
\* except that "a" was pressed without a connection.
BrowserFlashHonest ==
  Hints = "opening browser..." => offline \/ Outstanding("auth") # {}

\* Every call a key started comes to an end, also behind an authorization that
\* occupies the connection's loop in the daemon (server.go:183, auth.go:110), and
\* whenever the connection breaks.
CallsEnd == <>[](quit \/ \A c \in DOMAIN call : call[c].stage = "over")
=============================================================================
