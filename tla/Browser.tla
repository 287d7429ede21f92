------------------------------- MODULE Browser -------------------------------
(***************************************************************************)
(* browser.cc, window_list.cc and the windows' part in closing: how the    *)
(* application quits.  Everything runs on the UI thread, but every event   *)
(* (before-quit, close, closed, window-all-closed, will-quit, quit) runs   *)
(* JavaScript, which may quit, exit, open, close and destroy windows in    *)
(* the middle of the code that emits it.  The calls that are on the stack  *)
(* are therefore part of the state.  Pages answer asynchronously.          *)
(***************************************************************************)
EXTENDS Naturals, Sequences

CONSTANTS Windows,      \* the windows that are created, 1..n in order
          MaxCalls      \* bound: calls JavaScript makes

VARIABLES
    is_quitting, is_exiting, is_shutdown,   \* members of Browser
    windows,        \* windows_ of WindowList, in order
    page,           \* page of each window, see below
    stack,          \* the calls on the stack, innermost first
    calls,          \* number of calls JavaScript has made
    newer,          \* history: windows created while quitting
    too_new,        \* history: windows created from will-quit or after Shutdown
    cancelled       \* history: the last thing that happened to a quit was its cancellation

browserVars == <<is_quitting, is_exiting, is_shutdown, windows, page, stack, calls, newer,
                 too_new, cancelled>>

\* "none": not created.  "bare": a window without a page.  "loaded", "asked"
\* (to close), "closing" (its contents are to be destroyed): the page of a
\* BrowserWindow.  "closed": is_closed_ of the window.
Pages == {"none", "bare", "loaded", "asked", "closing", "closed"}
IsOpen(w) == page[w] \notin {"none", "closed"}

Init ==
    /\ is_quitting = FALSE /\ is_exiting = FALSE /\ is_shutdown = FALSE
    /\ windows = <<>> /\ page = [w \in Windows |-> "none"]
    /\ stack = <<>> /\ calls = 0
    /\ newer = {} /\ too_new = {} /\ cancelled = FALSE

\* A call on the stack: an event that runs JavaScript, for window w, or a loop
\* over the windows that are left in the list.
Event(event, w) == [call |-> event, window |-> w, list |-> <<>>]
Loop(loop, list) == [call |-> loop, window |-> 0, list |-> list]
Top == Head(stack)
Loops == {"CloseAllWindows", "DestroyAllWindows"}
InCall(call) == stack # <<>> /\ Top.call = call

\* JavaScript runs: from the message loop, while there is one, or in an event.
Running ==
    IF stack = <<>> THEN ~is_shutdown ELSE Top.call \notin Loops

Call == Running /\ calls < MaxCalls /\ calls' = calls + 1
-----------------------------------------------------------------------------
\* Shutdown, on top of the calls of rest.
Shutdown(rest) ==
    IF is_shutdown THEN stack' = rest /\ UNCHANGED <<is_shutdown, is_quitting>>
    ELSE /\ is_shutdown' = TRUE /\ is_quitting' = TRUE
         /\ stack' = <<Event("quit", 0)>> \o rest

\* NotifyAndShutdown up to OnWillQuit.
Notify(rest) == IF is_shutdown THEN rest ELSE <<Event("will-quit", 0)>> \o rest

\* Browser::Quit up to HandleBeforeQuit's event.
Quit ==
    /\ Call
    /\ ~is_quitting
    /\ stack' = <<Event("before-quit", 0)>> \o stack
    /\ UNCHANGED <<is_quitting, is_exiting, is_shutdown, windows, page, newer, too_new, cancelled>>

\* ... and from there on.  The calls made meanwhile may have quit already.
ReturnBeforeQuit(prevented) ==
    /\ InCall("before-quit")
    /\ is_quitting' = ~prevented /\ cancelled' = prevented
    /\ stack' = CASE prevented        -> Tail(stack)
                  [] ~prevented /\ windows = <<>> -> Notify(Tail(stack))
                  [] ~prevented /\ windows # <<>> -> <<Loop("CloseAllWindows", windows)>> \o Tail(stack)
    /\ UNCHANGED <<is_exiting, is_shutdown, windows, page, calls, newer, too_new>>

ReturnWillQuit(prevented) ==
    /\ InCall("will-quit")
    /\ IF prevented
       THEN /\ is_quitting' = FALSE /\ cancelled' = TRUE
            /\ stack' = Tail(stack)
            /\ UNCHANGED is_shutdown
       ELSE Shutdown(Tail(stack)) /\ UNCHANGED cancelled
    /\ UNCHANGED <<is_exiting, windows, page, calls, newer, too_new>>

Exit ==
    /\ Call
    /\ is_exiting' = TRUE /\ cancelled' = FALSE
    /\ IF windows = <<>>
       THEN /\ is_shutdown' = TRUE
            /\ stack' = IF is_shutdown THEN stack ELSE <<Event("quit", 0)>> \o stack
       ELSE /\ stack' = <<Loop("DestroyAllWindows", windows)>> \o stack
            /\ UNCHANGED is_shutdown
    /\ is_quitting' = TRUE
    /\ UNCHANGED <<windows, page, newer, too_new>>
-----------------------------------------------------------------------------
\* WindowList::AddWindow.
NewWindow(w, kind) ==
    /\ Call
    /\ page[w] = "none" /\ \A v \in Windows : v < w => page[v] # "none"
    /\ page' = [page EXCEPT ![w] = kind]
    /\ windows' = Append(windows, w)
    /\ newer' = IF is_quitting THEN newer \cup {w} ELSE newer
    /\ too_new' = IF is_shutdown \/ \E i \in DOMAIN stack : stack[i].call = "will-quit"
                  THEN too_new \cup {w} ELSE too_new
    /\ UNCHANGED <<is_quitting, is_exiting, is_shutdown, stack, cancelled>>

\* A faulty WindowCloseCancelled that leaves the quit in progress.
WindowCloseCancelledKeeps ==
    cancelled' = (cancelled \/ is_quitting) /\ UNCHANGED is_quitting

\* Browser::OnWindowCloseCancelled: the quit is cancelled too.
WindowCloseCancelled ==
    cancelled' = (cancelled \/ is_quitting) /\ is_quitting' = FALSE

\* NativeWindow::CloseImmediately, up to the event closed.
CloseNow(w, rest) ==
    /\ page' = [page EXCEPT ![w] = "closed"]
    /\ stack' = <<Event("closed", w)>> \o rest

\* window.close(), the user's click and CloseAllWindows.
Close(w) ==
    /\ Call
    /\ IsOpen(w)
    /\ stack' = <<Event("close", w)>> \o stack
    /\ UNCHANGED <<is_quitting, is_exiting, is_shutdown, windows, page, newer, too_new, cancelled>>

Destroy(w) ==
    /\ Call
    /\ IsOpen(w)
    /\ CloseNow(w, stack)
    /\ UNCHANGED <<is_quitting, is_exiting, is_shutdown, windows, newer, too_new, cancelled>>

\* NotifyWindowCloseButtonClicked after the event: prevented, or asking the
\* page, or closing at once if there is none.  The event may have closed it.
\* A window that is not closable is as one that prevents it.
ReturnClose(prevented) ==
    /\ InCall("close")
    /\ LET w == Top.window IN
       IF prevented
       THEN /\ WindowCloseCancelled
            /\ stack' = Tail(stack)
            /\ UNCHANGED page
       ELSE /\ IF page[w] = "bare" THEN CloseNow(w, Tail(stack))
               ELSE /\ stack' = Tail(stack)
                    /\ page' = [page EXCEPT ![w] = IF @ = "loaded" THEN "asked" ELSE @]
            /\ UNCHANGED <<is_quitting, cancelled>>
    /\ UNCHANGED <<is_exiting, is_shutdown, windows, calls, newer, too_new>>

\* RemoveWindow: the list without a window, which is in it at most once.
Without(list, w) ==
    IF \A i \in DOMAIN list : list[i] # w THEN list
    ELSE LET at == CHOOSE i \in DOMAIN list : list[i] = w
         IN  SubSeq(list, 1, at - 1) \o SubSeq(list, at + 1, Len(list))

\* A faulty RemoveWindow that does not look at is_quitting_ any more.
ReturnClosedForgets ==
    /\ InCall("closed")
    /\ windows' = Without(windows, Top.window)
    /\ IF windows' = <<>> /\ is_exiting THEN Shutdown(Tail(stack))
       ELSE /\ stack' = IF windows' # <<>> THEN Tail(stack)
                        ELSE <<Event("window-all-closed", 0)>> \o Tail(stack)
            /\ UNCHANGED <<is_shutdown, is_quitting>>
    /\ UNCHANGED <<is_exiting, page, calls, newer, too_new, cancelled>>

\* NotifyWindowClosed after the event: RemoveWindow, and for the last one
\* Browser::OnWindowAllClosed.
ReturnClosed ==
    /\ InCall("closed")
    /\ windows' = Without(windows, Top.window)
    /\ IF windows' = <<>> /\ is_exiting THEN Shutdown(Tail(stack))
       ELSE /\ stack' = CASE windows' # <<>>                 -> Tail(stack)
                          [] windows' = <<>> /\ is_quitting  -> Notify(Tail(stack))
                          [] windows' = <<>> /\ ~is_quitting ->
                                <<Event("window-all-closed", 0)>> \o Tail(stack)
            /\ UNCHANGED <<is_shutdown, is_quitting>>
    /\ UNCHANGED <<is_exiting, page, calls, newer, too_new, cancelled>>

\* The events after which there is nothing left to do.
ReturnEvent ==
    /\ InCall("quit") \/ InCall("window-all-closed")
    /\ stack' = Tail(stack)
    /\ UNCHANGED <<is_quitting, is_exiting, is_shutdown, windows, page, calls, newer, too_new,
                   cancelled>>

\* A round of CloseAllWindows or DestroyAllWindows: the next window of the
\* list it started with, unless it is closed meanwhile.
CloseNext ==
    /\ stack # <<>> /\ Top.call \in Loops
    /\ IF Top.list = <<>> THEN stack' = Tail(stack) /\ UNCHANGED page
       ELSE LET w == Head(Top.list)
                rest == <<Loop(Top.call, Tail(Top.list))>> \o Tail(stack)
            IN CASE ~IsOpen(w) -> stack' = rest /\ UNCHANGED page
                 [] IsOpen(w) /\ Top.call = "CloseAllWindows" ->
                       stack' = <<Event("close", w)>> \o rest /\ UNCHANGED page
                 [] IsOpen(w) /\ Top.call = "DestroyAllWindows" -> CloseNow(w, rest)
    /\ UNCHANGED <<is_quitting, is_exiting, is_shutdown, windows, calls, newer, too_new, cancelled>>
-----------------------------------------------------------------------------
(* The pages, from the message loop. *)

\* The page agrees to be closed, or closes itself: CloseContents posts the
\* destruction of the contents.
PageCloses(w) ==
    /\ stack = <<>> /\ ~is_shutdown
    /\ page[w] \in {"loaded", "asked"}
    /\ page' = [page EXCEPT ![w] = "closing"]
    /\ UNCHANGED <<is_quitting, is_exiting, is_shutdown, windows, stack, calls, newer, too_new,
                   cancelled>>

\* beforeunload prevents it: BeforeUnloadDialogCancelled.
PageStays(w) ==
    /\ stack = <<>> /\ ~is_shutdown
    /\ page[w] = "asked"
    /\ page' = [page EXCEPT ![w] = "loaded"]
    /\ WindowCloseCancelled
    /\ UNCHANGED <<is_exiting, is_shutdown, windows, stack, calls, newer, too_new>>

\* The contents are destroyed: WebContentsDestroyed closes the window.
WebContentsDestroyed(w) ==
    /\ stack = <<>> /\ ~is_shutdown
    /\ page[w] = "closing"
    /\ CloseNow(w, stack)
    /\ UNCHANGED <<is_quitting, is_exiting, is_shutdown, windows, calls, newer, too_new, cancelled>>
-----------------------------------------------------------------------------
Return ==
    \/ \E prevented \in BOOLEAN :
          ReturnBeforeQuit(prevented) \/ ReturnWillQuit(prevented) \/ ReturnClose(prevented)
    \/ ReturnClosed \/ ReturnEvent \/ CloseNext

PageAnswers(w) == page[w] = "asked" /\ (PageCloses(w) \/ PageStays(w))

Next ==
    \/ Quit \/ Exit
    \/ \E w \in Windows :
          \/ \E kind \in {"bare", "loaded"} : NewWindow(w, kind)
          \/ Close(w) \/ Destroy(w)
          \/ PageCloses(w) \/ PageStays(w) \/ WebContentsDestroyed(w)
    \/ Return

\* Handlers return, pages answer when they are asked, tasks run.
Fairness ==
    /\ WF_browserVars(Return)
    /\ \A w \in Windows : WF_browserVars(PageAnswers(w)) /\ WF_browserVars(WebContentsDestroyed(w))

NoStep == UNCHANGED browserVars
Spec == Init /\ [][Next]_browserVars /\ Fairness
-----------------------------------------------------------------------------
\* Types.
TypeOK ==
    /\ {is_quitting, is_exiting, is_shutdown, cancelled} \subseteq BOOLEAN
    /\ windows \in Seq(Windows) /\ page \in [Windows -> Pages]
    /\ calls \in 0..MaxCalls
    /\ newer \subseteq Windows /\ too_new \subseteq Windows

\* browser.cc: "Must destroy windows before quitting, otherwise bad things can
\* happen."  The exception: windows created by a will-quit handler, or later.
WindowsAreGoneAtShutdown ==
    is_shutdown => \A i \in DOMAIN windows : windows[i] \in too_new

\* A quit that was prevented, by whichever event or page, does not end the
\* application until it is asked for again: the windows that still close
\* because of it do not resume it.  app.exit() cannot be prevented, and a
\* will-quit handler that opens windows is on its own.
CancelledQuitsStayCancelled ==
    [][is_shutdown' /\ ~is_shutdown => ~cancelled \/ is_exiting' \/ too_new # {}]_browserVars

\* A quit in progress ends the application or is cancelled, unless a window is
\* created meanwhile, which nobody asks to close.
QuitIsOver == is_shutdown \/ ~is_quitting \/ newer # {}
==============================================================================
