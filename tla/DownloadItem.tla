----------------------------- MODULE DownloadItem -----------------------------
(***************************************************************************)
(* api/electron_api_download_item.cc, electron_download_manager_delegate.cc *)
(* and OnDownloadCreated of the session: a download and the object that    *)
(* JavaScript has for it.  Each may be destroyed before the other: the     *)
(* object keeps a raw pointer to the download and pins itself until the    *)
(* download is done, and a collected object removes the download.  Where   *)
(* the file goes is decided while the download runs: by the path that      *)
(* JavaScript sets, or by a dialog, for which a path is made up on another *)
(* thread.  The download itself is Chromium's and external.                *)
(***************************************************************************)
EXTENDS Naturals

VARIABLES
    item,           \* external: "none", "in_progress", "interrupted", "failed" (interrupted
                    \* for good), "complete", "cancelled", or "gone"
    forced,         \* external: the download has a path of its own, GetForcedFilePath
    wrapper,        \* the object: "none", "yes", or "gone"
    download_item,  \* download_item_ of the object is set
    wrapper_pinned, \* the object is pinned
    wrapper_held,   \* JavaScript has a reference to it
    save_path,      \* save_path_: "none", or who set it: "script", "before", "dialog", or
                    \* "late" for JavaScript when the place of the file was decided already
    target,         \* "none", "generating", "dialog", "decided", or "lost" when the callback
                    \* was dropped
    target_path,    \* external: where the file goes, or "none"
    manager,        \* download_manager_ of the delegate is set
    done_events,    \* how often JavaScript was told that the download is done: 0, 1 or more
    dialog_undefined \* the dialog ended after the delegate

downloadVars == <<item, forced, wrapper, download_item, wrapper_pinned, wrapper_held, save_path,
                  target, target_path, manager, done_events, dialog_undefined>>

IsDone(state) == state \in {"failed", "complete", "cancelled"}
Exists(state) == state \notin {"none", "gone"}
MaxDoneEvents == 2      \* bound: told more than once

Init ==
    /\ item = "none" /\ forced = FALSE
    /\ wrapper = "none" /\ download_item = FALSE /\ wrapper_pinned = FALSE
    /\ wrapper_held = FALSE
    /\ save_path = "none" /\ target = "none" /\ target_path = "none"
    /\ manager = TRUE /\ done_events = 0 /\ dialog_undefined = FALSE
-----------------------------------------------------------------------------
\* A faulty OnDownloadUpdated that unpins the object at every update.
OnDownloadUpdatedUnpins(state) ==
    /\ item' = state /\ wrapper_pinned' = FALSE
    /\ done_events' = IF IsDone(state) /\ download_item /\ done_events < MaxDoneEvents
                      THEN done_events + 1 ELSE done_events

\* The download has a new state, or something else about it has changed, and
\* OnDownloadUpdated: done, whether that was told before or not, or updated.
OnDownloadUpdated(state) ==
    /\ item' = state
    /\ IF download_item /\ IsDone(state)
       THEN /\ done_events' = IF done_events < MaxDoneEvents THEN done_events + 1 ELSE done_events
            /\ wrapper_pinned' = FALSE
       ELSE UNCHANGED <<done_events, wrapper_pinned>>

\* OnDownloadCreated: will-download, in which JavaScript may set the path or
\* prevent the download.  One that was interrupted before is given its path.
OnDownloadCreated(state, has_path, path, prevented) ==
    /\ item = "none" /\ manager
    /\ wrapper' = "yes" /\ forced' = has_path
    /\ save_path' = IF path THEN "script" ELSE IF state = "interrupted" THEN "before" ELSE "none"
    /\ wrapper_held' = TRUE
    /\ IF prevented
       THEN /\ item' = "gone" /\ done_events' = 1
            /\ download_item' = FALSE /\ wrapper_pinned' = FALSE
       ELSE /\ item' = state /\ download_item' = TRUE /\ wrapper_pinned' = TRUE
            /\ UNCHANGED done_events
    /\ UNCHANGED <<target, target_path, manager, dialog_undefined>>

\* External: the download is removed by the manager; OnDownloadDestroyed.
OnDownloadDestroyed ==
    /\ Exists(item) /\ item' = "gone"
    /\ download_item' = FALSE /\ wrapper_pinned' = FALSE
    /\ UNCHANGED <<forced, wrapper, wrapper_held, save_path, target, target_path, manager,
                   done_events, dialog_undefined>>
-----------------------------------------------------------------------------
(* ElectronDownloadManagerDelegate. *)

Decide(path) == target' = "decided" /\ target_path' = path

DetermineDownloadTarget ==
    /\ item = "in_progress" /\ manager /\ target = "none"
    /\ CASE forced -> Decide("forced")
         [] ~forced /\ save_path # "none" -> Decide(save_path)
         [] ~forced /\ save_path = "none" -> target' = "generating" /\ UNCHANGED target_path
    /\ UNCHANGED <<item, forced, wrapper, download_item, wrapper_pinned, wrapper_held, save_path,
                   manager, done_events, dialog_undefined>>

\* The path of an object that is gone is not known: GetItemSavePath.
KnownPath == IF wrapper = "yes" THEN save_path ELSE "none"

\* OnDownloadPathGenerated, if the delegate has not been shut down.
OnDownloadPathGenerated ==
    /\ target = "generating"
    /\ CASE ~manager \/ ~Exists(item) -> target' = "lost" /\ UNCHANGED target_path
         [] manager /\ Exists(item) /\ KnownPath # "none" -> Decide(KnownPath)
         [] manager /\ Exists(item) /\ KnownPath = "none" ->
               target' = "dialog" /\ UNCHANGED target_path
    /\ UNCHANGED <<item, forced, wrapper, download_item, wrapper_pinned, wrapper_held, save_path,
                   manager, done_events, dialog_undefined>>

\* OnDownloadSaveDialogDone: without a path the download is cancelled.
OnDownloadSaveDialogDone(canceled) ==
    /\ target = "dialog"
    /\ dialog_undefined' = ~manager
    /\ IF ~manager \/ ~Exists(item)
       THEN /\ target' = "lost"
            /\ UNCHANGED <<target_path, save_path, item, done_events, wrapper_pinned>>
       ELSE IF canceled
       THEN /\ Decide("none") /\ UNCHANGED save_path
            /\ IF IsDone(item) THEN UNCHANGED <<item, done_events, wrapper_pinned>>
               ELSE OnDownloadUpdated("cancelled")
       ELSE /\ Decide("dialog")
            /\ save_path' = IF wrapper = "yes" THEN "dialog" ELSE save_path
            /\ UNCHANGED <<item, done_events, wrapper_pinned>>
    /\ UNCHANGED <<forced, wrapper, download_item, wrapper_held, manager>>

\* Shutdown: the posted task is dropped, but the dialog is still there.
Shutdown ==
    /\ manager /\ manager' = FALSE
    /\ item' = IF Exists(item) THEN "gone" ELSE item
    /\ download_item' = FALSE /\ wrapper_pinned' = FALSE
    /\ UNCHANGED <<forced, wrapper, wrapper_held, save_path, target, target_path, done_events,
                   dialog_undefined>>
-----------------------------------------------------------------------------
(* JavaScript. *)

\* setSavePath, at any time: nothing asks whether the download is there, nor
\* whether the place of the file is decided.
SetSavePath ==
    /\ wrapper = "yes" /\ wrapper_held
    /\ save_path' = IF target = "decided" THEN "late" ELSE "script"
    /\ UNCHANGED <<item, forced, wrapper, download_item, wrapper_pinned, wrapper_held, target,
                   target_path, manager, done_events, dialog_undefined>>

\* cancel, of a download that may be done: the download reports an update in
\* any case, and one that is complete stays so.
Cancel ==
    /\ wrapper_held /\ download_item
    /\ OnDownloadUpdated(IF item = "complete" THEN "complete" ELSE "cancelled")
    /\ UNCHANGED <<forced, wrapper, download_item, wrapper_held, save_path, target, target_path,
                   manager, dialog_undefined>>

\* Resume: the target is determined once more.
Resume ==
    /\ wrapper_held /\ download_item /\ item = "interrupted"
    /\ OnDownloadUpdated("in_progress")
    /\ target' = "none" /\ target_path' = "none"
    /\ UNCHANGED <<forced, wrapper, download_item, wrapper_held, save_path, manager,
                   dialog_undefined>>

\* The object is not referred to any more, and collected unless it is pinned:
\* ~DownloadItem removes the download.
Release ==
    /\ wrapper_held /\ wrapper_held' = FALSE
    /\ UNCHANGED <<item, forced, wrapper, download_item, wrapper_pinned, save_path, target,
                   target_path, manager, done_events, dialog_undefined>>
Collect ==
    /\ wrapper = "yes" /\ ~wrapper_held /\ ~wrapper_pinned
    /\ wrapper' = "gone" /\ download_item' = FALSE
    /\ item' = IF download_item THEN "gone" ELSE item
    /\ UNCHANGED <<forced, wrapper_pinned, wrapper_held, save_path, target, target_path, manager,
                   done_events, dialog_undefined>>

\* External: the download goes on, once it has a place.
Progress(state) ==
    /\ item = "in_progress" /\ target = "decided"
    /\ OnDownloadUpdated(state)
    /\ UNCHANGED <<forced, wrapper, download_item, wrapper_held, save_path, target, target_path,
                   manager, dialog_undefined>>

\* External: a download that is done reports another update, when its file is
\* opened or found removed.
UpdatedAgain ==
    /\ IsDone(item)
    /\ OnDownloadUpdated(item)
    /\ UNCHANGED <<forced, wrapper, download_item, wrapper_held, save_path, target, target_path,
                   manager, dialog_undefined>>
-----------------------------------------------------------------------------
SaveDialog == \E canceled \in BOOLEAN : OnDownloadSaveDialogDone(canceled)
Ends == \E state \in {"complete", "failed", "interrupted"} : Progress(state)

Next ==
    \/ \E state \in {"in_progress", "interrupted"}, has_path, path, prevented \in BOOLEAN :
          OnDownloadCreated(state, has_path, path, prevented)
    \/ DetermineDownloadTarget \/ OnDownloadPathGenerated \/ SaveDialog
    \/ OnDownloadDestroyed \/ Shutdown
    \/ SetSavePath \/ Cancel \/ Resume \/ Release \/ Collect
    \/ Progress("in_progress") \/ Ends \/ UpdatedAgain

\* The manager determines the target, the task is run, and the user answers.
Fairness == WF_downloadVars(DetermineDownloadTarget \/ OnDownloadPathGenerated \/ SaveDialog)
NoStep == UNCHANGED downloadVars
Spec == Init /\ [][Next]_downloadVars /\ Fairness
-----------------------------------------------------------------------------
\* Types.
TypeOK ==
    /\ item \in {"none", "in_progress", "interrupted", "failed", "complete", "cancelled", "gone"}
    /\ wrapper \in {"none", "yes", "gone"}
    /\ {forced, download_item, wrapper_pinned, wrapper_held, manager, dialog_undefined}
          \subseteq BOOLEAN
    /\ save_path \in {"none", "script", "late", "before", "dialog"}
    /\ target \in {"none", "generating", "dialog", "decided", "lost"}
    /\ target_path \in {"none", "forced", "script", "late", "before", "dialog"}
    /\ done_events \in 0..MaxDoneEvents

\* The choice of the target: it is asked for while the download runs, and made
\* in the end.
TargetIsAwaited == item = "in_progress" /\ target # "decided"

\* However the download, the object, the dialog and the delegate end: the raw
\* pointer is not used after the download is gone; a download that can go on
\* has its object, pinned, so that it is not removed by a collection, and is
\* not told to be done; one that is done is told so, at least once (an update
\* after its end, such as the one of cancel(), tells it again); the object of
\* a download that has ended does not stay pinned; and the file is where
\* JavaScript is told that it is.  The exceptions: setSavePath after the place
\* is decided, which only the documentation keeps to will-download; and after
\* a save dialog ended without its delegate, nothing is promised.
DownloadsKeepTheirObject ==
    ~dialog_undefined =>
        /\ download_item => Exists(item) /\ wrapper = "yes"
        /\ item \in {"in_progress", "interrupted"} => download_item /\ done_events = 0
        /\ wrapper_pinned = (item \in {"in_progress", "interrupted"})
        /\ IsDone(item) => done_events >= 1
        /\ target_path \notin {"none", "forced"} /\ wrapper = "yes" =>
              target_path = save_path \/ save_path = "late"
==============================================================================
