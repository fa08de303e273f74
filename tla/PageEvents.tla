----------------------------- MODULE PageEvents -----------------------------
(***************************************************************************)
(* What happens to a web view of a desktop backend once it is there:       *)
(* SchemeTasks (with WebPage), Downloads, NewWindows, DragDrop, Cookies    *)
(* and Creation, over one `backend` and one `owner`. These parts of        *)
(* InnerWebView share no other state, so each behaviour plays one scene,   *)
(* and the states are those of the scenes together and not their product.  *)
(***************************************************************************)
EXTENDS SchemeTasks, Downloads, NewWindows, DragDrop, Cookies, Creation

VARIABLE scene  \* which of Scenes is played

Scenes == {"scripts", "tasks", "downloads", "windows", "drags", "cookies", "creation"}

vars == <<pageVars, taskVars, downloadVars, popupVars, dragVars, cookieVars, creationVars, scene>>

Init ==
    /\ scene \in Scenes
    /\ PageInit /\ TasksInit /\ DownloadsInit /\ NewWindowsInit /\ DragDropInit /\ CookiesInit
    /\ CreationInit

\* The variables of WebPage that are not Desktop's
pageOnly == <<pending, ui, web, toWeb, toUi, loads, evals, posts, early, ran, heard, terminated>>

-----------------------------------------------------------------------------
\* A step of a scene leaves the variables of the others alone.
InScripts ==
    scene = "scripts" /\ UNCHANGED <<taskVars, downloadVars, popupVars, dragVars, cookieVars, creationVars, scene>>
InTasks ==
    scene = "tasks" /\ UNCHANGED <<downloadVars, popupVars, dragVars, cookieVars, creationVars, scene>>
InDownloads ==
    scene = "downloads" /\ UNCHANGED <<pageOnly, taskVars, popupVars, dragVars, cookieVars, creationVars, scene>>
InWindows ==
    scene = "windows" /\ UNCHANGED <<pageOnly, taskVars, downloadVars, dragVars, cookieVars, creationVars, scene>>
InDrags ==
    scene = "drags" /\ UNCHANGED <<pageOnly, taskVars, downloadVars, popupVars, cookieVars, creationVars, scene>>
InCookies ==
    scene = "cookies" /\ UNCHANGED <<pageOnly, taskVars, downloadVars, popupVars, dragVars, creationVars, scene>>
InCreation ==
    scene = "creation" /\ UNCHANGED <<pageOnly, taskVars, downloadVars, popupVars, dragVars, cookieVars, scene>>

\* In "scripts" the answers to the page's requests are left out, in "tasks" its scripts and messages.
CommitInTasks == InTasks /\ UiCommits /\ evals' = evals /\ UNCHANGED taskVars

ScriptScene ==
    InScripts /\ (Navigate \/ WebCommits \/ PageMoves \/ Eval \/ WebPosts \/ ProcessTerminates \/ DropPage)

TaskScene ==
    \/ InTasks /\ (Navigate \/ ProcessTerminates \/ DropPage) /\ UNCHANGED taskVars
    \/ CommitInTasks
    \/ InTasks /\ (LoadCommits \/ LoadFails \/ TaskStep)

DownloadScene == InDownloads /\ (DownloadStep \/ DropOpener)
WindowScene == InWindows /\ (PopupStep \/ DropOpenerOfPopups)
DragScene == InDrags /\ (DragStep \/ DropDragged)
CookieScene == InCookies /\ CookieStep
CreationScene == InCreation /\ CreationStep

Next == ScriptScene \/ TaskScene \/ DownloadScene \/ WindowScene \/ DragScene \/ CookieScene
    \/ CreationScene

-----------------------------------------------------------------------------
\* What the toolkits deliver: what the page's process sends arrives and what is sent to it is run, a
\* load that has its document commits, a task of a page that is gone is stopped, a responder goes
\* on.  That the host answers, drops or navigates is not assumed.
Toolkit ==
    \/ InScripts /\ PageMoves
    \/ CommitInTasks
    \/ InTasks /\ (LoadCommits \/ StartMain \/ \E t \in Tasks : Stop(t) \/ Responding(t))

\* Each of these steps stays enabled until it is taken and a behaviour has finitely many of them:
\* one weak fairness for all is as good as one for each.  The cookie store answers, its loop turns,
\* and a call whose wait is over returns.
Fairness ==
    /\ WF_vars(Toolkit)
    /\ WF_vars(InCookies /\ StoreServes)
    /\ WF_vars(InCookies /\ Pumping)
    /\ WF_vars(InCookies /\ Returning)

Spec == Init /\ [][Next]_vars /\ Fairness

\* The shape of the state of every part.
TypeOK ==
    /\ PageTypeOK /\ TasksTypeOK /\ DownloadsTypeOK /\ NewWindowsTypeOK /\ DragDropTypeOK
    /\ CookiesTypeOK /\ CreationTypeOK

\* Host and page hear of each other what they ought to: a host's scripts run in order and in a page,
\* and a page's messages come under its name.
PageInv == TypeOK /\ ScriptsReachTheirPage /\ MessageNamesItsPage
=============================================================================
