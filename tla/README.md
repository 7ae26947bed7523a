# kanglab in TLA+

kanglab is a Spring Boot application of developer tools (`codetool`: code
generation from database tables, database documents and a table editor, RPC
interface documentation, a concurrency test, a ping monitor, small converters)
with two libraries (`kanglab-utils`, and `kanglab-plugins` for logging and
argument validation). The scripts its pages run on (jQuery 1.8.2, jQuery UI,
NProgress) are files of the repository and the larger part of its code. This
directory holds TLA+ modules translated from the source, the TLC
configurations that check them and the TLAPS proofs about them. `PROJECT.json`
names the source lines behind every definition.

    tlc -workers 2 -config SnowFlake.cfg MCSnowFlake
    tlc -workers 2 -config Widgets.cfg MCWidgets
    tlapm SnowFlakeProofs.tla
    tlapm WidgetsProofs.tla

The modules that hold proofs are those whose names end in `Proofs`.

## Inventory

Each servlet call runs on a thread of its own; controllers are singletons, so
their fields and every `static` field are shared. The pages are plain scripts
whose callbacks run to completion and whose memory is the DOM, a few globals
and `localStorage`, which the tabs of a browser share. Nothing is persisted by
the server except files.

The server and its pages:

| component | state | operations | what is hard | what makes it correct |
|---|---|---|---|---|
| SnowFlake | `sequence`, `lastStmp` of an object, a monitor | constructor, `nextId` | clock set back, spin in an exhausted millisecond, restart, several sites | fresh, increasing words; no call stuck |
| Concurrency test | static lock, executor, a latch per batch | `/tool/get` | lock in `finally`, latch against timeout, more tasks than threads | lock always given back, batches unmixed and together, each task sent once |
| RPC documentation: list | shared pool, latch and result of a request, MDC of pool threads | `/api/list` | timeout against late tasks, Errors past the `catch`, reused threads | complete answers unless timed out; always an answer |
| RPC documentation: types | recursion over parameter types | `getApiInfo` | cyclic types, class loaders | terminates, every type shown once |
| Ping monitor | boxes, `ipMap`, requests and timers, `localStorage` | add, stop, reload, answers, timers | stop and add against answers under way, tabs, answers without data | one loop per shown address, silence after stop |
| Export of code | a directory and an archive per request | `/export/exportAllFile` | every step may fail, names collide, empty files | archive complete, nothing left behind |
| Database access | connection and statement per call, a static date format | fill, execute, named parameters | parser, quoted text, repeated names | a parameter reaches exactly its placeholders |
| Table data editor | rows of the database; title, form and rows on the mask, requests under way | open, search, edit, add, answers | answers late, lost or wrong; which rows an edit addresses | what is shown and written is the table of the title; keys are kept |
| Database document page | history in `localStorage`, list of tables | connect, choose | connection changed under the list | what is shown belongs to what is chosen |
| Code generator | none | `ref...` methods per template | parts must agree on the columns | entity, mapper and XML name the same fields |
| Code generator page | selected table, class name, code | connect, choose, generate, export | answers out of order | code of the chosen table |
| Log and validator plugins | annotations of a call, two advisors in order | before, after, failure | nesting, exceptions, masking | one entry per call, no secret in it |
| Constraint annotations, converters, menu, small helpers | none | pure functions | little | - |

The scripts below the pages:

| component | state | operations | what is hard | what makes it correct |
|---|---|---|---|---|
| Requests and progress bar | `jQuery.active`, requests, the bar's status, element and timers | send, answers, timeouts, `start`, `done`, `inc` | callbacks that throw, requests sent inside of them, timers that outlive their bar | counter and requests agree; the bar goes when the last request has |
| Callback lists and deferreds | list, its memory, the loop of `fire` | add, remove, fire, lock, disable, resolve, reject, notify | calls from inside a callback, a throw in the middle | each function called in its round once, in order; one way to settle |
| Animation queue | queue per element, `fxshow` data, one interval | animate, show, hide, stop | stop in the middle of a pass, passes that overtake each other | an element ends as its last pass says, its style is given back |
| Event handlers | handlers per element | add, remove, dispatch | handlers that change the list while it runs | each handler bound at the time, once, from the target outwards |
| jQuery UI effects | queue, mode, placeholder, kept style | effect, show, hide, toggle, stop | several elements and animations per call | style, placeholder and mode at the end |
| Dialogs | list of open dialogs, overlays, focus | open, close, move to top, destroy | modal over modal, focus that leaves | top is on top, overlays are those of the modal ones, focus stays in |
| Tabs and accordion | active panel and its index, animation, load | activate, add, remove, disable, refresh | index against a changed list, clicks during an animation | one panel shown, the active one |
| Menus, autocompletion, select menus | active item, open submenus, timers, pending searches, native select | mouse, keys, search, answers, change of the select | one timer for all, answers out of order, a select changed behind its menu | open submenus are one path; newest answer; label is the selection |
| Mouse interactions | press under way, drag, placeholder, lasso | press, move, release, cancel, enable and disable | nested widgets, delay against distance, drop targets one in another | a press is a click or a drag of one widget; a drop where it is over |
| Slider, spinner, tooltip | values, repeating timer, open tooltips and titles | keys, mouse, wheel, late contents | handles that meet, a button held down, contents that come late | order of handles, told changes, no title lost while contents come at once |
| Date picker | one calendar for all fields, its month, the texts of fields | focus, keys, links, selects, typed text, `setDate` | sharing, months at the limits, formats | the calendar is that of its field, every allowed day can be reached, reads what it writes |

Interactions: the pages call the controllers over HTTP; Concurrency test,
RPC documentation and Export reply through `GlobalExceptionHandler` when they
throw, which turns an exception into a reply with code and message but no
data. The RPC list uses `ExecutorServiceUtil`, `JarUtil` and `ApiDocService`;
Export uses Database access and Code generator. `common.js` hangs the progress
bar on `ajaxStart` and `ajaxStop` of jQuery, so that `AjaxRequests` is a
composition with `NProgress`. `Deferred` is made of three lists of `Callbacks`.
Autocompletion and select menu open a `Menu`; draggable, sortable, selectable
and slider get their drags from `ui.mouse` (`MouseWidgets`); all date fields of
a page share one calendar (`Datepicker`), which `Calendar` draws.

## Modules

| module | models |
|---|---|
| `IdIssuer` | abstract: `nextId` as one step, which numbers the identifiers of a millisecond from 0 without a gap |
| `SnowFlake` | the generator; implements `IdIssuer` |
| `SnowFlakeProofs` | theorems about `SnowFlake` |
| `ConcurrencyTest` | `ToolController.get` and its executor |
| `ConcurrencyTestProofs` | theorems about `ConcurrencyTest` |
| `ApiList` | `ApiController.list`, its pool and tasks |
| `ApiListProofs` | theorems about `ApiList` |
| `PingPage` | the script of `ping.html` and the answers of `/tool/pingIp` |
| `TableEditor` | the mask of `dbDoc.html` and `DbController` behind it |
| `PagesProofs` | theorems about `PingPage` and `TableEditor` |
| `NamedParameter` | `NamedParameterStatementUtil`: parser and index lists |
| `ExportAll` | `ExportController.exportAllFile`, `ZipUtil.compress`, `FileUtil.delete` |
| `ExportAllProofs` | theorems about `ExportAll` and `NamedParameter` |
| `NProgress` | the bar, as operators |
| `AjaxRequests` | `jQuery.ajax`, its counter and transport, `common.js`, over `NProgress` |
| `Callbacks` | `jQuery.Callbacks`, as operators on a list |
| `CallbackList`, `Deferred` | one such list in use; the three lists of a deferred |
| `FxQueue` | queue of animations, show and hide passes, the interval |
| `EventHandlers` | `jQuery.event` add, remove and dispatch |
| `Effects` | the effects of jQuery UI over the queue |
| `DialogStack` | dialogs, overlays, focus |
| `Tabs`, `Accordion` | panels |
| `Menu`, `Autocomplete`, `SelectMenu` | menus and what opens them |
| `MouseWidgets`, `DragDrop`, `Sortable`, `Selectable` | presses, drags, sorts, lassos |
| `Slider`, `Spinner`, `Tooltip` | values and hints |
| `Datepicker`, `Calendar` | the calendar shared by the fields; what it draws, reads and writes |
| `MCPageScripts`, `MCWidgets` | one behavior per script or widget, and the bundles of their properties |
| `WidgetsProofs` | theorems about dialogs, tabs, accordion, menus, select menus and date picker |
| `InteractionsProofs` | theorems about autocompletion, slider, spinner, tooltips, presses, drags, sorts and the lasso |
| `PageScriptsProofs` | theorems about requests and their bar, callback lists, deferreds, the queue of fades and event handlers |
| other `MC...` | definitions of constants for TLC |

**Names of properties.** What the runs check of a module is often a
conjunction (`MaskCorrect`, `RequestsCounted`, `PanelsCorrect`, ...) of parts
that are stated one by one, each with its own comment, in the module they are
about. A violation names the conjunction; put the parts into the configuration
to see which one it is.

**SnowFlake.** One action per branch of `nextId`: `Enter` takes the monitor
(`owner`) and reads the clock, `Refuse` throws, `NewMillisecond`,
`NextInMillisecond` and `SpinReturn` return, `Exhausted` starts the spin. The
clock of a site may be set back (`SetBack`) and moves on its own (`Tick`)
between any two of them. `Construct` is also a restart: the fields return to
their initial values and threads inside vanish. A word is the tuple of its
four bit fields; the shift of the time difference is the remainder modulo
`TIME_RANGE` (2^42 in the code), so a time before `START_STMP` and the sign
bit are in the model. `issued` is a history of return values.

`IdIssuer` is what a caller may rely on: no monitor, no spin, one step `Take`
that gives the identifier the next number of its millisecond, or number 0 in a
later one, with a time the clock showed when the call began or shows now;
`Decline` only while the clock is behind. The run checks that `SnowFlake`
implements it (`IssuesInTurn`): the abstract `last` is `lastStmp` and
`sequence`, save that while a thread spins, with the sequence wrapped to 0
already, the last number is still the greatest (`Wrapped`).

**ConcurrencyTest.** The thread of a call goes through `TryLock`, `Prepare`
(which throws for bad parameters), `Execute` and `CountDown` in turn,
`LoopEnds`, and `Unlock`, the finally block: it is reached on every way out,
also by a call that never got the lock, and then it throws. A pool thread
takes a task, waits for the latch or gives up (`late`), sends, and gets its
answer or a failure. The queue is unbounded, so `maximumPoolSize` plays no
part; the core threads come first, one per task.

**ApiList.** `Submit` hands a task over with the traceId the wrapper captured;
`StopWaiting` is the latch at 0 or the minute over; `Answer` reads what is
there. A task loads (`Load`), fails with an Exception (`LoadFails`) or dies of
an Error past the catch clause (`LoadDies`, which counts nothing down), adds
its interfaces and counts down. A jar is the set of the kinds of classes it
has. Requests whose list of dependencies the converter rejects are answered
before any of this and are left out.

**PingPage.** A step is one event. `flight` and `timers` count requests and
timers by tab, address and the times they carry, so several loops for one
address are representable. The answer is a result, a null (the success
callback fails on it before it sets its timer), or a failure. A user may type
a number of times the server cannot use. md5 is taken as injective.

**NamedParameter.** A query is a sequence of characters: letters, digits, the
sign of a parameter, a quotation mark, a space. `Parse` walks it with the
flags of the code (inside single or double quotes) and yields the text with
`?` and the positions of each name; it is checked against a definition that
says of each position whether it belongs to a parameter, and filled in.

**ExportAll.** One request from the listing of the tables, whose query goes
through `NamedParameter`, to the deletion of the archive; each step fails in
its own way: an IOException is logged and the reply is empty, other exceptions
reach the handler, those inside `ZipUtil` are swallowed (`lost`). The name of a
class forgets how the table's name spells it (`t_`, underscores). Results of
`mkdir` are ignored, as in the code; `File.delete` is taken to succeed.
Requests work under UUIDs of their own and share nothing else, so one is
enough.

**TableEditor.** A request goes through two steps: the server carries it out
(`GetDbData`, `EditData`, ... or `Fails`), and the callback of the page sees
the answer (`ShowForm`, `ShowRows`, `Saved`, `Rejected`); `Lose` stands for
both a request and an answer that get lost. `form.of` and `result.of` record
where a form or the rows came from, which the page itself forgets: it sends
the text of the title and the loose names of inputs. `hasty` records that the
user clicked while a request was under way; it ends when a table is opened
with nothing under way. Only MySql is modelled: the LIMIT clause, the only one
written for PostgreSql too, is not PostgreSql's, and the columns of SqlServer are
read under names its query does not give. Rows of a table without a key are
told apart by their values alone.

The code writes what is typed into the statement as it stands: without
quotation marks for a column that is no string, and inside of them without
escaping for one that is (`DbController` 159-163, 192-198, 205-208, 241-245). So a
typed text may be more than a value. It is the constant `Expression`, and a request
that carries one is served by `GetDbDataAsTyped`, `EditDataAsTyped` or `AddDataAsTyped`,
which may find, change or add any rows of the table that its keys admit. What
is claimed of which rows an edit reaches (`KeysAreKept`) and of what a search shows
(`FreshResult`) is claimed of plain values only; that only the table of the title is
written holds for both, on the assumption that a call carries out one statement
(the JDBC driver's default) and that this one calls no stored function with effects.

**Scripts and widgets as behaviors.** In a page the scripts run side by side,
but each of them keeps its state to itself, and script runs to completion. So
`MCPageScripts` and `MCWidgets` compose them by a variable `subject`: a
behavior is that of one subject, and the variables of the others stay as they
began. Nothing is lost by this, since no module reads another's variables, and
a product of all of them would only multiply states. The view of
`Widgets.cfg` keeps the variables of the subject alone; the others have, for
this subject, one initial value and never change, and every property is a
conjunction of statements about one of them, so states equal under the view
are equal in what is checked. It leaves out, too, what a spinner, tabs and a field of dates
remember without reading it again: the value `checkFocus` would restore when no check is to
come, `previous` while the focus is elsewhere (the focus sets it), `told` once
`LeftIsTold` says nothing any more, the two tabs of an animation that only shows a panel
by now, and the `lastVal` of a field that nobody types into
(only the opening of its calendar reads it, and resets it first). A step is an event (a mouse or key event, a timer, the
end of an animation, an answer) or a call by the page, with all the callbacks
it leads to, except where callbacks can call back: there the loop is cut at
every callback.

**NProgress, AjaxRequests.** `Send`, `SendAndWait`, `TransportAnswers` and `TimesOut`
are the life of a request as `jQuery.ajax` and its XMLHttpRequest transport see it:
`active` counts up and down, the first and the last request trigger
`ajaxStart` and `ajaxStop`, on which `common.js` starts and ends the bar.
Callbacks of a request may be fine, throw, or send others; that a page aborts a
request, from a callback or elsewhere, is left out (no page of the repository does). The bar
is a status in thousandths and the queue of its 200 ms timers, which fire in
the order in which they were set; `settings.speed` and `trickleSpeed` are
both 200. The queue of functions in the code is always empty when the next
one comes and is left out (`NProgress` says why).

**Callbacks, CallbackList, Deferred.** `Callbacks` has the list as a record
of its closure's variables and `fire`'s loop as begin, one call at a time, end.
`CallbackList` lets the page and the callbacks themselves add, remove, fire,
lock and disable, return `false` and throw, for every set of options.
`Deferred` composes three lists; since any handler may settle or notify again,
the fires under way are a stack.

**FxQueue, Effects.** Elements with a queue of animations and show/hide
passes. `fxshow` keeps what a pass found; `Stop` is `stop(clearQueue,
gotoEnd)`; `Tick` is one tick of the interval for all animations. `Effects`
puts jQuery UI's effects on that queue: which of them are one animation beside
the queue and which several that are moved to its front, the placeholder, the
style that is kept and given back, and the mode, which elements of a call
share.

**EventHandlers.** `Change` adds or removes a handler outside of an event,
`Dispatch` goes to the next element and takes the handlers that are bound then
(`handlerQueue`), `RunHandler` runs one, which may add and remove others or
stop the propagation.

**DialogStack.** The list of open instances on the document, the z-indices
of the dialogs, overlays with their number, and where the focus is. Opening ends
in a step of its own (`_delay` of the focus); `Renew` is a destroyed dialog
made again.

**Tabs, Accordion.** The panels that are shown, the active tab or header, the
index the option has of it. The list of tabs is read anew only by `Refresh`
(headers: `RefreshAccordion`), so the page can change it before
(`Change`, `ChangeHeader`); a panel put in with its tab or header is to be seen until
then, and is what `OnePanelShown` and `OnlyActiveShown` leave out. The page may
refuse any activation (`beforeActivate`), also one that an option or a refresh asks
for: an accordion that may not collapse is then left without an active header
(`refused`), tabs and accordions with an active one that is gone (`missed`, `stuck`). `AnimationEnds` and `AnimationDone` are the ends
of the animation between two panels; tabs refuse clicks meanwhile, an
accordion ends it first. `Answered` and `Loaded` are an answer for a remote
panel and what follows it.

**Menu, Autocomplete, SelectMenu.** The menu's one timer is `timer`, with
what it will do; a timer that nothing can clear any more is one of the
`orphans`. In `Autocomplete` an answer of the source comes in any order
(`Respond`), with any contents. `SelectMenu` has the native select behind the
menu, changed by the page and reset with its form, and the item list rendered
when it was last refreshed. A letter typed on the closed menu may choose an option
that is disabled, as may the page; nothing is claimed against it.

**MouseWidgets, DragDrop, Sortable, Selectable.** `MouseWidgets` is `ui.mouse`
for two widgets, one in the other: press, moves, delay, release in or outside
of the window, click. `DragDrop` has a draggable, two droppables and the
manager; where the helper is stands for all arithmetic of positions.
`Sortable` keeps items and placeholders of all lists as sequences; a glide is
the animation of `revert`; `cancel()` of a list that drags nothing, `dropOnEmpty:
false` and a `start` that the page refuses are left out. `Selectable` has the classes of an item and the
widget's data on it apart, as the code does.

**Slider, Spinner, Tooltip.** Values are small integers. `Again` is the
spinner's repeating timer, `FocusChecked` its delayed check of the focus. A spinner
that is disabled or destroyed hears nothing any more, while its timers go on:
one that was turning turns until something stops it (`unheard`, which
`TurnsWhileHeld` excepts). A
tooltip's content may be asked for (`AnswerTip`), and titles move from the
element to the widget and back.

**Datepicker, Calendar.** `Datepicker` is the manager: the field the calendar
is for, what each field holds and what was last read of it. The calendar as it
is drawn is a variable of its own (`table`): it keeps the field and the days of when it
was drawn, while the page changes ranges, values or the field itself, and a
click acts on what is drawn.
`Calendar` is the arithmetic: `_generateHTML` with limits and other months'
days, keys, links and selects, `iso8601Week`, `formatDate` and `parseDate` as
operators on characters. The first month drawn (`draw`) is kept apart from the
day selected: keys, links, selects and dates that are set take it along, a click on an inline
calendar does not, and each drawing moves it by `showCurrentAtPos` (11470, 11489-11490).

**Disabled widgets.** Disabling a whole widget is modelled for the spinner, the
widgets of the mouse, droppables, tabs, fields of dates, select menus and
options; not for autocompletion, slider, accordion and menu.

## Runs

| run | question | instance | result |
|---|---|---|---|
| `snowflake` | `TypeOK`, `UniqueIds`, `IdsIncrease`, `CallsEnd`, `IssuesInTurn` (implements `IdIssuer`) | 2 sites, 2 threads at one and 1 at the other; sequence 0..1, 4 time values, clock to 3 with START_STMP 1 (so the sign and a time before the start occur), one set-back, 2 restarts, 3 ids | holds |
| `concurrency` | `LockOwned`, `SentTogether`, `BatchesIntact`, `CallsFinish` | 2 calls of 0, 1 or 3 requests (or bad parameters), 2 core threads | holds, 315k states |
| `concurrency_refused` | `RefusedIsTold` | as above, 1 request each | **violated** |
| `api_list` | `TasksAccounted`, `AnswerComplete`, `EveryRequestAnswered` | 2 requests of up to 2 jars of 2 kinds, 2 pool threads | holds, 964k states |
| `ping` | `BoxesAlive`, `StopIsObeyed` | 1 address, 2 tabs, up to 3 loops in each | holds, 36k states |
| `ping_twice` | `OneLoopPerIp` | 1 address, 1 tab, up to 2 loops | **violated** |
| `export_all` | `FilesAccounted`, `StatementAsAsked`, `EndsOrSpins` | up to 3 of 4 tables with 2 class names; queries of up to 5 characters (letter, digit, both marks, both quotation marks, space) | holds, 51k states |
| `table_editor` | `MaskCorrect`, `WritesCorrect` | 2 tables, 2 requests at once, 3 clicks, in between inputs out of `Entries`: blanks, values and a text that is more than one | holds, 1670k states |
| `table_editor_told` | `ToldModified` | as `table_editor`, 2 clicks | **violated** |
| `page_scripts` | `RequestsCounted`, `BarFollows`, `CallbacksCorrect`, `CallsInOrder`, `FadesCorrect`, `HandlersCorrect`, `EffectsCorrect` | 3 requests, 4 timers, 2 callbacks that throw; 3 functions fired 3 times with any options; 2 handlers and 2 notices of a deferred; 2 elements faded, 1 more waiting; path of 2 elements with 3 handlers each; effects as `SomePages` | holds, 534k states |
| `effects_modes` | `EachByItsMode` | the effects of `page_scripts` | **violated** |
| `widgets` | `DialogsCorrect`, `ModalKeepsFocus`, `PanelsCorrect`, `MenusCorrect`, `NewestAnswerShown`, `PressesCorrect`, `DragsCorrect`, `DropsCorrect`, `ValuesCorrect`, `TooltipsCorrect`, `CalendarIsShared`, `ClickWritesAllowed`, `DatesCorrect` | 2 dialogs; 3 tabs, 1 remote; 3 headers; a menu of 5 items with two levels of submenus; 3 texts, 2 searches under way; 2 nested widgets, 2 nested droppables; values 0..2; 3 options, 1 disabled; 2 lists of 3 items, 2 glides; 2 items; 2 fields, a month of two days and one of a day, of which a narrow range allows one; 4 calendars and 7 formats over 2023 and 2024 | holds, 962k states |

Bounds and why they are enough. Two threads, callers, requests or tabs are the
smallest number in which one can disturb another, and every rule of the code
concerns a pair (an owner and an intruder, a batch and another). A sequence of
two values wraps after two calls, so exhaustion comes within three ids. More
tasks than pool threads make the queue matter: 6 tasks on 2 threads, 4 on 2.
Three tables of two classes give a collision in each position of the loop, and
five characters hold a parameter of two characters between quotation marks,
the same parameter twice, and a quotation mark inside of the other kind.
In `TableEditor` both tables have columns of the same names, so that a form
of one can be posted for the other; the key of one is a single column, of the
other both. `Entries` has for each table inputs with and without its key, and one with a text
that is more than a value; what such a text makes up is one row (`Made`), beside those
that are there. Three clicks are the shortest way to each of its hazards: open,
fill the mask, open or write again.
Three requests are one that ends while another goes on and a third begins, and
four timers are two rounds of the bar that overlap. Three functions leave one
before, one after and one to be added or removed while a list is fired. Three
tabs, headers or options have a first, a last and one in between to be
disabled or removed; two lists with two and one items let an item leave, be
put in between and come back. A menu with two levels of submenus has a path
and a branch off it. 2023 is a common year and 2024 a leap year, and their
ends share ISO weeks with their neighbours; the limits of `SomeCalendars` lie
on first and last days of months.
Counters of the environment (`MaxSetBacks`, `MaxRestarts`, `MaxIds`,
`MaxLoops`, `MaxClicks`, `MaxTimers`, `MaxLost`, `MaxFires`, `MaxNotices`,
`MaxWaiting`, `MaxHandlers`, `MaxZ`, `MaxPending`, `MaxGlides`) sit in the
guards of the actions they bound.

Runs that switch deadlock off: the modelled calls, requests and exports end,
the clocks of `SnowFlake` stop at `MaxClock` and the user of `TableEditor`
after `MaxClicks`, and a script whose bounds are used up waits for events that
do not come, so a final state is no defect there. That nobody waits for ever
is stated by the liveness properties instead. The ping page never stops.

### Fairness

Threads that can run do run: weak fairness of a call's or worker's steps. In
`SnowFlake` a thread inside `nextId` runs and clocks do not stop for good; no
caller is promised the monitor, which Java does not promise either. In
`ConcurrencyTest` a request gets an answer or a failure in the end
(`HttpClientUtil` sets timeouts of 10 and 20 seconds, lines 41-43; a server
that trickles bytes for ever is excluded). In `ApiList` no download is assumed
to end, so only waking up after a minute answers a request whose jar hangs. On
the ping page requests are answered or fail and timers run out; the user is
under no obligation. In `MCExportAll` a query ends and its thread goes on. In
the scripts of the pages only the timers of the progress bar are fair
(`AjaxFair`): no answer has to come and no user has to act, so that the bar
goes once the last request has ended is all that is promised.

### What the violations show

* `concurrency_refused`: the text for a refused caller
  (`ToolController.java:101`) is never delivered. Two calls suffice: the
  second one's `finally` unlocks a lock that it does not own.
* `ping_twice`: an address stopped and added again before its answer or timer
  came is pinged by two loops from then on, though the page means to refuse
  an address that is monitored already (`ping.html:247`).
* `table_editor_told`: "修改成功" (`dbDoc.html:600`) after an edit that found
  no row: the count in the reply is not looked at.
* `effects_modes`: "Override mode option on a per element basis"
  (`jquery-ui.js:17910`) writes `args.mode`, which all elements of a call
  share, while the cleanup of each (17888-17906) reads it when its animation is over.
  Toggled together, a shown element is hidden by its effect and then shown
  again by the mode of the other.

### Behaviours the models keep although they may surprise

None of these contradicts a text of the repository; properties are stated so
that they hold beside them, and the models show them.

* Date picker: a typed date equal to the last one read is not read again
  (`lastVal`, 10503-10522 and 11281-11304), so a calendar may stand on another day;
  `setDate` and `refresh` for one field redraw the calendar that is open for
  another; destroying a field while its calendar is shown leaves the calendar
  there; a select in the header moves `selected` to a month that limits may
  keep from being drawn; a day clicked in an inline calendar that belongs to the next month
  is selected and not gone to; with `showCurrentAtPos` every refresh moves an inline
  calendar on, away from the day selected; texts such as `dmyy` without separators are not
  read as they are written, and a format of `o` or `!` alone cannot be typed.
* Sortable: a sort cancelled during a glide is stopped once more when the
  glide ends, and an item may be put behind the placeholder of another list.
  With two lists that revert, a cancelled item goes behind the one it came
  from wherever a drag has brought that one meanwhile, perhaps to another list;
  `CancelPutsBack` says so. The instance has one such list, and it was the proof
  that showed what two of them do.
* Spinner: disabled or destroyed while a button is held, it goes on turning after
  the button was let go (`_repeat`, 14782-14785, under handlers that are suppressed, 620-624).
* Accordion, tabs: a `beforeActivate` that returns false when `collapsible` is switched
  off leaves an accordion without an active header though it must have one.
* Select menu: letters on the closed menu choose disabled options, too.
* Selectable: a press with ctrl on a selected item unselects it at once, also
  on a touch screen, and enabling the widget during a press lets the drag go on.
* Effects: an effect with nothing to do leaves `ui-effects-animated`;
  `stop(true, true)` in the middle of fold, bounce, shake or pulsate drops the
  cleanup with the queue; a stop that does not go to the end leaves placeholder
  and style.
* Named parameters: PostgreSQL's `::` and MySql's `@variable` are read as
  parameters outside quotation marks; no query of the repository has one.

## Proofs

| module | theorem | what holds, for every value of the constants |
|---|---|---|
| `SnowFlakeProofs` | `TypeCorrect`, `NoDuplicates`, `Monotonic`, `Refinement` | `TypeOK`, `UniqueIds`, `IdsIncrease`; implements `IdIssuer` |
| `ConcurrencyTestProofs` | `TypeCorrect`, `LockCorrect`, `BatchLeavesTogether`, `BatchesStayIntact` | `TypeOK`, `LockOwned`, `SentTogether`, `BatchesIntact` |
| `ApiListProofs` | `EveryTaskAccounted`, `EveryAnswerComplete` | `TasksAccounted`, `AnswerComplete` |
| `PagesProofs` | `EveryBoxAlive`, `BoxesFollowStorage` | `BoxesAlive`, and the action property `BoxFollowsStorage`, half of `StopIsObeyed` |
| `PagesProofs` | `MaskShowsTitle`, `WritesFollowTitle` | `MaskCorrect`, and the action property `WritesCorrect` |
| `ExportAllProofs` | `FilesAreAccounted`, `StatementsAskAsAsked` | `FilesAccounted`, `StatementAsAsked` |
| `WidgetsProofs` | `DialogsStack`, `FocusStaysIn`, `PanelsAreActive`, `MenusFollow`, `CalendarServesItsField`, `ClicksWriteAllowed` | `DialogsCorrect`, `ModalKeepsFocus`, `PanelsCorrect`, `MenusCorrect`, `CalendarIsShared`, and the action property `ClickWritesAllowed` |
| `InteractionsProofs` | `MenuHoldsNewest`, `ValuesAreTold`, `TooltipsGo`, `PressesBelong`, `DragsLeaveNothing`, `DropsAreRight` | `NewestAnswerShown`, `ValuesCorrect`, `TooltipsCorrect`, `PressesCorrect`, `DragsCorrect`, and the action property `DropsCorrect` |
| `PageScriptsProofs` | `Counted`, `EachIsCalled`, `FadesEndAsAsked`, `HandlersAreKept`, `CallsComeInOrder` | `RequestsCounted`, `CallbacksCorrect`, `FadesCorrect`, `HandlersCorrect`, and the action property `CallsInOrder` |

Each proof finds an inductive invariant that implies the property, shows it of
the initial states and of every action (a lemma for each action or operation
of the component, which the step lemma puts together), and concludes by
temporal reasoning. Every invariant below was first checked by TLC on the
instance of the run. The assumptions a proof rests on are the named `ASSUME`s
of the modules it is about; TLC evaluates them on every run.

**SnowFlake.** Assumptions: sites differ in datacenter or machine
(`DistinctSites`; nothing in the code checks it, and without it identifiers
repeat), and the clocks stay within the range of the time field
(`BitsAssumption`). The invariant `UniqueIds` is not inductive: it speaks of
what was returned and not of the fields that decide what is returned next.
`IInv` adds

* `Monitor`: a thread inside `nextId` owns the object of its site, which
  exists, and an owner belongs to the site;
* `Recorded`: every result is in range and comes from an object its site has
  created by now;
* `Behind`: a result of the present object of a site is before its `lastStmp`,
  or in that millisecond with a sequence no greater than its field, or in that
  millisecond while the thread that wrapped the sequence to 0 spins: harmless,
  because it waits for a later millisecond and keeps everybody out;
* `Ordered`: the results of an object, in order of return, increase as pairs
  of time and sequence.

`Ordered` makes the results of one object distinct; equal words have equal
sites by `DistinctSites`, and equal times because the remainder is injective
on an interval shorter than `TIME_RANGE` (`TimeFieldInjective`). The three
actions that return share `ReturnStep`. For the refinement, a thread spins only with
the sequence at 0 (`SpinsAtZero`) and owns the object, so that who enters finds
`Wrapped` false; each return is then a `Take` of the number behind the last one
(`WrappedAt`, `ReturnIsTake`), and `Exhausted` a stutter.

**ConcurrencyTest.** From `CallsAssumption` (no call is named like the free
lock's holder; finitely many core threads, at least one). A latch could leave
its range if it did not follow the loop variable, which `Counted` states line
by line of the loop; and a request that leaves says nothing of its batch unless
what its thread saw while it waited is kept. `IInv` adds `Queued` and `Held`
(whatever waits in the queue or at a thread was handed over, so its call is
past the first task), from which a latch at 0 means a batch that is complete
and not one that has not begun, and `Ready`: a thread past its await holds a
task of a complete batch, or one that gave up after 5 seconds. `PoolStep` says
what handing a task over does to queue and threads, whichever of them takes it.
`BatchesIntact` needs `BInv` besides: a task is in one place (`Placed`), the
tasks that are somewhere are those the loops have handed over (`Accounted`),
and behind a task of a call that is still submitting there are only tasks of
the same call (`OpenAtEnd`), because nobody else holds the lock.

**ApiList.** From `RequestsAssumption`. That nothing is lost between queue,
pool threads and the deaths of tasks is `Placed` (a submitted task is in one
place at most, one that an Error ended in none) and `Settled` (a jar that should
be shown was found or is still waited for, never both). `LatchCounts` counts
with cardinalities: the latch of a request is the number of jars still to come
plus those whose task died, so that a latch at 0 is possible only if none died;
`Answered` says who saw it at 0. `TraceFollowsTask` is carried along.

**PingPage.** From `BoundsAssumption`. `ShownIsPinged` alone is not enough: that
a loop goes on depends on the counters of requests and timers, which TypeOK
bounds only if the loops of an address are bounded together, over both kinds
of times (`Bounded`). `LoopsMove` says how the loops of an address move when one
counter does.

**TableEditor.** From `TablesAssumption`: keys are columns, what is stored keeps
to the keys, and the marks for nothing (`NoTable`, `NoForm`, `NoRequest`, `Null`,
`Blank`) are no tables, forms, requests or values. `Calm` says of a user who
waits that at most one request is under way, that it is about the table of the
title, carries inputs only of a form that is there, and what it has found for values is
still so; it fails once he is `hasty`, and nothing but that he is claimed then.
`SearchFollows` keeps the search that shows the outcome of a write.

**ExportAll and NamedParameter.** From their `BoundsAssumption` and
`NamedParameterAssumption`: letters and digits are no marks, quotation marks or
spaces. For the export, `DirectoryFollows`, `ArchiveFollows` and `ReplyFollows`
say at each step of the request which classes directory, archive and reply
hold; a class that occurs twice counts by its first table. For the statements,
`QueryFollows` says that the parse is that of the query's characters and
`BoundFollows` which names were set so far. `ParsedIs` and the lemmas after it
describe the parse after w characters for each w. The induction over characters
is carried out with sets: the set of the lengths for which a claim fails has
no least element (`LeastNat`, `SetInduction`), and a function defined by
recursion exists by the same argument (`Recursion`), so nothing here needs
the induction theorems of the library.

**Page scripts.** `PageScriptsProofs` is about `MCPageScripts`, whose constants
stay parameters. `ScriptsInvariant` puts the invariants of the scripts together, and
`StepOfEach` makes of a step one of each script, which is a stutter for all
but the subject.

* Requests and bar, from `AjaxAssumption`. `RequestsCounted` is inductive as it
  stands, but not within one callback: the end of a request runs its callbacks,
  which may send others, before it counts down and perhaps ends the
  bar. `Agrees` states the invariant for a page in the middle of that,
  `DoneCounts` carries it through the end of one request with everything its
  callback does, and the lemmas before it say what each operation of the bar does
  to its status: only `done`, and `set` of the whole, end a progress.
* Callback lists (`CallsOK`), from `CallbackListAssumption` (finitely many
  functions). `ListOK` is what holds of any list between two calls and is
  shared by the next: `firingLength` is the length of the list while it is fired,
  what is disabled is empty, a memory is of the last data, and the stack has
  later data, in order. `RoundCallsEach` needs that the functions owed are those
  behind `firingIndex`: `add` and `remove` move index and length by what they put
  in and take out (`LongerIs`, `ShorterIs`).
* Deferreds (`DeferredOK`), from `DeferredAssumption` (no handler is one of the
  deferred's own callbacks). A final list begins with these three (`Headed`)
  until its first round is over, and the other one is disabled and the notices locked as its
  index passes them (`SettledOK`): in between a handler does not run yet, so no
  one can settle again. A handler was called exactly if it is in the list at or
  before the index, or was in one that is through (`CalledOnce`). `FramesOK` says
  of the stack of `fire`s that no list is in it twice, so that a throw, which
  leaves all of them, leaves their `firing` set.
* Fades (`FxOK`), from `FxAssumption`. What an element comes to depends on the whole
  queue, as a toggle turns what the job before it leaves: `Leads` says that some
  walk over the waiting jobs goes from the animation under way to what was asked
  last, and is preserved by appending a job and by taking the first one; a stop may break
  it, and then nothing is claimed until the next pass that finds the element at rest.
  `Faded` says that the sentinel is in front and one timer is there for it
  exactly while an animation runs, with the opacity to give back. What `dequeue`
  comes to is shown for every length of the queue by `SetInduction`.
* Event handlers (`EventsOK`), from `EventAssumption`. `DelegatesInFront` survives
  `add` because `delegateCount` is where the next one is put in, and `remove`
  because it counts down for each delegated one that goes (`PlaceCounted`);
  `GroupsFollow` and `RunFollows` say that what is left of a dispatch lies further
  out than what ran, all on one node.

**Widgets.** `WidgetsProofs` and `InteractionsProofs` are about `MCWidgets`, whose
constants stay parameters: any number of dialogs, tabs, headers, items, options,
texts and days, and any bounds. `WidgetsCorrect` is in either module the
conjunction of one invariant per widget; a step of one widget leaves the others
alone (`OtherSteps`).

* Dialogs (`DialogsOK`): the document's list holds the open dialogs once each
  (`Tracked`); the counter is the number of overlays, those that a change of
  modality left behind included, and each of them is below its dialog
  (`OverlaysCounted`); for a dialog whose modality was never switched the overlay
  is there exactly while it is open and modal (`OverlaysFollow`); and the one
  moved last is above all (`TopFollows`).
* Tabs (`TabsOK`): the option has the index of the active tab in the list that
  was read last, unless a removal was missed (`IndexFollows`); tabs that are
  disabled one by one leave one out, so that the search for an enabled one ends
  (`LeavesOneOut`); what an animation brings in is the panel of the active tab or
  gone from the page (`NewFollows`), and no other is shown but the one that an
  animation hides (`PanelFollows`). Accordions (`AccordionOK`): the same of
  headers, of the class that marks the active panel, and of what was shown last;
  of one that is stuck types are claimed, and of one that was refused not that it has
  an active header.
* Menus (`MenuOK`): of two open submenus one lies within the other (`PathOf`);
  unless a timer came late, each hangs on an open one (`Rooted`), the active item
  can be seen (`ActiveShown`), and the timer opens the menu of the active item or
  collapses one that is open (`TimerFollows`). Select menus (`SelOK`): items and
  label are those of the native select unless it changed untold (`SelFollows`),
  and the item with the focus is the active one (`EnterFollows`).
* Autocompletion (`AcCorrect`): the newest search is the last the source was
  asked, and what the menu shows is its answer or was closed since
  (`NewestIsAsked`, `MenuFollows`, `PendingFollows`).
* Date picker (`PickerCorrect`): what is selected is allowed, fields that are not attached
  are as `Bare` left them, and each day of the table is one that its field allows
  (`TableCorrect`), as every change of a range draws it anew (`TableFollows`) and the
  other operations keep the range (`SameRange`). Spinner (`SpinnerCorrect`) and slider
  (`SliderCorrect`): who has been told which value, and for the slider that the
  handle of the drag is one that can part (`FirstCanPart`).
* Tooltips (`TipOK`): an open one has a cause, pointer or focus, that will close
  it (`HasCause`), and only one can be there for a hover (`OneOpen`). Unless
  contents come late, each title is on its element, kept by the widget while its
  tooltip is shown, or kept by the one of an element inside (`TitlesKept`).
* Mouse (`MouseAgrees`): a widget begins its drag only after the delay and listens
  to the document while it drags or waits (`WidgetOK`); at most one listens, and
  then the press is handled; the one that took the press will swallow the click
  where the press was exactly if it was a drag (`TookIt`), and so the click that
  follows was swallowed or not (`ClickWas`).
* Drags (`DragOK`): the page was told of the droppables the helper is over
  (`OverTold`) but for a parent that its greedy child keeps it from, or that is
  listed before such a child (`Nested`); while nothing is dragged no droppable is
  active or over, and a draggable destroyed during a drag lives as long as its helper.
* Sorts (`SortOK`): every item is in exactly one list and was told to be there
  (`AllPlaced`, `ToldAll`). For each list (`Fits`), the placeholder is in the
  document exactly while the list drags something; the item stays in its list
  until it is dropped, and so does the one it was behind. A list that drags was
  started or glides (`GoesWith`), so nothing is left behind. The lemmas
  on `Taken` and `PutAfter` say where the nodes are once one was moved (`Lost`,
  `PutInto`), and `Free` that the item of a drag is that of no other drag.
* Lasso (`LassoOK`): the widget's data on what is on its way are those of the
  classes (`LassoInStep`); unless the page changed classes behind it, what was
  selected at the press is so or on its way (`LassoFollowed`); and while key and
  option stay as they are, what is on its way to be selected is what the lasso
  hits (`LassoSteady`), so that it does not matter how it got there.

Assumptions: `DialogAssumption`, `TabsAssumption`, `AccordionAssumption`,
`MenuAssumption` (no item is among its own ancestors), `SelectAssumption`,
`AutocompleteAssumption` (finitely many texts), `DatepickerAssumption` (months
follow days), `SpinnerAssumption`, `SliderAssumption`, `TooltipAssumption`,
`MouseAssumption`, `DragDropAssumption`, `SortableAssumption` (an item begins in
one list) and `SelectableAssumption`. Lists of elements in the order of the
document are functions of their rank (`Listed`, `InOrder`, `NativeList`), of
which lemmas say that they hold each element once.

The proofs of scripts and widgets are long because each handler is one step with all
the calls it makes, and the record of a widget has many fields: for each
operation a lemma says which fields it changes and that the rest stays. Each of the
three modules takes about ten minutes; the others take less.

### Only model-checked

* Liveness: `CallsEnd`, `CallsFinish`, `EveryRequestAnswered`, `EndsOrSpins`,
  the silence after a stop in `StopIsObeyed`, and that the bar goes in
  `BarFollows`: fairness and ENABLED are outside the prover's reach.
* `DatesCorrect`: what the arithmetic of dates and the walks over a format
  yield is a recursion on data for each input, with sums over months and years;
  TLC compares it with definitions for the days that are reached in two years.
* `EffectsCorrect`: a call goes over the elements of a set by a fold, an effect
  puts several jobs into a queue at a place that a fold finds, and `goto` the end
  runs queues down. What the mode and the kept style come to depends on all jobs
  that wait, of several calls; that the folds and the walk yield it for queues
  of any length is an induction over data.

## Not modelled

On the server:

* The code generator, log and validator plugins, constraint annotations,
  converters, menu and small helpers: they keep no state between calls and no
  order of events matters to them; templates, SQL catalogue queries, regular
  expressions and HTTP headers are text. `exportFile` and `exportExcel` copy
  their input to the response. `ZipUtil.decompress` has no caller.
* The generator of the entity leaves out columns without a description, which
  the mapper and the XML refer to: a disagreement of templates, not of states.
* The types of an interface's parameters (`ApiDocService`): a recursion over
  classes; where a cycle of types ends it with a StackOverflowError, this is caught and
  becomes a text in the answer (lines 74, 85, 103), so that `LoadDies` of `ApiList` is about other
  Errors, thrown while classes are loaded; a method with an array of a type variable in
  one of its parameters is left out of the answer.
* A restart during an export leaves its directory or archive in `zip/`, where
  nothing looks for it.
* The static `SimpleDateFormat` of the named parameters is used without a
  lock, but no caller passes a date.
* Which of the two advisors runs first is left to the container, and with it
  whether rejected arguments are logged.

In the pages:

* The code generator's page shows answers as they come, so that the code of an
  earlier click may replace that of a later one; its export takes the file
  extension of the last code generated. The list of tables of the database
  document was made under one connection, and each click reads the connection
  from the inputs anew (`dbDoc.html:516`). Neither page does anything against
  it that a property could state.
* Of jQuery: selectors, traversal, attributes, styles, `Deferred.pipe`, `when`,
  `trigger` and special events, prefilters, converters, jsonp, easing, queues
  of other names. Of jQuery UI: progressbar, resizable, button, checkboxradio,
  controlgroup, position, the effects explode and transfer, `queue: false`,
  wrappers and colours, the plug-ins of draggable, and the layout of each
  widget. Of the date picker: `stepMonths`, `gotoCurrent`, `yearRange`, `@`
  and `!`, animations, and daylight saving. These are functions of the document with
  little state of their own.
* `md5.js` and `kzx.js` are pure functions; `bootstrap.min.js` is minified.

## Plan

What is left, in this order:

1. Proofs: `EffectsCorrect`, once its folds over elements and queues have been
   described by functions of the place in the queue, as `Leads` does for fades.
2. A second user of the same database beside `TableEditor`.
3. `DbDocPage` and `JavaCodePage`: requests under way tagged with what was
   chosen when they left, and an abstract page that shows nothing stale, to see
   which of the two implements it.
4. `Advice`: the two advisors around a call, in either order, with exceptions.
5. Composition of `Sortable`, `Selectable` and `Slider` with `MouseWidgets`,
   whose drags they take as given.
