# ThunderClientLibraries: a TLA+ verification project

ThunderClientLibraries is a set of C++ libraries that applications link to talk to
Thunder (WPEFramework) plugins: they draw through `compositorclient` and
`graphicsbuffer`, play protected media through `ocdm`, stream Bluetooth audio through
`bluetoothaudiosource` and `bluetoothaudiosink`, and query the device through a few
small RPC proxies. None of them is a program of its own: each is entered by an
application's threads from above and by Thunder's threads (a `ResourceMonitor`, a COM-RPC
channel) from below, and nearly everything that can go wrong goes wrong between those two.

All source paths below are relative to `src/Source/`.

## 1. Inventory

| Component | State | Operations | Concurrency and failure | What makes it correct |
|---|---|---|---|---|
| `graphicsbuffer`, frame hand-over (`GraphicsBufferType.h`) | one atomic command byte in a shared mapping, two semaphore eventfds | client `RequestRender`, `Handle`; server `Rendered`, `Published`, `Handle`; both destructors | two processes, four threads; several compare-exchanges per operation, retries, re-entrant `Request()`, one end may go away | no lost wake-up; a destroyed buffer stays destroyed; every frame is requested, rendered, published and announced once; the attempts that "MUST succeed" do |
| `graphicsbuffer`, buffer memory | shared storage, planes, a mutex in the mapping | `Acquire`, `Relinquish`, `Load`, plane iterators | two processes, timed lock | only the holder unlocks; a time-out means contention |
| `compositorclient`, Mesa surface (`src/Mesa/Implementation.cpp`) | per buffer object a `ContentBuffer` with an atomic state, `_activeBuffer`, `_retiredBuffer`, GBM's own lock per buffer object | `RequestRender`, `OnBufferRendered`, `OnBufferPublished`, `ReleaseToGbm`, `RemoveContentBuffer` | render thread against monitor thread, no lock; GBM destroys buffer objects | a buffer object has one owner; the pointers agree with the states; retired buffers are released; what is released is off screen |
| `compositorclient`, Mesa displays and input | map of displays, reference counts, the surfaces of each, their input devices, two locks | `Instance`, `AddRef`, `Release`, `Create`, `SurfaceByName`, `Register`, `Unregister`, `Keyboard` and its like, `Publish` | application threads against the input thread, which walks every surface under both locks; early returns with a lock held | what a registry holds is alive; references are given back once; the input thread calls living surfaces only |
| `compositorclient`, RPI displays | the same, the clients offered to the compositor, opacity and layer, one process-wide pipe of input events | the same, `Opacity`, `ZOrder`, `Process` | the compositor calls back by RPC, the virtual input's thread writes the pipe | as above; every value is one the display has |
| `compositorclient`, Westeros | two maps of surfaces, a count on each, focus, key map, two semaphores | `Create`, `Release`, `Redraw`, the messages of the Wayland server | surfaces die at the server and in the application, in either order; one thread flushes for all | a surface lives while any of the four places names it; every redraw ends with a flush; a keyboard has the server's key map |
| `ocdm`, sessions (`open_cdm_impl.h/.cpp`, `open_cdm.cpp`) | the map of sessions by key id, reference counts, key statuses | construct and destruct a session, `opencdm_get_system_session` (waits), key status callbacks | application threads, RPC callback thread, look-ups and reference counts under different locks | a session found is alive and stays so until destructed; every wait ends; the session map names live sessions only |
| `ocdm`, connection to the server (`open_cdm_impl.h/.cpp`, `open_cdm.cpp`, `open_cdm_ext.cpp`) | the singleton accessor, its channel and remote proxy; per session the proxies `_session` and `_sessionExt`, the sink the server calls | questions to the accessor and to a session, reconnection, construction, destruction | the server dies and comes back; all threads ask through one pointer; the server calls back from inside the construction | a proxy is held while it is used and released once; a call on a session finds its proxy; a callback finds its session; a type of key the server knows is supported |
| `ocdm`, decrypt exchange (`open_cdm_impl.h`, `DataExchange`) | one shared buffer with two semaphores per session, created lazily | `Decrypt` from any thread; the server on the other side | lazy creation raced by several threads, blocking hand-over with another process | each caller gets its own data decrypted; one exchange per session; `Decrypt` returns |
| `bluetoothaudiosource` | the plugin's three interfaces, sink, receiver and its thread, callbacks, two locks | `OnAcquire`, `OnSetSpeed`, `OnRelinquish`, `StateChanged`, `Operational`, `SetSink`, calls and (un)registration | four threads; frames are delivered without a lock; the plugin goes away in the middle | frames arrive only between play and pause; interfaces and callbacks are alive when used |
| `bluetoothaudiosink` | one instance all clients share, its count, buffer, interfaces, callbacks, three locks | init and deinit, `Configure`, `Acquire`, `Relinquish`, `Frame`, `Operational`, `StateChanged` | the last deinit runs against calls and the monitor | the instance outlives every call; callbacks do not outlive registration |
| `playerinfo`, `displayinfo`, `deviceinfo` | a singleton over the interfaces of a plugin; callbacks; `deviceinfo` also caches | `Operational`, notifications, (un)register, queries into the caller's arrays | the plugin comes and goes during a call; lengths in eight bits; a cache per attribute | interfaces are released once and not while used; nothing is written past an array; an answer is what the device said |
| `displayinfo`, EDID parser | a base block and its extensions | copy, iterate, decode | none (pure) | the values of the standard |
| `cryptography`, remote and local objects | proxies with a remote reference each; local objects that keep their vault | every call that yields an object, `Unlink`, releases | the plugin dies, and all proxies are unlinked, during any of them | each remote reference is given back once; a vault outlives its objects |
| `cryptography`, OpenSSL vault | blobs under 32-bit handles, ciphers, HMACs | import, export, `vault_get`, `vault_set`, generate, derive, delete | a lock per call, operations of several calls; blobs that clients cut or made | no secret is exported; a handle never changes its key |
| `cryptography`, SecApi vaults | ids of objects inside a security processor; for Netflix a map of small handles | import, put, named keys, delete, ciphers, digests, HMACs, derivations | any call of the processor fails; ids and handles are used again | no object is forgotten that could be deleted; the handle given out for a named key stays that key's |
| `virtualinput`, `provisionproxy`, `securityagent` | connection counts; one blocking IPC call each | send a key; fetch a blob | connection lost, buffers too short | the documented return codes |

How they interact: `compositorclient` (Mesa) builds each `ContentBuffer` on a
`graphicsbuffer` client; the compositor plugin holds the server end. The others only
meet in Thunder's plugins. The application's threads call in, the `ResourceMonitor` thread
(graphics) or an RPC thread (the rest) calls back.

The hazards, each at its line, are listed under `hazards` in `PROJECT.json`, with the
properties that cover them.

## 2. Modules

| Module | Models | Status |
|---|---|---|
| `GraphicsBuffer` | the frame hand-over of `GraphicsBufferType.h`, both ends | checked |
| `FrameContract` | the abstract promise of a buffer to an application, frame by frame | refined by `GraphicsBuffer` |
| `GraphicsBufferProofs` | theorems about `GraphicsBuffer` | proved |
| `MesaSurface` | the buffers of one Mesa surface, on top of the hand-over | checked |
| `MesaSurfaceProofs` | theorems about `MesaSurface` | proved |
| `OcdmSessions` | the session map, the reference counts and the look-up by key of `libocdm` | checked |
| `OcdmSessionsProofs` | theorems about `OcdmSessions` | proved |
| `OcdmDecrypt` | decryption through the buffer a session shares with the server | checked |
| `OcdmDecryptProofs` | theorems about `OcdmDecrypt` | proved |
| `OcdmAccessor` | the connection of `libocdm` to its server and the proxies of its sessions | checked |
| `BluetoothSource`, `BluetoothSink` | the two ends of Bluetooth audio | checked |
| `PlayerInfo`, `DisplayInfo`, `DeviceInfo` | the clients of three information plugins | checked |
| `Edid` | the parser of a display's EDID, against the layout of the standard | checked |
| `Cryptography` | the proxies and local objects of the cryptography library | checked |
| `OpenSSLVault`, `SecApiVault`, `SecApiNetflixVault` | the three vaults | checked |
| `MesaDisplay`, `RpiDisplay`, `Westeros` | displays, surfaces and input of the three backends | checked |
| `Libraries` | the thirteen modules above without a configuration for all their properties, side by side | run `libraries` |
| `VaultProofs` | theorems about the three vaults | proved |
| `ClientProofs` | theorems about `Cryptography`, the two Bluetooth modules and the three information clients | proved |
| `DisplayProofs` | invariants of `MesaDisplay`, `RpiDisplay` and `Westeros` | proved |
| `LibrariesProofs` | theorems about `Libraries`, from the three above, and about `Edid` | proved |

An operator whose name has a suffix and whose comment begins with "Mutant" is a plausible
mistake in the definition that follows it. No action uses it; `PROJECT.json` says which
property finds it.

In `PROJECT.json` each definition is mapped to the function, or the part of one, that it
translates. Where it stands for several functions with the same body (the string getters of
`DeviceInfo.cpp`, the forwarding calls of `Cryptography.cpp`) `symbol` names them and the lines are theirs;
a definition whose function fills few lines has few lines.

### GraphicsBuffer

`command` is the atomic byte `_command`; `produced` and `consumed` are the counts of the two
semaphore eventfds. Each compare-exchange, each eventfd read and each eventfd write of the
code is one action, and `cpc` and `spc` say which of them each thread takes next:

* `RequestRender`, `RequestFromIdle`, `RequestFromRequest`, `IsRendered`, `IsPublished`,
  `RequestRefused`, `RequestSignal` are `ClientBufferType::RequestRender()`: three attempts of
  `Request()`, after the first of which a pending `RENDERED` or `PUBLISHED` is taken, after the
  second only a `PUBLISHED`.
* `ClientHandle`, `IsRendered`, `IsPublished` are `ClientBufferType::Handle()`, on the monitor;
  `OnRendered` and `OnPublished` the virtual callbacks, on whichever thread took the event.
* `ServerHandle` and `IsRequested` are `ServerBufferType::Handle()`; `PostFromIdle`,
  `PostFromRendered`, `PostFromPublished`, `IsRequested`, `PostRefused`, `PostSignal` are
  `Rendered()` and `Published()`, which differ only in the value they post. `Request()` is a
  virtual function; the one modelled is that of the repository's example server, which calls
  `Rendered()` and, if that succeeded, `Published()`. Because a failed post calls `Request()`
  again, posts nest; `stack` holds the suspended ones.
* `Push` is the example's `W` command, a second server thread that posts unasked.
* `ClientDestroy` and `ServerDestroy` are the destructors: the monitor has let go of the
  buffer, so no call of that end is under way; those of the other end may be.

Left out: the events `POLLIN` reports with no count behind them (a read would block nobody
else), file descriptor errors, and the pixel lock, which no step of the hand-over touches.

### FrameContract

Six stages of a frame and whether the application heard `Rendered()` for it. It says
what an application may rely on: one frame at a time, published once, `Published()` heard
exactly once per frame and after the server published, `Rendered()` at most once and
never after it. `GraphicsBuffer!stage` and `GraphicsBuffer!told` are the refinement mapping.

### MesaSurface

GBM lends the buffer objects (`locked`), `known` is the set with a `ContentBuffer`,
`state` is the atomic `ContentBuffer::_state`, and `active` and `retired` are the two atomic
pointers. Each thread (the render thread in `RequestRender()`, the monitor in the two
callbacks) has a program counter, the buffer it handles (`buf`) and the one it retires or
releases (`other`); each compare-exchange, exchange and GBM call is one action. The channel
of each buffer is that of `GraphicsBuffer` with the eventfds abstracted away: theorem
`NoLostWakeup` shows that a standing event always has its wake-up, so the monitor may look
at any time. The server is one thread that renders and publishes a buffer before it takes
the next, as in the example; its posts are one step each here, which is sound because
`ChannelsDisciplined` shows that they never meet a `REQUEST`.

The application calls `RequestRender()` whenever it likes: the renderer in
`compositorclient/test/client-renderer/common/Renderer.cpp` stops waiting for `Rendered()` after
80 ms, so any number of frames may be in flight.

### OcdmSessions

`sessionKeys` is the map `_sessionKeys`, `refCount` the interlocked `_refCount`, `owned` the references
the application holds, and `life` how far a session is between its constructor and `delete`.
`status` is the status of the one key that is looked up, as the RPC thread last reported it.

* `Construct`, `AddSession`, `Constructed`, `ConstructFails` are `opencdm_construct_session()`. If the
  server refuses (`hollow`) the session never enters the map, and the code answers `ERROR_NONE`
  all the same; if the private data cannot be constructed, the constructor's reference is
  given up by the code that gives up any other, `Release`.
* `Destruct`, `RemoveSession`, `Revoke` are `opencdm_destruct_session()` with the destructor in the three
  steps another thread can tell apart: the count at 0, out of the map, freed.
* `GetSession`, `Search`, `Wait`, `Find`, `AddRef` are `opencdm_get_system_session()`. `Search` is one round of
  the loop of `WaitForKey()`. Time is `clock`: `Tick` brings a look-up into its last millisecond
  and past its end. `_signal` is never set (`KeyUpdate()` has no caller), and `Lock()` gets the whole
  milliseconds that are left, so `Wait` ends only in the last. `Session()` searches the map before it
  takes the lock (`Find`), which may miss a session while another thread changes the map.

What `_adminLock` protects is one step. `sure` is a history variable: the sessions a look-up could
have found at any moment since it began. `Disciplined` is a discipline of the application: it gives
up the last reference to a session only while no look-up is under way. Left out: the accessor's own count and
`SystemBeingDestructed()`. The accessor's connection and the calls that a session forwards are in `OcdmAccessor`.

### OcdmAccessor

A life of the server is a number; `running` and `life` say whether it runs and which life it is, and `remote`, the accessor's
proxy `_remote`, is the life it came from. `client` is `_client`: not there, open, or closed; `ChannelCloses` is the
channel noticing that the server is gone, some time after `Die`. `references` and `counts` count what the process holds of
accessors and of sessions; `proxy` and `ext` say whether `_session` and `_sessionExt` are set.

* `Reconnect` and `Open` are `Reconnect()`, under `_adminLock`, before and after the RPC that opens the channel; `IsTypeSupported` is the only
  question that begins with it. `Enter` and `Ask` are any question: under the lock, only if there is a `_remote`, and the server does it, refuses, or
  is gone; without one it returns at once (`NoRemote`). `Question` stands for the C functions that ask without reconnecting. `Dispose` is the destructor.
* `Construct`, `Created`, `Store`, `ReleaseReal` are the constructor of `OpenCDMSession`: the server has the sink from `Ask` on, the reply brings
  the first reference, `Session()` adds those of `_session` and `_sessionExt`, and the constructor gives up its own.
* `CallSession`, `Use` and `CallSessionExt`, `UseExt` are the calls of a session, which take no lock. `Destruct`, `RemoveSession`, `Revoke`, `Free` are
  its destructor.
* `OnKeyMessage` and `CallbackReturns` are the callbacks, on the one thread of `InvokeServerType<1, ...>`.

`fit` is a history variable: since the call began the server has been running, and a channel to an earlier life was known to be
closed. What the calls answer is left out (three that answer wrongly are listed in section 3). Assumed: a server that
runs lets a callback of a session end before it answers `Revoke()` (a server that died cannot; `CalledWhileAlive`, a part of `InterfacesAreAlive`, says nothing then);
the application destructs a session when no call on it is left (`OcdmSessions` is about the count), and disposes of the accessor last. `Patient` is
an application that calls a session only after `opencdm_construct_session()` has returned it, with an id.

### OcdmDecrypt

`Decrypt`, `Lazy`, `CreateSessionBuffer`, `New`, `Spin`, `Check` are `OpenCDMSession::Decrypt()` and
`DecryptSession()`: a thread that finds no `_decryptSession` asks the server for a buffer, the first
one creates it and the others spin. `Lock` to `Unlock` are `DataExchange::Decrypt()` under `_systemLock`,
one action per semaphore operation and per copy. `RequestConsume` and `ServerDecrypt` are the server,
which is not in this repository: it takes the sample, decrypts it in place or reports an
error, and hands the buffer back. `producer` and `consumer` are the buffer's semaphores. What a
sample consists of (IV, sub-samples, pattern, media properties) is written and read with it and abstracted to a member of `Data`.

### BluetoothSource, BluetoothSink

`BluetoothSource` has a program counter for each thread: those of the application (`Clients`), the RPC thread that serves
the plugin's calls, the monitor that reports the plugin's coming and going, and the receiver's
`worker`, whose four steps are those of `Worker()`: read a frame, call `frame_cb()`, test `_running`,
block. `OnAcquire` (with the creation of the `_receiver`), `OnPlay`, `OnPause` and `OnRelinquish` are the plugin's
calls, `OperationalDown` does the last two itself and then `Cleanup`; `Stopped` is `Receiver::Stop()`
waiting for the thread. `held` are the three interfaces, and `told` is a history variable:
what the sink heard last. `Call` and `Return` are the application's calls, under `_lock`. `Register` adds a callback under
`_sinkLock`; the thread then asks for the state (`AskState`, `StateAsked`) or whether the plugin is up (`Announce`) and calls the
new callback itself (`Called`), without a lock.
Assumed: the application clears its sink only when no receiver is acquired (the code prints a warning
and goes on; with a receiver the two locks are taken in the wrong order, see the hazards), its callbacks
return and call nothing of this library, and it does not dispose of the singleton.

In `BluetoothSink` the clients share one object: `Create` and `Destroy` are `bluetoothaudiosink_init()` and `_deinit()`
under `_instanceLock`, with the destructor in three steps (`Destruct`, `Teardown`, `Close`). Calls that take
`_sinkLock` are `Begin` and `End`, so the monitor's `OperationalDown`, `ResetBuffer`, `Release`, `Notify` runs between and
inside them. A new state callback is called with `_lock` held, a new operational one without (`Announce`, `Called`): that one
call may come after another client has unregistered it, and `CallbacksAreRegistered` is not about it, here or in the source. Assumed: a client calls between its own init and deinit, and no callback
calls the library. `Operational(false)` releases `_sink` and `_sinkControl` under `_lock` while calls use them under
`_sinkLock`; no lock excludes that, so the model leaves the case out and the hazards name it.

### PlayerInfo, DisplayInfo, DeviceInfo

The three are alike. `up` is the plugin, `held` (or `player` and `dolby`) the interfaces, `sinks` how often the
notification is registered, `references` what the plugin has lent. `_lock` is held
across each remote call and callback, so every one of them is two steps. `PlayerInfo` also has the arithmetic of
`playerinfo_audio_codecs()`, which counts into a signed byte (`Count`). `DeviceInfo` adds the
caches: `String` and `Id` for the strings (`Reply` tests the caller's length and sets the needed one, in eight bits), `AskOutputs`, `AskList`,
`Hdcp` and `MaximumOutputResolution`, `DefaultOutputResolution` (which keeps what nobody wrote, `Undefined`, when the device refuses) for the ports and `AskFlag` for the three flags packed into one byte (`Set`, `Value`).
A call of `DeviceInfo` is one step: it holds `_lock` from its first look at a cache to its last write. `Names` is a map
of ports in the order in which the code walks it, that of its keys, and `Distinct` the loop that copies it, or a list,
to the caller's array. Assumed: arrays are not empty.

### Edid

What a display says is a record (`said`); `Layout`, `Extension` and `Segments` turn it into the bytes of the CEA
standard, and `Copy`, `Walk`, `Vendor`, `ColorFormats`, `RGBColorDepths`, `Timings`, `AudioFormats`, `Preferred` and `Manufacturer` are the
parser's functions applied to those bytes. The properties compare the two. Assumed: the
buffer announces its extensions, and no data block ends after its collection. `EdidAssumption` allows 15 data blocks of
at most eight bytes, as many as the 128 bytes of an extension hold for sure.

### Cryptography

`kind`, `accessor`, `listed`, `held` are the proxies, `refs` the references on the remote objects.
`Query`, `AskCryptography`, `AskVault` and `Register` are every call that yields an object: the remote call, then the
registration of a proxy, with the parent's `_adminLock` held throughout. `OperationalDown` and `ClearOne` are
`CryptographyLink::Operational(false)`, one proxy at a time; `ReleaseProxy` is the application's last release, and
`Unlink` is what both do. The other half (`vaultRefs`, `locals`) is the build without a plugin, where an object
keeps the vault it was made from. The two halves share no state.

### OpenSSLVault, SecApiVault, SecApiNetflixVault

`OpenSSLVault` keeps blobs (`items`) with symbolic contents: which secret a blob is, all of it or a part, not its bytes. A stored blob is
encrypted but carries no proof of where it comes from: `VaultGet` hands out as much of it as the buffer holds (`Cut`), and `VaultSet` stores
what was handed out or anything a client made (`Made`), always sealed. `known` are
the contents clients hold in clear and `first` is a history: the content first
stored under each handle. `VaultImport`, `VaultGenerate`, `VaultGet`, `VaultSet`, `VaultExport` and `VaultDelete` are the vault's
calls; `Dh*` and `DeriveKeys*` are the Diffie-Hellman operations one vault call at a time, and `CipherOperation` and `HmacKey` look
their key up again each time they are used. OpenSSL is taken to succeed. What an object computes with a cut or foreign blob as its key
is outside the module, and no property speaks of it: `SealedIsNotExported` is about what the vault itself exports.

`SecApiVault` provisions a key as up to two objects of the security processor; `objects` is what the processor holds, `files`
what it holds persistently, and `Outcome` what an import leaves there when either object fails. The deletions of the rollback and of `Delete`
may be refused, which the code does not look at; `refused` remembers the objects this happened to. The copied `IdStore` is used in the call that
copied it. `SecApiNetflixVault` is the map
`_socKeyMap` with its lowest free handle (`NewKeyHandle`) and the named keys found at start.

### MesaDisplay, RpiDisplay, Westeros

`MesaDisplay`: `named` is `_displays`; `stage` is how far a display is between `Initialize` (which may fail halfway) and its
deletion; `refs` is `_refCount`, and `users`, `holders` and `devices` are who holds references. `Drop`, `Erase`, `Close`, `Deinitialize` are the last
`Release()` in the steps other threads can tell apart, `ReleaseSurface`, `Unregister`, `Dispose` the destructor of a
surface. `Publish`, `Visit`, `Send`, `Leave` are one event of the input thread, which holds
`_displaysMapLock` and then each `_adminLock`. Assumed: no `Instance()` while the last reference of that display goes, no
`SurfaceByName()` of a dying surface, no device attached or detached while it is given an event.

`RpiDisplay` is the Broadcom build: the same registries, plus `offered` (the clients offered to the compositor),
`remote` (opacity and layer, with the layer counted from the other end) and `queue` (the pipe from the
virtual input's callbacks, `Write`, to `Process`). One display at a time, because the pipe is global; no cursor.

`Westeros`: every operation holds the process-wide `_adminLock` and is one step, except `Redraw`, which triggers
the thread `Processor` (`Flush`, `Flushed`) and waits without it (`Redrawn`). `byWayland`, `byId`, `focus` and `held` are the four places that
name a surface, `count` is its `_refcount`. One display; what `SurfaceByName()` returns is not released (it adds
no reference), and no call is made on a surface that is gone at the server.

### Libraries

The libraries share no state, so a behaviour of `Libraries` follows one of them (`live`) from any of its initial
states while the others rest. A property of `Libraries` is the conjunction of what several
libraries promise alike: `ReferencesBalance`, for instance, of nine of them. Each is guarded by `live`, since the others do not move.

## 3. What the runs check

| Run | Bounds | Checks |
|---|---|---|
| `buffer_free` | 2 requests, one pusher with one push, application that does not wait | `TypeOK`, `RequestIsSignalled`, `PostIsSignalled`, `DestroyedIsFinal`, `RequestIsTaken`, `PostIsTaken` |
| `buffer_contract` | 3 requests, application that waits for `Published()` | `RequestMustSucceed`, `PostMustSucceed`, `NoNestedRequest`, `ContractHolds` (refinement with liveness) |
| `buffer_post` | 4 requests, application that does not wait | `PostMustSucceed` fails |
| `mesa_surface` | 3 buffer objects, 3 slots, no bound on frames | `TypeOK`, `Ownership`, `StageNeverFails`, `PointersSound`, `ChannelsDisciplined`, `RetiredIsReleased` |
| `mesa_pending` | the same | `PendingIsAwaited` fails |
| `mesa_on_screen` | the same | `ReleasedIsOffScreen` fails |
| `ocdm_sessions` | 2 threads, 2 sessions, 2 systems, look-ups while fewer than 2 references to a session are held | `TypeOK`, `MapIsSafe`, `HeldMeansAlive`, `DestroyedOnce`, `StandingKeyIsFound`, `GetReturns` |
| `ocdm_found` | 2 threads, 1 session, undisciplined | `FoundIsAlive` fails |
| `ocdm_decrypt` | 3 threads with one call each, 2 sessions, 2 samples | `TypeOK`, `BufferIsExclusive`, `OwnAnswer`, `DecryptReturns` |
| `ocdm_accessor` | 2 threads, 1 session, 2 lives of the server, patient application; 44,036 distinct states | `TypeOK`, `ProxiesBalance`, `InterfacesAreAlive` (questions are asked, sessions called and callbacks made through what is alive), `SupportedReconnects` |
| `ocdm_challenge` | the same, impatient application | `SessionCallsHaveSession` fails |
| `libraries` | see below; 501,207 distinct states | `TypeOK`, `SealedIsNotExported`, `ObjectsKeepTheirKey`, `OrphansWereRefused`, `ReferencesBalance`, `InterfacesAreAlive`, `CallbacksAreRegistered`, `FramesOnlyWhilePlaying`, `RegistriesAreSound`, `AnswersMatch` |

Why the bounds are enough. In `buffer_free` two requests, a push and the eight posts they can
cause already fill every pair of program counters of the four threads and a nested
`Request()`; the theorems remove the bound for the safety properties. In `buffer_contract` the
third frame meets the leftover event of the first. `MesaSurface` has no bound on time:
three buffers is the least for one drawn, one active and one retired at once, and what GBM
usually has. In `ocdm_sessions` one thread looks up what the other constructs or destroys, and the
second session lets a look-up find the wrong one; `MaxReferences` bounds only what the
application hoards, and the theorems hold for any. In `ocdm_decrypt` three threads are the least for a creator and
two that race it, or for two of one session against one of another at the shared lock. In `ocdm_accessor` two threads are a question against the reconnection, or a call
of the session against its construction; sessions share nothing but the lock and the callback thread, and two lives are the least for a stale proxy; in
`OcdmAccessor` there is no bound on calls. `MaxFrames`, `MaxReferences`, `MaxCalls`, `MaxLives` and `MaxPushes` are the only bounds on
behaviour in these modules, and they bound how often an application acts or the server starts, not what the libraries do.

`CHECK_DEADLOCK FALSE` stands in all configurations because an application may simply stop
asking for frames, sessions or samples, a destroyed buffer does nothing more, and in `Libraries`
the handles, objects and proxies that can be made are bounded.

Bounds of `Libraries`. `Clients` is two: one application thread against another and against the
monitor, RPC and input threads each library has of its own. They are symmetric
(no definition chooses among them, and the run has no liveness property). `UserBase` 16 and `MaxHandle` 18 stand for
0x80000000 and 2^32 - 1: 16 is the last built-in blob, and two more are the least for one stored after
another; when the handles are used up no further store takes place. `Targets`, the handles
clients name, are both of those (the built-in ones are loaded by the derivations). `Buffers` of 8 and 32 bytes give a blob that has less than its IV, one that is cut, and
one of a whole key of 16. `MaxItems` 2 with three `Objects` gives a key of two objects while another of one is
there, and object ids that are used again. `MaxKeys` 5 is the three named keys and two more.
`MaxProxies` 3 is the cryptography object, a vault of it and an object of that; `MaxLocal` 2. `Codecs` and array `Lengths` lie around zero and around the
array size of 50. `Vics` has a code of each of the two encodings and an unknown one, and two data
blocks let the second be found behind any first. Strings of 4, 254 and 255 bytes meet arrays of 1, 4 and 255, and
`Topics` pairs the queries of `DeviceInfo`, each cache with another. Two displays and two
surfaces (for RPI one) are the least at which one goes while another stays; `Width` 2 with moves of -1 and 2
reaches both borders; `MaxQueued` 1. Two Westeros objects and one id let a surface follow
another under the same id. `MaxHandle`, `MaxItems`, `MaxKeys`, `MaxProxies`, `MaxLocal`, `MaxBlocks`, `MaxDisplays`, `MaxSurfaces` and `MaxQueued` are bounds; the
theorems of section 4 hold for any value of those they concern.

### Fairness

`FairSpec` asks for weak fairness of every thread's own next step: the operating system
schedules every runnable thread. The monitors are `ResourceMonitor` threads that poll
until their resources are unregistered, so `ClientHandle` and `ServerHandle` are among
these steps. In `MesaSurface` each `Handle(b)` is strongly fair, because the monitor serves
every descriptor `poll()` reports before it polls again. Application calls (`RequestRender`,
`LockFront`), pushes, GBM's destruction of buffer objects and the destructors have no fairness.
In `OcdmSessions` threads run and time passes; what the application calls and what statuses the
server reports have no fairness. In `OcdmDecrypt` threads and the server run. `_systemLock`
is a pthread mutex without any fairness of its own; with a bounded number of calls per thread
weak fairness of the threads is enough.
`OcdmAccessor` and `Libraries` check safety only and state no fairness.

### Disagreements between code and documentation

1. `PostMustSucceed` (`GraphicsBufferType.h:910,934`): the second attempt of `Rendered()` or
   `Published()` "MUST succeed" and is asserted to. It need not: each attempt is three
   compare-exchanges with three expected values, and a client that does not wait for
   `Published()` can move the byte past each of them. With a client that waits, it does succeed
   (`buffer_contract`, theorem `DisciplineSuffices`).
2. `PendingIsAwaited` (`Mesa/Implementation.cpp:128`): `Published()` overwrites a `RENDERED` nobody has
   taken. `OnBufferPublished()` does not activate the buffer, so it stays `PENDING` for good and
   GBM never gets it back.
3. `ReleasedIsOffScreen` (`Mesa/Implementation.cpp:584`): `OnBufferPublished()` releases whatever is
   retired, not what this publication replaced. A late `Published()` of an old frame
   releases the frame that is on screen.
4. `FoundIsAlive` (`ocdm/open_cdm.cpp:239`): the session a look-up returns "also needs to be destructed",
   so it must be alive. The map holds no reference: between the step that takes the count to
   0 and `RemoveSession()` a look-up finds the session, adds a reference to it and
   returns it while the destructor runs; a second destructor follows when the caller gives it
   up. With `Disciplined` the property holds (theorem `FoundAlive`).
5. `SessionCallsHaveSession` (`ocdm/open_cdm_impl.h:947`): the challenge callback hands the session out from the moment the server has the sink; an
   application that answers at once by `opencdm_session_update()`, as `open_cdm.h:213` asks it to, may do so before the constructor has
   stored `_session`, which `Update()` asserts (`:791`). With a patient application it holds (`ocdm_accessor`, as a part of `InterfacesAreAlive`).

Others, met while modelling, take one call to see and have no run of their own:

* `cryptography/implementation/SecApi/Vault.cpp:123,196`: `Import()` returns an id whatever the security processor answered. If the key could
  not be provisioned nothing is stored under it, and the next import returns the same id for another key.
* `deviceinfo/DeviceInfo.cpp:426`: `Deviceinfo_serial_number()` tests whether `_modelName` is cached and answers with `_serialNumber`; once the
  model name has been asked for it succeeds with an empty string. `AnswersMatch` allows exactly that answer.
* `deviceinfo/DeviceInfo.cpp:1248`: the result of `DefaultResolution()` is ignored, and when the device refuses, a local variable nobody wrote
  is converted, cached and returned with `DEVICEINFO_OK`, the one case in which `deviceinfo.h:386` lets a caller read it. `AnswersMatch`
  allows an undefined value for that attribute and no other.
* `deviceinfo/DeviceInfo.cpp:446`: `deviceinfo.h:156` promises "the needed size(including the null character at the end)"; for a string of 255
  bytes it is 0. `AnswersFit` claims it for strings of up to 254 and says nothing of a longer one.
* `ocdm/open_cdm_impl.cpp:94`: `opencdm_construct_session()` is "Zero on success, non-zero on error", but tests the result of `new`. Without a
  server, or with one that refuses, it returns zero and a session that has none (`NoRemote`, `Ask`).
* `ocdm/open_cdm_ext.cpp:52`: in `opencdm_create_system_extended()` an inner `result` hides the one that is returned, so the function says
  `ERROR_INVALID_ARG` when it succeeded.
* `ocdm/open_cdm_impl.h:787`: `Load()` returns a comparison with success, so `opencdm_session_load()` is not zero on success, and zero on error.

## 4. What is proved

With TLAPS, for all values of the constants that satisfy the assumptions named in the
modules (`BoundsAssumption`, `PushersAssumption`, `DisciplinedAssumption`; `NoneAssumption`,
`MaxAssumption`; and the ten that `LibrariesAssumption` joins). TLC evaluates each of
them in the run whose module has it. All invariants the passing runs check are theorems but those of
`OcdmAccessor`, which is model-checked only. `FoundAlive` and `CreatedOnce` are about `FoundIsAlive` under `Disciplined` and `OneBuffer`, which no passing
run lists: the first follows closely from what `MapIsSafe` says there, and the second is a fact about one lock.

`GraphicsBufferProofs`

* `TypeCorrect`: `TypeOK` always. The strengthening `AttemptOK` says that events are looked
  for only after the first and second attempt.
* `NoLostWakeup` and `PostNeverLost`: `RequestIsSignalled` and `PostIsSignalled`. They are inductive together with
  the fact that a thread is `gone` only when the buffer is destroyed: only the monitor of an
  end lowers that end's count, and it looks at the byte afterwards; whoever raises the byte
  is at its `write` step until it has raised the count.
* `DestroyedForGood`: `DestroyedIsFinal`, for no compare-exchange expects `DESTROYED`.
* `DisciplineSuffices`: if the application waits and nobody pushes, `RequestMustSucceed`,
  `PostMustSucceed` and `NoNestedRequest` (singly: `RequestSucceeds`, `NeverNested`). The invariant `FrameInv` lists the five joint phases
  the threads can be in and, in each, the compare-exchange each can still have under way.
  It has to allow for the client to take `PUBLISHED` with an event left from `RENDERED`, and to
  take `RENDERED` in the middle of the server's three exchanges.
* `ImplementsContract`: under the same assumptions every step maps to a step of
  `FrameContract` or a stutter.

`MesaSurfaceProofs`

* `OwnershipHolds`, `PointersHold`, `StageHolds`, `TypeCorrect` follow from one inductive
  invariant, `SurfaceInv`. Its main part, `Placed(b)`, says that every buffer object that is not
  GBM's is in exactly one place: in the hands of one thread (`Has`), active, retired, or pending. The
  states alone are not inductive because a state and the pointer or GBM call that goes with
  it change in two steps, and two threads may be between such steps at once; `HandsInv`
  says that they never hold the same buffer.
* `ChannelsHold`: `ChannelsDisciplined`. Its invariant, `ChannelInv`, is about the order of posts and callbacks. A `RENDERED`
  stands only until the server posts `PUBLISHED` on the same buffer, so whoever takes it does so while the server has that buffer; and
  what `RequestRender()` finds on a buffer from GBM can only be an old `PUBLISHED`. So the monitor alone
  activates frames, in the server's order, and retires one when the server is through with it. The invariant also shows that the
  third `Request()` of `RequestRender()` is never made: after one old event there is none left.

`OcdmSessionsProofs`

* `TypeCorrect`, `MapHolds`, and under `Disciplined` `HeldAlive`, `OneDestructor` and `FoundAlive`. Without `Disciplined` none of these three
  holds: a look-up may bring a count back from 0, as the run `ocdm_found` shows. The
  inductive invariant adds to these that the session a thread handles is at the stage of life the
  thread's step implies, that a session under construction is in the hands of one thread, and that
  `owned` and the constructor's reference make up the count.
* `StandingFound`: under `Disciplined` `StandingKeyIsFound`, an action property. `SureInv` relates the history of a look-up to the map: what could have
  been found all the while is still accepted, and the look-up waits only if there is nothing.

`OcdmDecryptProofs`

* `TypeCorrect`, `ExclusiveBuffer`, `AnswersMatch`, `CreatedOnce`. The invariant comes in four layers, each
  inductive relative to the ones before: types and the lock (`BaseInv`), creation (`CreationInv`),
  one token per buffer (`TokenInv`: a count of one of the two semaphores, the server's turn, or
  that of the thread under `_systemLock`), and the contents (`AnswerInv`). `TokenInv` is what
  `OwnAnswer` needs to be inductive: the thread that waits for the server must be told apart from
  one that waits for the buffer, though both wait on the same semaphore.

`LibrariesProofs`

* For every library a lemma `...Moves`: a behaviour of `Libraries` is, through the variables of that library, a
  behaviour of its own module. A step is the library's own, or the library rests. So an invariant of a module's `Spec` is
  one of `Libraries!Spec`, and the ten theorems `LibrariesTypes`, `LibrariesExportNoSecret`, `LibrariesKeepKeys`,
  `LibrariesOrphansWereRefused`, `LibrariesBalance`, `LibrariesUseWhatIsAlive`,
  `LibrariesCallRegistered`, `LibrariesPlayInOrder`, `LibrariesRegister` and `LibrariesAnswer` follow from those of
  the next three modules and of the parser, which is in this one: all that run `libraries` checks. The proofs are about the modules as `Libraries`
  instantiates them, so each is about what the run checks.
* The EDID parser. `EdidInv` is type correctness: it needs what a display may say, spelled out (`EdidSays`), and that no block of
  the collection takes more than eight bytes, so that an extension's length fits a byte. That the parser answers what the display
  said (`EdidMatchAlways`) is about its operators on bytes, for any number of data blocks that fit, in this order:
  * one byte: a bit of `Ones(bits)` is set if and only if it is in `bits` (`EdidBitsOf`);
  * one block: what `Layout` writes for each type, and what tag, size and vendor of it read as (`EdidLays`, `EdidMarks`);
  * the collection: block k of the row that `FlattenSeq` makes lies where the lengths of those before it add up to (`EdidPlaces`),
    and `Walk` stops exactly at these places (`EdidVisits`), so that the first stop of a type is that of the first block of the type (`EdidFirst`);
  * the collectors: each reads from there what the block says (`EdidRead...`), together what the extension says (`EdidHears`);
  * the steps: `EdidTruth` says that what was copied is the beginning of the segments of the display, each where it belongs, and that an
    answer was collected from its extension.

  `FlattenSeq` and `Walk` are recursive functions; where an induction over data would be made, the
  least position at which the claim fails is led to a contradiction (`Least`).

`VaultProofs`

* `VaultTypes`, `VaultSealedIsNotExported`, `VaultHandlesNameOneKey`. Every action is one of five kinds: it stores a blob, leaves
  the vault alone, uses an object, exports or deletes. `VaultSealInv` says that nothing exportable is a secret, a part of one or
  foreign, which is all an export can reveal, whatever was cut, made and stored; `VaultKeysInv` that handles after `lastHandle` were never used, so a deleted
  handle stays empty and an object's handle finds its own key or none.
* `SecApiTypes`, `SecApiOrphansWereRefused`. The invariant adds to the property (what no item names was refused) that items after `lastHandle` are absent and that, with the
  processor released, what it holds is in its files.
* `NetflixTypes`, `NetflixEncryptionKeyForEver`. The lowest free handle exists because the natural numbers are
  well-founded; `NetflixFirstInv` says that the encryption key, if it is
  there, has handle 1 from the start; `Delete()` leaves that one alone, so it is never the free one.

`ClientProofs`

* Source: `SourceInv`. `SourceLocks` says what each thread is doing while it holds which lock, `SourceReceiver` that a frame can only be
  under way for a receiver whose sink was told to play, or by whom it is being stopped; `SourceHeld`, that whoever
  waits for the worker keeps the interfaces from being released, needs both.
* Sink: `SinkInv`. The count of the shared instance is the number of its users. That no one is in a call when it is
  destroyed needs that only a user calls, and that the steps of the destructor belong to whoever took the count to 0.
* PlayerInfo (`PlayerTypes`, `PlayerReferences`, `PlayerInterfaces`, `PlayerCallbacks`, `PlayerCodecs`) and DisplayInfo (`DisplayInv`), for any
  number of threads: a thread is busy if and only if it holds `_lock`, so whoever changes
  the interfaces or the callbacks finds everybody else idle.
* DeviceInfo: `DeviceHeld` (the references), `DeviceInv` (what the caches hold, and that an answer fits the array) and `DeviceUp`. The loop that copies
  a list without repetitions is a recursive function over its positions: `DeviceDistinctGood` shows by the least bad position that
  what it leaves in the array is within the array, without repetitions, a part of the list, and all of it if there is room.
  `DeviceTruth` is what `AnswersMatch` needs: every cache is empty or holds what the device says (the default resolution: that or `Undefined`), and a value bit of
  `_flags` is set only with its cached bit, so that `Set` never meets an old value (`DeviceMatchAlways`).
* Cryptography: `CryptoInv`. A proxy has one reference of its own while it has its `_accessor`, and one of the single client that
  is between its remote call and the registration or release of what it got (`CryptoPending`, `CryptoCounted`); the sum over
  threads in `RemoteReferencesBalance` is not inductive as it stands.

`DisplayProofs`

* Mesa: `MesaInv`. The references of a display are its users' and its built surfaces' (`MesaCounted`), for sets of
  any finite size. A display that is referenced is alive and found by its name; one client at most is taking one apart, which is then
  referenced by no one (`MesaMapped`); the same for surfaces (`MesaLiving`). The input thread holds the lock of one
  display at a time, of those it has still to visit, and the map's while it does so (`MesaWalks`): hence no `Erase` and no
  `Unregister` between its look at the map or the list and its use of what it found.
* RPI: `RpiInv`, the same for one display, and that each value sent is one the display has, with events in the pipe of
  any length up to the bound, whatever the width.
* Westeros: `WaylandInv`. A surface's count is at least the number of places that name it, and exactly that while both ends know
  it (`WaylandCounted`); `WaylandDrawn` counts the threads that wait for a redraw against the two semaphores and the one that flushes. It
  gives the Westeros part of `AnswersMatch` as well.

What the proofs changed in the model. The type invariant of `Edid` was false for large `MaxBlocks`: twenty data blocks
make an extension of more than 255 bytes. No display can say that, so the assumption now bounds them by what an extension
has room for. `SetToSortSeq` in `DeviceInfo` hid that the order of the ports is that of the keys of a `std::map`
(`deviceinfo/DeviceInfo.cpp:238`); `Names` says so. What the loops of the EDID parser look for is the first stop of
a set of places (`First`), where it was an element of a filtered sequence, and `ParsedAsSaid` now also says which formats
and which object audio are reported. The other changes name constants (`Byte`, `MaxTouch`) or the assumptions that proofs rest on
(`RpiAssumption`: the width of the screen fits in the sixteen bits of a touch; `MesaAssumption`, `WesterosAssumption`: a marker is no member).

Only model-checked:

* everything under fairness, which TLAPS does not handle: `RequestIsTaken`, `PostIsTaken`, `RetiredIsReleased`, `GetReturns`,
  `DecryptReturns`, and the progress part of `ContractHolds`;
* `OcdmAccessor`: its invariants and the action property `SupportedReconnects` are checked for two threads and two lives.

## 5. Not modelled

`PROJECT.json` lists each component with its status and what is left out of it. Whole parts:

* Buffer memory and pixel lock of `graphicsbuffer`: `Acquire()` and `Relinquish()` surround the pixels and touch nothing of
  the hand-over. What is hard there, a deadline of one clock given to a mutex that takes
  another and a mutex not declared process-shared, is below the level of TLA+.
* RPI `ModeSet`: a sequence of ioctls without state of its own.
* `Wayland/Weston.cpp` and the Thunder implementation of `cryptography`: they do not compile at this commit (members and
  overrides that do not exist), so there is no behaviour to be faithful to.
* `xdg-shell`: generated. `client-renderer`: an application; what it does to a surface is in `MesaSurface`.
* `ocdm` capability parser and adapters; `provisionproxy` and `securityagent`: they forward or parse, and
  keep nothing between calls. `virtualinput` turns messages into callbacks; its
  thread is the input thread of `MesaDisplay` and `RpiDisplay`.

In the components that are partly modelled: dispose and destruction at exit, the translation of enumerations,
geometry, EGL, GBM and OpenSSL themselves, digests, audio frames' contents and times, what objects compute with
a blob of unknown origin, and the situations the modules' headers assume away. Where such a situation is a
defect that the code does not exclude, it is in `hazards` with its line and without a property: among them
the dangling `IdStore` of the SecApi cipher,
the lock order of `SetSink(nullptr)` and the interfaces `BluetoothSink` releases under the wrong lock.

Lesser ones are not in that list: the early returns of `Mesa::Initialize()` leave `_adminLock` held (`Mesa/Implementation.cpp:845`);
`_keyStatuses` is read and written without a lock (`ocdm/open_cdm_impl.h:968`), and `CreateSession()` holds the accessor's while the server
answers (`:218`); `BluetoothAudioSink.cpp:371` uses `_sink` without a test; the pixel lock's deadline is of another clock
(`GraphicsBufferType.h:380`); an ASSERT in the error branch of `DecryptSession()` fails if another thread created the buffer first
(`ocdm/open_cdm_impl.h:936`); Mesa's `Process()` walks the surfaces without the lock, and the
destructor of a surface deletes buffers the monitor may use (`Mesa/Implementation.cpp:767,345`); the RPI pipe is global, so a second
display takes it from the first (`RPI/Implementation.cpp:803`); a second `Redraw()` before the first was rendered fails an ASSERT
(`Wayland/Westeros.cpp:615`); a frame of exactly the maximum size fails another (`BluetoothAudioSource.cpp:122`).
