----------------------------- MODULE Libraries ------------------------------
(***************************************************************************)
(* The client libraries side by side.  Each is linked into a process of    *)
(* its own and they share no state, so a behaviour follows one of them     *)
(* (live) while the others rest in their initial states; together they     *)
(* show the properties the libraries have in common, one conjunct for each *)
(* library that can lose it.                                               *)
(***************************************************************************)
EXTENDS Integers, TLC

CONSTANTS
  Clients,                                           \* threads of the application
  UserBase, MaxHandle, Targets, BlobSizes, Buffers, Provisioned, \* OpenSSLVault
  MaxItems, Objects, KeyNames, Keys,                 \* SecApiVault
  MaxKeys,                                           \* SecApiNetflixVault
  MaxProxies, MaxLocal,                              \* Cryptography
  Codecs, Lengths,                                   \* PlayerInfo
  MaxBlocks, Vics,                                   \* Edid
  Topics, StringSizes, Arrays, Outputs, Queried,     \* DeviceInfo
  DisplayNames, Devices, MaxDisplays, MaxSurfaces,   \* MesaDisplay
  RpiDisplays, RpiSurfaces, Width, MaxQueued,        \* RpiDisplay
  Wrappers, Ids, KeyMaps                             \* Westeros

VARIABLES
  live, \* the library this behaviour follows
  o_items, o_lastHandle, o_first, o_known, o_wrapped, o_pair, o_op, o_object,
  k_items, k_lastHandle, k_objects, k_files, k_open, k_computer, k_refused,
  n_socKeys, n_named, n_peer, n_object,
  c_kind, c_accessor, c_listed, c_clearing, c_held, c_refs, c_made, c_pc, c_up,
  c_vaultRefs, c_vaultHeld, c_locals,
  s_up, s_held, s_lock, s_sinkLock, s_sink, s_receiver, s_running, s_worker,
  s_told, s_registered, s_pc,
  b_up, b_refCount, b_user, b_sink, b_control, b_frameSize, b_buffer,
  b_callbacks, b_lock, b_sinkLock, b_pc,
  p_up, p_player, p_dolby, p_sinks, p_callbacks, p_lock, p_pc, p_answer,
  i_up, i_held, i_sinks, i_references, i_callbacks, i_lock, i_pc,
  e_said, e_seg_iter, e_copied, e_info,
  v_device, v_topic, v_up, v_held, v_references, v_strings, v_outputs, v_lists,
  v_singles, v_best, v_flags, v_answer,
  m_named, m_stage, m_nameOf, m_refs, m_users, m_owner, m_listed, m_holders,
  m_devices, m_taken, m_mapLock, m_adminLock, m_pc, m_input,
  r_named, r_used, r_running, r_refs, r_users, r_owner, r_holders, r_listed,
  r_native, r_offered, r_remote, r_queue, r_pointer, r_touch, r_pc,
  w_users, w_up, w_bound, w_collect, w_made, w_count, w_held, w_linked,
  w_byWayland, w_byId, w_focus, w_keyMap, w_keyboards, w_frames, w_trigger,
  w_redraw, w_flusher, w_waiting

OpenSSL == INSTANCE OpenSSLVault WITH Sizes <- BlobSizes, items <- o_items,
  lastHandle <- o_lastHandle, first <- o_first, known <- o_known,
  wrapped <- o_wrapped, pair <- o_pair, op <- o_op, object <- o_object
SecApi == INSTANCE SecApiVault WITH MaxHandle <- MaxItems, Names <- KeyNames,
  items <- k_items, lastHandle <- k_lastHandle, objects <- k_objects,
  files <- k_files, open <- k_open, computer <- k_computer,
  refused <- k_refused
Netflix == INSTANCE SecApiNetflixVault WITH socKeys <- n_socKeys,
  named <- n_named, peer <- n_peer, object <- n_object
Crypto == INSTANCE Cryptography WITH kind <- c_kind, accessor <- c_accessor,
  listed <- c_listed, clearing <- c_clearing, held <- c_held, refs <- c_refs,
  made <- c_made, pc <- c_pc, up <- c_up, vaultRefs <- c_vaultRefs,
  vaultHeld <- c_vaultHeld, locals <- c_locals
Source == INSTANCE BluetoothSource WITH up <- s_up, held <- s_held,
  lock <- s_lock, sinkLock <- s_sinkLock, sink <- s_sink,
  receiver <- s_receiver, running <- s_running, worker <- s_worker,
  told <- s_told, registered <- s_registered, pc <- s_pc
Sink == INSTANCE BluetoothSink WITH up <- b_up, refCount <- b_refCount,
  user <- b_user, sink <- b_sink, control <- b_control,
  frameSize <- b_frameSize, buffer <- b_buffer, callbacks <- b_callbacks,
  lock <- b_lock, sinkLock <- b_sinkLock, pc <- b_pc
Player == INSTANCE PlayerInfo WITH up <- p_up, player <- p_player,
  dolby <- p_dolby, sinks <- p_sinks, callbacks <- p_callbacks, lock <- p_lock,
  pc <- p_pc, answer <- p_answer
Display == INSTANCE DisplayInfo WITH up <- i_up, held <- i_held,
  sinks <- i_sinks, references <- i_references, callbacks <- i_callbacks,
  lock <- i_lock, pc <- i_pc
Parser == INSTANCE Edid WITH said <- e_said, seg_iter <- e_seg_iter,
  copied <- e_copied, info <- e_info
Device == INSTANCE DeviceInfo WITH Sizes <- StringSizes, Lengths <- Arrays,
  device <- v_device, topic <- v_topic, up <- v_up, held <- v_held,
  references <- v_references, strings <- v_strings, outputs <- v_outputs,
  lists <- v_lists, singles <- v_singles, best <- v_best, flags <- v_flags,
  answer <- v_answer
Mesa == INSTANCE MesaDisplay WITH Names <- DisplayNames, named <- m_named,
  stage <- m_stage, nameOf <- m_nameOf, refs <- m_refs, users <- m_users,
  owner <- m_owner, listed <- m_listed, holders <- m_holders,
  devices <- m_devices, taken <- m_taken, mapLock <- m_mapLock,
  adminLock <- m_adminLock, pc <- m_pc, input <- m_input
Rpi == INSTANCE RpiDisplay WITH Displays <- RpiDisplays,
  Surfaces <- RpiSurfaces, named <- r_named, used <- r_used,
  running <- r_running, refs <- r_refs, users <- r_users, owner <- r_owner,
  holders <- r_holders, listed <- r_listed, native <- r_native,
  offered <- r_offered, remote <- r_remote, queue <- r_queue,
  pointer <- r_pointer, touch <- r_touch, pc <- r_pc
Wayland == INSTANCE Westeros WITH Objects <- Wrappers, users <- w_users,
  up <- w_up, bound <- w_bound, collect <- w_collect, made <- w_made,
  count <- w_count, held <- w_held, linked <- w_linked,
  byWayland <- w_byWayland, byId <- w_byId, focus <- w_focus,
  keyMap <- w_keyMap, keyboards <- w_keyboards, frames <- w_frames,
  trigger <- w_trigger, redraw <- w_redraw, flusher <- w_flusher,
  waiting <- w_waiting

ASSUME LibrariesAssumption ==
  /\ OpenSSL!HandleAssumption /\ SecApi!SecApiIds /\ Netflix!NetflixBounds
  /\ Crypto!CryptographyBounds /\ Source!ThreadsAssumption
  /\ Player!ArraysAssumption /\ Parser!EdidAssumption
  /\ Device!DeviceAssumption /\ Rpi!RpiAssumption
  /\ Mesa!MesaAssumption /\ Wayland!WesterosAssumption

\* The variables of each library.
openssl_vars == <<o_items, o_lastHandle, o_first, o_known, o_wrapped, o_pair,
    o_op, o_object>>
secapi_vars == <<k_items, k_lastHandle, k_objects, k_files, k_open, k_computer,
    k_refused>>
netflix_vars == <<n_socKeys, n_named, n_peer, n_object>>
cryptography_vars == <<c_kind, c_accessor, c_listed, c_clearing, c_held,
    c_refs, c_made, c_pc, c_up, c_vaultRefs, c_vaultHeld, c_locals>>
source_vars == <<s_up, s_held, s_lock, s_sinkLock, s_sink, s_receiver,
    s_running, s_worker, s_told, s_registered, s_pc>>
sink_vars == <<b_up, b_refCount, b_user, b_sink, b_control, b_frameSize,
    b_buffer, b_callbacks, b_lock, b_sinkLock, b_pc>>
player_vars == <<p_up, p_player, p_dolby, p_sinks, p_callbacks, p_lock, p_pc,
    p_answer>>
displayinfo_vars == <<i_up, i_held, i_sinks, i_references, i_callbacks, i_lock,
    i_pc>>
edid_vars == <<e_said, e_seg_iter, e_copied, e_info>>
device_vars == <<v_device, v_topic, v_up, v_held, v_references, v_strings,
    v_outputs, v_lists, v_singles, v_best, v_flags, v_answer>>
mesa_vars == <<m_named, m_stage, m_nameOf, m_refs, m_users, m_owner, m_listed,
    m_holders, m_devices, m_taken, m_mapLock, m_adminLock, m_pc, m_input>>
rpi_vars == <<r_named, r_used, r_running, r_refs, r_users, r_owner, r_holders,
    r_listed, r_native, r_offered, r_remote, r_queue, r_pointer, r_touch,
    r_pc>>
westeros_vars == <<w_users, w_up, w_bound, w_collect, w_made, w_count, w_held,
    w_linked, w_byWayland, w_byId, w_focus, w_keyMap, w_keyboards, w_frames,
    w_trigger, w_redraw, w_flusher, w_waiting>>
vars == <<live, openssl_vars, secapi_vars, netflix_vars, cryptography_vars,
    source_vars, sink_vars, player_vars, displayinfo_vars, edid_vars,
    device_vars, mesa_vars, rpi_vars, westeros_vars>>

Libraries == {"openssl", "secapi", "netflix", "cryptography", "source", "sink",
  "player", "displayinfo", "edid", "device", "mesa", "rpi", "westeros"}

\* One library starts in any of its initial states.  The processor the others do
\* not use is there, and the device they do not ask has one port.
Init ==
  /\ live \in Libraries
  /\ OpenSSL!Init
  /\ SecApi!Init
  /\ Netflix!Init
  /\ Crypto!Init
  /\ Source!Init
  /\ Sink!Init
  /\ Player!Init
  /\ Display!Init
  /\ Parser!Init
  /\ Device!Init
  /\ Mesa!Init
  /\ Rpi!Init
  /\ Wayland!Init
  /\ live # "secapi" => k_open
  /\ live # "netflix" => n_named["DKE"] = 0
  /\ live # "device" =>
       v_device.size = 4 /\ v_topic = {"audio"} /\ v_device.list = <<>>

\* A library moves alone.
Alone ==
  /\ UNCHANGED live
  /\ IF live = "openssl" THEN TRUE ELSE UNCHANGED openssl_vars
  /\ IF live = "secapi" THEN TRUE ELSE UNCHANGED secapi_vars
  /\ IF live = "netflix" THEN TRUE ELSE UNCHANGED netflix_vars
  /\ IF live = "cryptography" THEN TRUE ELSE UNCHANGED cryptography_vars
  /\ IF live = "source" THEN TRUE ELSE UNCHANGED source_vars
  /\ IF live = "sink" THEN TRUE ELSE UNCHANGED sink_vars
  /\ IF live = "player" THEN TRUE ELSE UNCHANGED player_vars
  /\ IF live = "displayinfo" THEN TRUE ELSE UNCHANGED displayinfo_vars
  /\ IF live = "edid" THEN TRUE ELSE UNCHANGED edid_vars
  /\ IF live = "device" THEN TRUE ELSE UNCHANGED device_vars
  /\ IF live = "mesa" THEN TRUE ELSE UNCHANGED mesa_vars
  /\ IF live = "rpi" THEN TRUE ELSE UNCHANGED rpi_vars
  /\ IF live = "westeros" THEN TRUE ELSE UNCHANGED westeros_vars

Next ==
  \/ live = "openssl" /\ OpenSSL!Next /\ Alone
  \/ live = "secapi" /\ SecApi!Next /\ Alone
  \/ live = "netflix" /\ Netflix!Next /\ Alone
  \/ live = "cryptography" /\ Crypto!Next /\ Alone
  \/ live = "source" /\ Source!Next /\ Alone
  \/ live = "sink" /\ Sink!Next /\ Alone
  \/ live = "player" /\ Player!Next /\ Alone
  \/ live = "displayinfo" /\ Display!Next /\ Alone
  \/ live = "edid" /\ Parser!Next /\ Alone
  \/ live = "device" /\ Device!Next /\ Alone
  \/ live = "mesa" /\ Mesa!Next /\ Alone
  \/ live = "rpi" /\ Rpi!Next /\ Alone
  \/ live = "westeros" /\ Wayland!Next /\ Alone

Spec == Init /\ [][Next]_vars

\* Applications' threads are alike.
Threads == Permutations(Clients)

-----------------------------------------------------------------------------
\* Every variable keeps its type.
TypeOK ==
  /\ live = "openssl" => OpenSSL!TypeOK
  /\ live = "secapi" => SecApi!TypeOK
  /\ live = "netflix" => Netflix!TypeOK
  /\ live = "cryptography" => Crypto!TypeOK
  /\ live = "source" => Source!TypeOK
  /\ live = "sink" => Sink!TypeOK
  /\ live = "player" => Player!TypeOK
  /\ live = "displayinfo" => Display!TypeOK
  /\ live = "edid" => Parser!TypeOK
  /\ live = "device" => Device!TypeOK
  /\ live = "mesa" => Mesa!TypeOK
  /\ live = "rpi" => Rpi!TypeOK
  /\ live = "westeros" => Wayland!TypeOK

\* The OpenSSL vault exports what came in clear or is public, however vault_get()
\* (of all or the start of a blob), vault_set() (of any bytes) and the
\* derivations are combined: no secret, no part of one.
SealedIsNotExported ==
  /\ live = "openssl" => OpenSSL!SealedIsNotExported

\* A handle that was given out never comes to name another key: in the OpenSSL vault
\* the one an AES cipher or an HMAC was created with, whoever deletes and stores blobs
\* in between, and the one under which the Netflix keys are given out.
ObjectsKeepTheirKey ==
  /\ live = "openssl" => OpenSSL!ObjectsKeepTheirKey
  /\ live = "netflix" => Netflix!EncryptionKeyStays

\* An object the security processor holds and no item of the vault names is one it
\* refused to delete, whichever of its calls fail.
OrphansWereRefused ==
  /\ live = "secapi" => SecApi!OrphansWereRefused

\* Every reference a library takes, of an object of its plugin or of another
\* process, is given back once and only once: through the calls that fail
\* halfway, the death of the plugin in the middle of a call, and threads that
\* let go of the last reference together.
ReferencesBalance ==
  /\ live = "cryptography" => Crypto!RemoteReferencesBalance /\ Crypto!LocalVaultOutlives
  /\ live = "source" => Source!NothingIsKept
  /\ live = "sink" => Sink!InstanceIsShared
  /\ live = "player" => Player!ReferencesBalance
  /\ live = "displayinfo" => Display!ReferencesBalance
  /\ live = "device" => Device!ReferencesBalance
  /\ live = "mesa" => Mesa!ReferencesBalance
  /\ live = "rpi" => Rpi!ReferencesBalance
  /\ live = "westeros" => Wayland!ReferencesBalance

\* A thread that reads an interface of the plugin under the lock is not left with
\* a released one when the plugin goes away meanwhile.
InterfacesAreAlive ==
  /\ live = "source" => Source!InterfacesAreAlive
  /\ live = "player" => Player!InterfacesAreAlive
  /\ live = "displayinfo" => Display!InterfacesAreAlive

\* No thread of a library's own is in a callback that is not registered: once the
\* call that removes it has returned, none of them calls it.  (A new operational
\* callback of the Bluetooth clients, and a new state callback of the source, is
\* called once by the thread that registers it, without a lock: not that call.)
CallbacksAreRegistered ==
  /\ live = "source" => Source!CallbacksAreRegistered
  /\ live = "sink" => Sink!CallbacksAreRegistered
  /\ live = "player" => Player!CallbacksAreRegistered
  /\ live = "displayinfo" => Display!CallbacksAreRegistered
  /\ live = "mesa" => Mesa!CallbacksAreRegistered

\* The audio source is given frames only between the callbacks that say it plays.
FramesOnlyWhilePlaying ==
  /\ live = "source" => Source!FramesOnlyWhilePlaying

\* The registries of displays and surfaces hold what is alive, and all of it
\* that can be found.
RegistriesAreSound ==
  /\ live = "mesa" => Mesa!RegistriesAreSound
  /\ live = "rpi" => Rpi!RegistriesAreSound
  /\ live = "westeros" => Wayland!RegistriesAreSound

\* What a library answers is what the other side said, and fits where it is written:
\* the display's EDID, the codecs of the player, the device's attributes in the
\* caller's array, the values sent to the compositor, the events of the Wayland server.
\* The device's own exceptions are those DeviceInfo states.
AnswersMatch ==
  /\ live = "edid" => /\ Parser!ParsedAsSaid /\ Parser!DepthsMatchFormats
                      /\ Parser!TimingsAreKnown /\ Parser!BaseIsDecoded
  /\ live = "player" => Player!CodecsFit
  /\ live = "device" => Device!AnswersMatch /\ Device!AnswersFit
  /\ live = "rpi" => Rpi!ValuesFit
  /\ live = "westeros" => Wayland!AnswersMatch
=============================================================================
