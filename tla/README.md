# A verification project for yi-hack-MStarX

These TLA+ modules model the core of yi-hack-MStarX: the shell scripts that own
the camera's daemons, the preloaded library and the consumer that turn camera
packets into ONVIF events, the RTSP server's sound in both directions, the
programs that copy frames and pictures out of the camera's memory, and the two
remote controls (the MQTT configuration daemon, and the scripts around `ipc_cmd`). TLC checks
the modules on small instances, TLAPS proves the theorems for every value of the
constants, and `PROJECT.json` connects each definition to the source lines it
translates.

Scripts named without a path are in `src/src/static/static/home/yi-hack/script/`.

## 1. The system

The camera runs closed programs (`rmm`: sensor, encoder, microphone, speaker;
`dispatch`: message broker; `cloud`, `mp4record`), which talk over POSIX message
queues, FIFOs and a circular buffer in shared memory. yi-hack adds daemons
beside them, libraries preloaded into two of them, and the scripts that start and
repair it all. Everything runs on one small Linux machine: the concurrency is
that of processes that share files, locks, queues and the process table, and the
failures are killed processes, power losses, and SD card and network losses.

### Components

| Component | State it keeps | Operations | Hard because | Correct when |
|---|---|---|---|---|
| Directory lock (`runtime.sh`) | a directory with a pid file, a second directory for recovery | `lock_acquire`, `lock_release` | every system call interleaves; owners are killed; a recoverer decides on a sample | two shells hold it only after a robbery, recovery is serialized, a dead owner's lock comes free |
| Service manager (`service.sh`, `privacy.sh`) | `.stopped` markers, `/tmp/privacy`, the process table | start, stop, restart, ensure, recover, all, privacy on/off | settings change without the lock and are cached before it; shells are killed between two services; `ipc2file` is shared | nothing runs twice, one RTSP server, what is stopped stays down, ONVIF keeps its consumer |
| Watchdog (`wd.sh`) | a sample of processes, sockets, settings; counters | one loop over all services | it acts on the sample while everything moves on | it only ever calls `service.sh`, breaks no stop, and in the end everything wanted runs |
| IPC multiplexer (`ipc_multiplex.c`) | nine mirror queues | the `mq_receive` of `dispatch` | the mirrors' readers are slow, dead or absent | `dispatch` notices nothing; only cloud packets are dropped |
| Event consumer (`ipc2file.c`) | pid file, `last_alarm`, alarm files, timer threads | start, receive, end | killed and relaunched at any step with the old mirror still there | one instance, no old events, files that agree with the alarms |
| RTSP backchannel (`SpeakerLock.hh`, `PCMFileSink.cpp`, `ADTS2PCMFileSink.cpp`, `OnDemandServerMediaSubsession_BC.cpp`) | a process-wide record lock, `yiSpeakerBusy`, one sink per stream | SETUP, PLAY, PAUSE, TEARDOWN, lost clients, lost FIFO reader | record locks belong to the process; failures in the middle of SETUP; a sink that reclaims itself | one voice; flag, lock and sinks agree; the speaker comes free |
| Speaker helper (`speaker.c`) | the same record lock | play, stream, stop | signals at any step, a blocked read | a stop ends the playback |
| RTSP server media (`rRTSPServer.cpp`, `WAVAudioFifoSource.cpp`, `ADTSFromWAVAudioFifoSource.cpp`, ...) | the options, the pipe of samples, the state of the one source, the encoder's left-over | choose sessions and tracks; start, read, encode, stop | the pipe fills while nobody listens; halves of samples; one source for several listeners | tracks are described as what is sent; sound is fresh, whole and in order; who waits is served |
| Frame grabber (`h264grabber2.c`, `h264grabber.c`) | a position in `rmm`'s ring, or copies of the encoder's buffer | sample the head, search headers, write frames; poll, copy twice, write | no synchronisation with the writer, wrap-around of addresses and timestamps | frames whole unless overtaken, once, in order, starting with a key frame; every loss has a reason |
| Snapshot (`imggrabber.c`, `convert2jpg.c`, `thumb.sh`) | copies of the picture buffer, a search position in a recording | copy until stable, rearrange, find the last key picture, decode | the buffer changes during the copy; two requests together; a thumbnail that another run prevented | one capture at a time, no picture mixed where it is sampled, every pixel in its place, every recording gets its thumbnail |
| Configuration store (`config.c`, `set_configs.sh`) | the `.conf` file, two staging files, a lock directory | rewrite some keys of the file | several writers replace whole files; kills, power loss, a pulled card between any two steps; the lock itself can be lost to a stale sample | whole requests only, none undone by another writer that has not lost its lock, no debris that blocks the next |
| MQTT configuration daemon (`mqtt-config.c`, `mqtt_mosquitto.c`, `mqtt_wolf.c`, `validate.c`) | connection state, run flag | connect, subscribe, loop, store or carry out a message | the link or the broker is lost at any step of the handshake; two libraries with different handshakes | never connected without a subscription; listens again after every loss |
| PTZ and command tools (`ipc_cmd.c`, `ptz.c`, `ptz_presets.sh`, `ptz.sh`) | the script's table of presets, the camera's own, a forked timer | add, set, delete presets; move, jump; every setting; timed recording | two tables of two programs; turned axes; a START whose STOP is another process's | tables agree, jumps land, recordings end |
| Wi-Fi recovery (`wd.sh` 315-343, `wifi_failover.sh`, `bounded_log.sh`) | failure counter, maintenance marker, log lock | reassociate, switch profile | crash between two steps, a counter that wraps | the primary profile returns |
| Upgrade and restore (`restore_upgrade.sh`, `config_work.sh`, ...) | marker, backup on flash and on the SD card | restore at boot | power loss between two renames | no half restore, no lost configuration |
| The rest | see `components` in `PROJECT.json` | one-shot tools, web pages, batch jobs, vendored programs, build | no state of their own or a single straight line | |

### How they interact

```
 web pages, MQTT, cron, boot ---calls---> service.sh <---calls--- wd.sh (every 10 s)
                                            |  runtime.sh lock
          starts, stops, counts             v
   rRTSPServer | go2rtc   onvif_notify_server   wsd_simple_server   mqttv4   mp4record
        |          |              ^                                   ^
        |  speaker |              | files of /tmp/onvif_notify_server  | mirror 1
        v  lock    v              |                                   |
      FIFO <--- speaker       ipc2file <--- mirror 2 --- ipc_multiplex.so in dispatch <--- rmm
        |
       rmm
```

* Calls: everything that starts or stops a daemon goes through `service.sh`,
  which serializes its callers with the directory lock.
* Shared state without a lock: the readers of the settings files, the process table, the
  marker files, the pid file of `ipc2file`, `ptz_presets.conf`, and what `rmm` keeps in shared
  memory: the ring, the encoder's buffer, the picture buffer. The writers of the settings
  exclude each other with a second directory lock.
* Messages: `rmm` to `dispatch`, mirrored to the consumers, lost when a mirror is full.
* Signals: SIGTERM and SIGKILL by `stop_process`, SIGTERM by `speaker stop` and go2rtc.

The places where this is hard to test are the `hazards` of `PROJECT.json`, each at
its line with the properties that cover it.

## 2. Modules

| Module | What it is | Models |
|---|---|---|
| `RuntimeLock` | the lock, one system call per step | `runtime.sh` 34-64 |
| `ServicePolicy` | abstract: what `service.sh` promises about stopping | - |
| `ServiceManager` | the commands under the lock | `service.sh`, `privacy.sh` |
| `Watchdog` | EXTENDS `ServiceManager` with the loop of `wd.sh` and its environment | `wd.sh` |
| `FilteredReceive` | abstract: what the preloaded `mq_receive` promises | - |
| `EventPipeline` | `mq_receive`, `ipc2file`, the consumer part of `service.sh` | `ipc_multiplex.c`, `ipc2file.c`, `service.sh`, `system.sh` |
| `Backchannel` | `rRTSPServer`'s sinks and the helper on one lock and FIFO | the speaker sources above |
| `MediaSessions` | operators: from options to sessions, tracks and formats | `rRTSPServer.cpp`, `WAVAudioFifoServerMediaSubsession.cpp` |
| `Audio` | EXTENDS `MediaSessions` with the camera's audio pipe, the two sources, the A-law functions | `WAVAudioFifoSource.cpp`, `ADTSFromWAVAudioFifoSource.cpp`, `aLawAudioFilter.cpp` |
| `GrabberRing` | the ring, its writer, the reader's loop | `h264grabber2.c` |
| `EncoderTap` | the encoder's one buffer and the reader that polls it | `h264grabber.c` |
| `PictureLayout` | operators: three layouts of the picture buffer and what the JPEG encoder reads | `imggrabber.c`, `convert2jpg.c` |
| `Snapshot` | EXTENDS `PictureLayout` with the runs of imggrabber, the camera, `thumb.sh` | `imggrabber.c`, `thumb.sh`, `snapshot.sh` |
| `IpcCommand` | operators: one run of `ipc_cmd` as the steps it takes for its options | `ipc_cmd.c` |
| `PtzScripts` | operators: the jobs of the scripts around it | `ptz_presets.sh`, `ptz.sh` |
| `PtzPresets` | the processes that carry the steps out, the queue, the camera | the same and `ptz.c` |
| `ConfigFile` | abstract: what the writers of the configuration promise together | - |
| `ConfigStore` | the daemon and the processes of the page as writers, with every call on their lock, and faults | `config.c`, `set_configs.sh`, `config_work.sh`, `runtime.sh` 34-63 |
| `MqttConfig` | EXTENDS `ConfigStore` with the daemon, the broker and the link | `mqtt-config.c`, `mqtt_mosquitto.c`, `mqtt_wolf.c`, `validate.c` |
| `RuntimeLockProofs`, `ServiceProofs`, `EventPipelineProofs`, `RtspServerProofs`, `SnapshotProofs`, `EncoderTapProofs`, `GrabberRingProofs`, `RemoteControlProofs` | theorems | |
| `MC*` | instances for TLC; `MCRtspServer`, `MCFrameReaders` and `MCRemoteControl` put components that share no state into one run | |

A shallower model of a part stands in for a detailed one where the parts meet:
`ServiceManager` takes the directory lock for mutual exclusion (`job` has one
holder) and `ipc2file` for a daemon that gives up when another one runs, and
`EventPipeline` takes `service.sh` for a sequence of SIGTERM, wait, SIGKILL and
launch with one caller at a time. `RuntimeLock_race` shows that the first of these
is not quite true of the code (see section 6): the results on `ServiceManager`,
`Watchdog` and `EventPipeline` hold as long as no shell is robbed of the lock. `ConfigStore`
takes no such shortcut: its lock is modelled call by call.

### RuntimeLock

`pc[p]` is the next system call of shell `p`; `dirs` and `pidfile` are the file
system; `attempts` and `owner` are the locals of `lock_acquire`. `AcquireMkdir`,
`RecoverMkdir`, `RecoverCat`, `RecoverProbe`, `RecoverRmPid`, `RecoverRmdir`,
`RecoverDone`, `Retry`, `Publish`, `PublishUndo` are its lines in order,
`ReleaseCat`, `ReleaseRmPid`, `ReleaseRmdir` those of `lock_release`, which the
callers run from their EXIT traps. `Crash` is SIGKILL. The history variables
`maker` (who made the present directory) and `robbed` (who lost a pid file or a
directory to somebody else) are read by no guard. A process number is not reused
while a pid file or a variable still holds it.

### ServiceManager

`call[c]` is a shell that waits with its command line and the `RTSP_DAEMON` it
cached before the lock; `job` is the holder's progress: the services still to do,
the current one, the point in `service_start`/`service_stop`, the daemons still to
kill and where to go on afterwards. `files` are the markers, `yes` and `rtspd` the
settings, `proc` what the process table shows of each daemon, including one that
has been sent SIGKILL and is still listed, an instance beside it, a spawned server
that does not listen yet, and a standard RTSP server without its grabbers.
`torn` is a history variable for services whose stop was cut short by a killed
shell. Shells can be killed, settings rewritten and daemons die at any step.
`ftpd`, `mqtt-config`, `httpd`, `sshd`, `telnetd`, `ntpd` and `mdnsd` take the path
of `wsdd` through the script and are not listed again; `rtsp_server_yi` takes that
of `rRTSPServer`.

### Watchdog

The loop: `refresh_process_state` and `refresh_config` take the sample,
`check_rtsp` or `check_standard_rtsp_stall`, `check_mqtt`, and every third time
`check_local_services`, `check_record` and `check_consumer` act on it through
`Run`, a synchronous call of `service.sh`. `events` bounds what the environment
may still do. Left out are Wi-Fi recovery, `check_rmm` (it reboots the camera) and
the tick counters of the stall check: a stall verdict may fall on any healthy
standard server.

### EventPipeline

`inbox` is `dispatch`'s queue, `hand` and `next` the packet that `mq_receive` is
mirroring and the mirrors still to come, `mirror` their contents. Each `ipc2file`
has a `pc` over pid check, pid write, queue open, draining and the loop, a
`last_alarm`, its timer threads and `exit_main`; its daemonizing is one step.
`service` is the caller of `ensure_ipc` or `release_ipc` between its steps. The two
initial values of `env` are the two ways `system.sh` starts `dispatch`: with and
without the cloud. History: `orphan` (files whose alarm nobody is going to end),
`latest` (last alarm or stop mirrored to the running consumer) and `complete`
(nothing lost since it began).

### Backchannel

`owner` is the kernel's record lock, which belongs to a process and goes with any
descriptor that process closes; `busy` is `yiSpeakerBusy`; `token[c]` is the stream
of a session: none, a sink that is idle or plays, or spent. rRTSPServer is one
event loop, so a handler is not interrupted by another one, but its system calls
interleave with the helpers': SETUP takes the steps `SETUP`, `acquireSpeakerLock`,
`createNew`. A helper goes through `lock_speaker`, the FIFO, the loop of `main` with
`fread` and `write_pcm`, and the two closes; signals hit it anywhere. `missed` is a
history variable. Left out: ports and RTCP, the conversion of samples, the DESCRIBE
sink (it opens `/dev/null` without the lock and changes no state here). That a write
without a reader does not end the process rests on live555 ignoring SIGPIPE.

### MediaSessions and Audio

`Settings` reads the command line and then the environment (which wins, and in which an
unknown word switches the back channel off); `Replicator` is what `startReplicatorStream`
sends, `Sink` what `createNewRTPSink` describes, `Sessions` the three sessions with their
tracks. `Audio`'s `pipe` holds bytes marked with the half of a sample they are and with
whether they are older than the start of the reading: `doGetNextFrame`
(`GetNextFrame`), `doStopGettingFrames`, the handler that finds nobody waiting
(`NotReady`), a presentation time too old (`TooLate`), `ReadWav`, `ReadAdts`. The encoder is a
choice of sizes; what it made waits in `held`. `ALaw` and `Linear` are the two functions of
the code on all 65,536 samples.

### GrabberRing and EncoderTap

In `GrabberRing` a cell stands for a run of bytes; a frame is a header cell and payload
cells that may pass the end of the ring. The writer stores the cells and the three words
of the head one at a time and in no given order; the reader's steps `ReadIdx`, `ReadLen`,
`CheckHead`, `Parse`, `WriteFrame` each are one sample, so the writer comes in between any
two, laps included. `Start`, `MakeFifo` and `OpenFifo` are the start with its unlocking
threads. `EncoderTap` numbers frames modulo `Cycle`, as the timestamps wrap, and frame k fills
the first `Span[k]` pieces of the buffer, behind which an older one's tail is left. `ReadLen` reads
the length once (507) as `got`; `CopyPiece` copies that many pieces, whatever is in the buffer by
then, and the write uses the same length. What is compared of two copies (`fillCheck`, 515-523) is
64 bytes spread over the length read: `Compared[n]` are the pieces of a frame of n in which such a
byte tells frames apart, the others look alike. A frame that came up during the copies (`late` in
`out`) can so go out cut to the length of the one before, or followed by its tail, and the code never
notices: `WholeFrames` says exactly that, and that nothing worse happens. What starts with
which NAL unit decides the parts `WriteFrame` emits.

### PictureLayout and Snapshot

The three in-place conversions are written as the code's loops over strips, with the index
functions `LumaTile` to `ChromaBlock`, on a memory whose bytes are their own addresses; a
second definition reads each layout from the pixel's side, and `RightPixels` compares them.
In `Snapshot` the camera overwrites the points of its buffer, one after the other, while each process
copies all of them (`CopyPoint`); `Compare` looks only at those in `Sampled`, and of these only the ones
in `Telling` differ from picture to picture. The points between them and behind the last one stand
for the bytes that are copied and never compared: `SnapshotCoherent` promises one picture at the telling
points, and of the others no more than that those in front of a telling point are not older. `Look` and `Begin` are the search of `/proc`; `Scan` is the
search of a recording backwards and forwards; `List` to `Wait` are one file of `thumb.sh`.

### IpcCommand, PtzScripts, PtzPresets

`Parse` turns options into values, `Plan` these into steps in the order of the program's
text: send, read the position, sleep, fork. `PtzPresets` runs plans for several shells,
with `script[u]` the jobs a script still has to do (an edit of the file is a job that
writes one line per step), `run[p]` the options and steps left of a process, `queue` the
bounded queue, and the camera's presets, position and recording behind it. History:
`apart` (a table may rightly differ: two scripts overlapped, the caller chose the
number or called a preset Home, or gave no name, which puts the position in the name's place of the
file and sends the camera nothing), `failed` (the fork of a `-S` failed) and `target` (the angles of the last jump that was accepted and
begun while all was still). `PresetScript` says which scripts there are: those of `ptz_presets.sh`,
and others that send no `-P`, `-H` or `-R` which `ipc_cmd` accepts. The constants of `PtzPresets`
are constants of `MCRemoteControl`, so the theorems hold for all of their values.

### ConfigFile, ConfigStore, MqttConfig

`ConfigStore` has the daemon and any number of processes of the settings page as writers, each with
a `pc`. `lock_acquire` goes through the calls of `take_config_lock` and of the shell function of that name:
`Mkdir`, `Recover` (the second directory, at which everybody else refuses), `Cat` (the pid is sampled into
`owner`), `Probe`, `RmPid`, `RmDir` (whatever directory is there by then), `Unrecover`, `Again` (the daemon's
second mkdir; the page refuses) and `Publish`. Staging follows, from `Clear` to `Rename`, and
`Cleanup` and `lock_release`, which looks at the pid in the shell and does not in the daemon. The
daemon has its own staged file on the card and its own second file next to the configuration; the pages
share theirs (`Side`), so two of them that both believe to have the lock disturb each other there as well.
`Over` is what a writer makes of the file: the daemon changes lines that are there, the page also
appends certain keys (`Appends`), sets the two of the back channel together (`Mirrored`), and refuses any other
key it does not find (`Knows`). Kills, power loss (which empties `/tmp` and with it the lock), failed writes and
a pulled card happen between any two steps, `MaxFaults` times. History: `dir` says who made the
lock directory (the guards only ask whether there is one), and `robbed` whose was removed by a writer that
had sampled the pid of an earlier owner, gone since, or that had been robbed itself.

`ConfigFile` is the promise: `Commit` applies one request to the file as it is then. `AtomicUpdates` says that
every step keeps it while nobody is `robbed`. Without this exception it is violated, by the race of finding 1:
`config.c` 60-68 has the same three steps as `lock_acquire`. `MqttConfig` adds the connection: `conn` is the code's
`conn_state`, `link` and `subscribed` the truth on the other side; `Built` chooses between
the handshakes of the two libraries. `validate_param` is there with its whole table, and
compares only nine letters of a key, as the code does (`Row`): `RTSP_AUDIO_NR_LEVEL` and
`TIMELAPSE_DT`, for instance, are checked against another key's row. Nothing in the
repository says otherwise, so it is neither a property nor a finding.

## 3. What TLC checks

| Run | Instance | Shows |
|---|---|---|
| `RuntimeLock` | 3 shells, 1 retry, SIGKILL at any point | `MutexUnlessRobbed`, `OnlyStaleSampleRobs`: two holders only after one was robbed, and only a recoverer with a stale sample (or a robbed shell) robs; `LockFreedAgain`: free again and again unless a shell died inside the lock's code (`Wedged`) |
| `RuntimeLock_race` | 3 shells, no crash | *violation* of `MutualExclusion` |
| `ServiceManager` | 2 shells; rtsp (both servers) and mp4record with stop, start and privacy, or all services with restart and recover while only onvif is enabled | `SingleInstance`, `OneStreamer`, `PolicyKept` (implements `ServicePolicy`) |
| `Watchdog_streaming` | watchdog and a user shell, 2 events | `Converges` |
| `Watchdog_events` | the same for onvif, mqtt, ipc2file | `OnvifKeepsConsumer`, `Converges` |
| `Watchdog_discovery` | onvif and wsdd, 1 event | *violation* of `DiscoveryFollowsOnvif` |
| `EventPipeline_flow` | packets motion, stop, vehicle, sound; one mirror of 2 | `OneConsumer`, `NoStaleEvent`, `FilesFollowDispatch` |
| `EventPipeline_live` | mirrors 1 (never read) and 2, capacity 1, 2 packets | `TransparentToDispatch` (implements `FilteredReceive`), `ConsumerReturns` |
| `EventPipeline_cloudless` | the same | *violation* of `OnlyCloudPacketsDropped` |
| `RtspServer` | speaking: 2 sessions, a helper with a file, one with a stream, 1 block; listening: 6 option sets on the command line times 6 in the environment, a pipe of 3 samples | `OneVoice`, `BusyIsLock`, `StopEndsPlayback`, `FreedWhenUnused`; `SoundIntact`, `ALawInverted`, `StreamsMatch`, `Served` |
| `FrameReaders` | a ring of 5 cells and 5 frames; an encoder with 5 timestamps and frames of 1 to 3 pieces; 2 imggrabbers, 4 points of which 3 are compared and 2 tell, 2 pictures, 5 recordings | `IntactUnlessLapped`, `OrderedOutput`, `LossExplained`, `CaptureStarts`; `WholeFrames`, `KeyAfterGap`; `OneCapture`, `SnapshotCoherent`, `RightPixels`, `KeyPicture`, `ThumbnailMade` |
| `RemoteControl` | the daemon with both libraries, 4 messages and 2 faults; the daemon and 2 pages on one file, 3 requests, 2 changes and 1 fault; 2 shells, 9 operations, presets 0 and 1, 2 models | `NeverDeaf`, `ListensAgain`, `AtomicUpdates` (implements `ConfigFile` while nobody is robbed of the lock), `AfterCrash`; `TablesAgree`, `JumpLands`, `MotionEnds` |

The last three runs hold several components that share no state. A variable
(`direction`, `reader`, `part`) chosen in the initial state says which one runs, so that the
state spaces add up instead of multiplying; the fairness of each is assumed of the one
that runs.

### The bounds and why they are enough

* Shells: a robbery needs a dead or released owner, a recoverer with its sample
  and a new owner, and the broken exclusion a third shell. `MaxAttempts` replaces 20: one
  retry is enough to return to `mkdir` with everything changed; a longer loop only
  repeats that. The theorems hold for any number of shells and retries.
* `service.sh`: two shells are one holder and one waiting with a stale cache or
  taking over after a kill; the waiting state of a third would be that of the second.
  The services are split by what they share: the two RTSP servers with the recorder
  (privacy, camera switch), onvif with mqtt (`ipc2file`, in `Watchdog_events`). In the
  run `ServiceManager` the constraint `OneSide` follows a behaviour only while it works
  on one side: on the first RTSP stays enabled (the camera switch turns it off), on the
  other the streaming services are disabled and down. `all` is asked for there only.
  `Mortal` and `Stubborn` name the daemons that may die or outlast SIGKILL in a run,
  one for each role.
* Watchdog: two events are enough to have a sample invalidated and the repair of it
  disturbed again; `Period` is the code's 3. The bound on events is what "after
  the last event" means in `Converges`, not a restriction of the loop, which runs forever.
* Pipeline: capacity 2 (1 for liveness) for the code's 64 lets mirrors fill and drain;
  `InboxMax` and `TimerMax` bound packets on their way and sound timers. Two process
  numbers give a consumer and its predecessor or rival. The four packets of `_flow`
  cover each case of `process_event`: an alarm dispatch is also told of, one addressed
  to the cloud only, a stop, and a sound.
* Sound: `Room` of 5 bytes leaves an odd remainder, a pipe of 3 samples is read in pieces;
  an encoded frame may be empty, fit, or be larger than the reader's 2 bytes, so that it is
  carried over. The options take every audio format, every resolution and an unknown word.
* Ring: frames of 1 to 3 cells in 5 pass and end exactly at the end of the ring; 5 frames are more than
  the `FhsSize` of 3 (10 in the code) and lap the reader. Low-resolution frames with and without SPS and audio
  interleave.
* Encoder: `Cycle` 5 makes the timestamps wrap, `LagMax` 3 lets the encoder get beyond the 125 ms of
  `LostGap`; each kind of start decides differently about the switches. Frames of 1, 2 and 3 pieces are followed by longer
  and by shorter ones, and the first piece is never among the compared ones, so a mixed copy can pass the comparison.
* Pictures: macro blocks of 4 and blocks of 2 on a 16 by 8 picture have several strips and a gap before the
  chroma, as the camera's 16 and 4 on 1920 by 1088. Two pictures are what one copy can mix; of the points the third
  is compared and tells nothing, the fourth is not compared. The recordings are one
  and two groups, H.264 and H.265, one cut after its parameters and one that begins in the middle.
* Configuration: the race for the lock needs three writers, the owner that is sampled, the one that sampled it,
  and the one whose directory that removes, and the three requests of `MaxAsks`. Two faults let the daemon crash and
  crash again while it recovers, then its next setting is to come through; among the pages one fault makes a lock stale
  at any point. The daemon with its broker and the store with its pages run separately (`part`), since the daemon meets the
  pages in the store alone. The changes are one that every writer can make and one of a mirrored key that the file
  does not have, which the page appends and the daemon leaves out; the file they leave is the one the next request finds.
* Presets: two operations that overlap or follow each other; slots 0 (home) and 1; a queue of one message, which blocks.
* Speaker: two sessions compete inside the process, two helpers outside; one block
  per file makes a file empty, about to end and ended.

### Fairness

Safety runs need none. Liveness assumes what the scheduling gives:

* every running shell, helper and daemon goes on (weak fairness of its own steps), the
  protected jobs end (every wait in them has a limit), and the watchdog's calls keep
  coming, since `wd.sh` loops forever with a sleep of 10 seconds;
* the lock is polled, so a waiting shell that can take a free lock does (weak fairness of
  `Acquire(c)`), a spawned daemon comes up or is dead, a killed one leaves the process table;
* in the pipeline: `dispatch` and `ipc2file` run, timers fire, and `ensure_ipc` is called
  again and again as long as ONVIF wants it; `ConsumerReturns` assumes that kills end;
* in rRTSPServer: the event loop's `select` comes to every socket and timer between
  whatever requests there are, so a lost client is noticed even among
  endless other requests: strong fairness of `Notice(c)`.

* in `Audio`: an open writer goes on writing, the event loop serves a readable pipe, and
  while somebody waits an open writer is not silent for five seconds (`FiveSeconds`);
* imggrabber and `thumb.sh` are scheduled; h264grabber2's start is;
* mqtt-config's single thread and the library's loop go on, the camera empties its queue, a
  command that was begun runs.

Nothing is assumed of users, clients, go2rtc, the input of a stream, `rmm`, or
`service.sh`'s killers. What the code has no answer for limits the liveness results and is in the
properties themselves: a shell killed inside the lock's own code can leave the lock
taken for ever (`Wedged` in `LockFreedAgain`), and so can a writer of the configuration: one killed while
the directory is there without its pid leaves a lock nobody may take for dead, and one killed while it recovers a lock leaves
`lock.d.recover`, at which line 61 of `config.c` refuses (`Recoverable` in `AfterCrash`; both last until the next
boot); a fork that fails after START leaves a recording on (`failed` in `MotionEnds`, and nothing else is excepted there);
thumbnails need other snapshots to stop coming in
between (`Quiet` in `ThumbnailMade`); and a SIGTERM that hits a stream between the test of `stopped` and the read is lost until the next
input (`StopEndsPlayback` excepts exactly that one).

## 4. What is proved

For every value of the constants, from the named assumptions of each module
(`LockConstants`, `ServiceConstants`, `WatchdogConstants`, `PipelineConstants`,
`SpeakerConstants`, `SnapshotAssumption`, `StoreAssumption`, `MqttAssumption`: typing of the
constants and distinctness of `None` and `Server`; `StoredAssumption`: `Change` has what a
message may ask for; `ReaderAssumption`, `SoundAssumption`: the sizes of the ring, the tap and the
audio pipe, which are parameters of `MCFrameReaders` and `MCRtspServer`; `SnapshotAssumption` also says
that the telling points are among the sampled ones, `ReaderAssumption` that the compared pieces of a frame lie in it,
and `StoreAssumption` that the daemon, the pages and the dead are different; `LayoutAssumption`: a high picture is a whole number of macro blocks each way, a
macro block of pairs of small blocks, low pictures have even sides and the chroma lies behind the luma, as
in `imggrabber.c` 53-64; `ScriptsAssumption`: scripts are sequences of jobs, there is room in the queue, the
camera stands within its range, `None` is no position; `PresetsAssumption`: every script satisfies
`PresetScript`, the one thing that is said of what the shells do).

| Theorem | Statement | Argument |
|---|---|---|
| `RuntimeLockProofs!Typing` | `[]TypeOK` | inductive alone |
| `RecoveryIsSerialized`, `MutexUntilRobbed`, `RobbedByStaleSample` | `[]RecoverySerialized`, `[]MutexUnlessRobbed`, `OnlyStaleSampleRobs` | `IInv` adds: the recovery directory exists while a shell is inside (`RecoverInv`); what a recoverer is about to evict was found dead, and a dead shell does not come back while a variable names it (`SampleInv`); an unrobbed holder made the directory that is there (`HoldInv`); a pid file naming a live shell comes from a shell at the right point (`PidInv`) |
| `ServiceProofs!Typing` | `[]TypeOK` | inductive alone |
| `NothingRunsTwice`, `OneStreamerRuns` | `[]SingleInstance`, `[]OneStreamer` | `Shape`: what the holder has already killed in the current stop is down or dying and stays so until the spawn, since nobody else launches (`StopProgress`); which points a stop (`StopOnly`) and a start (`Permitted`) can be at |
| `ConsumerKept`, `WatchdogKeepsConsumer` | `OnvifKeepsConsumer`, by `service.sh` alone and with the watchdog on stale samples | `KillFollowsCheck`: between the look for a notification daemon and the killall of `ipc2file` none appears, since only the holder launches; what else ends daemons never hits `ipc2file` (`OwnDaemons`). With the watchdog it follows by `WatchdogOnlyCalls` |
| `ImplementsPolicy` | `Spec => PolicyKept` | one lemma per kind of step: which abstract step it is under the mapping `up <- running`, `held <- forbidden`, `settling <- unsettled` |
| `ForbiddenAreDown` | `[]StoppedAreDown` | the abstract invariant carried down the refinement |
| `WatchdogTyping`, `WatchdogOnlyCalls`, `WatchdogKeepsPolicy` | `[]WdTypeOK`, every step of loop and environment is a step of `ServiceManager` or a stutter, hence `PolicyKept` | the samples cannot be used but as arguments of a call |
| `SingleConsumer`, `NoReplay` | `[]OneConsumer`, `[]NoStaleEvent` | with `LaunchOnlyWhenDown`: at "launch" no consumer runs, though it may still be listed; a running one was launched by a caller that had killed all others; and whatever is marked old is gone by the end of `clear_queue`, as every launch happens before it |
| `FilesFollow` | `[]FilesFollowDispatch` | `FInv`: what is still in the mirror leads from the alarm the consumer knows to the last one dispatched (`LatestIs`, over any mirror, by what one message at either end does); of the files there is one for the alarm known (`AlarmHasFile`), and any other one is left over by a predecessor (`FilesAccounted`) |
| `MirroringIsInvisible` | `Kept!Init /\ [][Kept!Next]_StillToReceive`, the safety of `TransparentToDispatch` | every step of the pipeline is a step or a stutter of `FilteredReceive` under the mapping of `TransparentToDispatch`. `SelectSeq` is replaced by the recursive function it stands for (`Passing`); what filtering does to an append and to a tail is proved by induction over the length, as the least length at which it fails (`LeastNumber`, `PassingAppend`, `PassingTail`) |
| `RtspServerProofs!Typing`, `NoTwoVoices`, `FlagAgrees` | `[]TypeOK`, `[]OneVoice`, `[]BusyIsLock` | `PlayerOwns` (a helper past its lock is the owner), `OneSink` (one session at most, and none while SETUP is at "open"), `BlocksRemain` (a file is read only with blocks left) |
| `SoundStaysIntact` | `[]SoundIntact` | `AudioInv`: for PCM, the pipe always holds whole samples, none of them from before the reading began, and the source takes whole ones; for AAC, what was sent last and what is held back are what was due, in order |
| `StreamsAlwaysMatch` | `[]StreamsMatch` | `OptionsInv` (what every order of arguments and environment leaves the options at), then one lemma per kind of session about its tracks and one about the format each is described with |
| `ALawAlwaysInverted` | `[]ALawInverted` | a magnitude is in the segment `Exponent` names (`SegmentOf`), the table that is written by hand has the middle of each step of each segment at the place where the flipped bits put it (`TableExpands`, `FlippedCode`), and no step is wider than it may be (`LevelNear`) |
| `SnapshotProofs!OneCaptureAlways` | `[]OneCapture`, for any number of callers | of two live processes one was not alive when the other looked for it (`NotBothMissed`), and who works has looked at everybody (`Looked`): whoever looked last saw the other |
| `CoherentPictures` | `[]SnapshotCoherent`, for any number of points, compared or not, telling or not | `PInv`: the camera writes the points in order (`CameraOrder`), so no point in front of another is older (`Newer`); at the telling points, the first of two copies is of one picture, or its sample already differs from what the second will find, or the camera has been idle since it stored a telling point which that copy has (`CopyBefore`, with `FreshCopy` for a copy in progress), and it is never idle for so long. Of the points between nothing is assumed, and what is promised of them follows from `Newer` |
| `LastKeyPictureFound` | `[]KeyPicture`, for recordings of any length and groups of any number | `KInv`, with `Progress264`/`Progress265`: in which group of pictures the search is, and that the buffer holds the parameter sets of the last complete one (of H.265 also in the reverse order in which they are sought); the recording stays while its imggrabber lives |
| `EveryPixelIsRight` | `[]RightPixels`, for pictures and blocks of any size | `StripsArrive`: whatever strips are spread one to one over as many bytes, and moved down or not at all, each byte of the last buffer is the one the first buffer had, because what a strip reads no earlier one has written and what it writes no later one overwrites. Each index function is one to one (`LumaTileOneToOne`, `ChromaTileSpreads`, `LumaBlockSpreads`, `ChromaBlockSpreads`): its value names the row and column of the byte, from which its place follows by division with remainder (`Parts`, `TileParts`). With a pixel written as block, row and column both sides name the same byte (`TiledPixels`, `BlockedPixels`, `LowPixels`, `DecodedPixels`). `RInv` says which layouts an imggrabber writes |
| `EncoderTapProofs!FramesAreWhole`, `GapsEndInKeys` | `[]WholeFrames`, `KeyAfterGap`, for any cycle of timestamps, lengths of frames and compared pieces | `TapInv`: while the program waits and copies, at most one frame comes up (`OneBehind`), and the buffer, as far as the length read reaches, shows the frame of that length but for what the next has stored over it (`TapBuffer`), so each piece copied is of one of the two (`TapCopy`); the samples of the copy before are the zeros of the beginning, or of the first frame alone, or this copy is the next frame followed by the tail of the first (`TapBefore`); in a stream the last frame written is the one polled last or the next, and the numeric differences of timestamps are those of the frames but for one turn of the cycle (`InStream`, `NextFrame`) |
| `GrabberRingProofs!WholeUnlessLapped`, `FramesInOrder`, `LossesExplained` | `[]IntactUnlessLapped`, `[]OrderedOutput`, `LossExplained`, for a ring and frames of any length | `RingInv`: there is an unbounded line of cells of which the ring is the last turn. `WriterInv` says which frame each cell is of (`CellsHold`, `CellsFrom`) and where the head is (`HeadPos`); `ReaderInv` which frame the reader's pointer stands at (`Tracking`), that headers found follow each other (`Followed`), never a frame twice (`Behind`) nor past the head (`EndAhead`). `LossExplained` follows from what one walk over the headers finds (`WalkFollows`) |
| `RemoteControlProofs!StoreImplementsFile`, `DaemonImplementsFile` | `StoreSpec => AtomicUpdates`, and with the whole daemon `Spec => AtomicUpdates`, for any number of pages, any changes and faults | `IInv`: a writer between its mkdir and its release has made the directory that is there, or is robbed (`Owned`), hence two of them mean that one is robbed (`HeldAlone`); one about to remove a lock has sampled a pid whose process is gone and stays gone (`Sampled`, `StaysGone`); and as long as nobody is robbed, what a writer has staged is its request made to the file as it still is (`Staged`). So the rename is `Commit`, and kills, refusals and failures are `Drop` (`NextFile`, a case for each step); every step of `MqttConfig` is one of the store or leaves it alone (`NextStores`) |
| `NeverDeafAlways` | `[]NeverDeaf`, for both libraries | `Subscribed`: a link in the main loop, and with libmosquitto one that awaits its acknowledgement, has been subscribed on |
| `JumpLandsAlways` | `ControlSpec => []JumpLands`, for any callers, scripts, models and length of the queue | `JumpInv`: `Shape` (timers outlive their script and are never a jump's) and `Aim`: while there is a target the camera stands still, and the one jump there is waits in its script, is about to read, to be sent, is in the queue, or has landed; every other step, job and message left is one that moves nothing (`Still`, shown of each option's part of `Plan`). The three roundings together, of the angle, of the request and of the camera, are off by no more than five ticks (`Round` lies within half a unit), and a degree is more |
| `TablesAgreeAlways` | `ControlSpec => []TablesAgree`, for any callers, scripts and numbers of presets | `Agreeing`: what the camera has stored, after every message in the queue, is a set G (`Leads`); the steps left to the run lead from G to F (`Steps`); and what is left of the script, after the lines it is still writing (`Pending`), is a script that is to begin with F in the file, or awaits just the message for what it wrote (`Awaits`). When all is quiet nothing is left and F is both. Only a command without `-P`, `-H` and `-R` can leave a daemon behind for `-S` (`MildTimers`), so that a daemon's late messages do not touch the presets |

None of the safety invariants is inductive alone: `OneVoice` for instance says
nothing of a helper that has the lock and not yet the FIFO, or of a SETUP between
lock and open, from where the next step would break it.

### Only model-checked

Each safety invariant and each action property that a passing run checks has its theorem. What is left to TLC:

* Liveness and whatever needs fairness or ENABLED: `LockFreedAgain`, `Converges`,
  `TransparentToDispatch` (its fairness part), `ConsumerReturns`, `StopEndsPlayback`,
  `FreedWhenUnused`, `Served`, `CaptureStarts`, `ThumbnailMade`, `ListensAgain`, `AfterCrash`,
  `MotionEnds`. They are outside the prover's reach.
* The induction schemes of the library take an operator as a parameter and cannot be used here. Where a proof
  needs induction over a number it takes the least counterexample (`LeastNumber`). No module declares a
  RECURSIVE operator.

## 5. What is not modelled, and why

* Closed programs: what `rmm`, `dispatch`, `cloud` and `mp4record` do inside, and the
  libraries (live555, mosquitto, FDK-AAC) beyond how this code uses them.
* Process number reuse, disk-full errors of single writes, and the robbed lock inside
  `ServiceManager` and `EventPipeline`.
* Conversion of samples other than A-law (gain, mu-law, resampling, the noise filter), the bits of parameter
  sets, the drawing of the water mark, decoders and encoders: they change no state that two actors share.
* Wi-Fi recovery drives external programs whose effect on the link is not in the repository. Upgrade and
  restore are not modelled yet (section 7), nor are `clean_records.sh`, `ftppush.sh` and `time_lapse.sh`.
* `mosquitto.h` is a vendored header; `ipc_notify.c` and `ipc_read.c` send or print single packets by hand.
* Kills of imggrabber: the partly written picture of a killed run counts as present to `thumb.sh`.
* One-shot tools, MQTT text, web pages, patches, vendored programs and build scripts: no state
  that several actors share; the notes in `PROJECT.json` say why, one by one.

## 6. Findings

1. **`runtime.sh:41` (code bug, `RuntimeLock_race`).** `lock_acquire` reads the owner's pid,
   probes it, and then removes whatever pid file and directory are there. Between the two the
   owner can release the lock and end and another shell can acquire: the recoverer removes the
   live shell's lock, and a third shell enters beside it. No crash is needed. (`config.c` 60-68 does the
   same with the lock of the configuration; there `AtomicUpdates` excepts the robbed writers.) Line 34 says
   "One lock owner per operation". The proved theorems say how far the damage goes: every robbery
   is by such a recoverer, or by a shell that was robbed before.
2. **`wd.sh:355` (divergence, `Watchdog_discovery`).** The watchdog looks at `ONVIF_WSDD` alone,
   `service_enabled` (`service.sh:305`) asks for `ONVIF=yes` too. When ONVIF is switched off by its
   toggle only, nothing ever asks `service.sh` about `wsd_simple_server`, which stays. "toggles,
   explicit-stop markers, camera switch and privacy state govern recovery" (`src/docs/OPTIMIZATIONS.md:28`).
3. **`ipc_multiplex.c:178` (divergence, `EventPipeline_cloudless`).** With the cloud disabled,
   packets in `is_cloud_event` are dropped before they are mirrored. Line 171 calls them
   "cloud-only", but vehicle, animal, baby and sound reach `ipc2file` (188-206) by these
   packets alone, so ONVIF never hears of them.

## 7. Plan

Done, in this order, the most consequential first: the lock every script rests on
(`RuntimeLock`), the manager (`ServiceManager` against `ServicePolicy`), the watchdog composed
with it (`Watchdog`), the event path (`EventPipeline` against `FilteredReceive`), the speaker
(`Backchannel`), the readers of the camera's memory (`GrabberRing`, `EncoderTap`, `Snapshot`), the sound the
clients hear (`Audio`), the configuration (`ConfigStore` against `ConfigFile`, `MqttConfig`), the
presets (`PtzPresets`), and the safety theorems about most of them.

Left, modelling:

1. `UpgradeRestore`: the boot-time restore (`system.sh` 115-121, `restore_upgrade.sh`) with power
   loss between any two renames and an SD card that is absent for one boot; abstractly, the
   configuration is the old or the restored one, never a mix, and a backup is not forgotten.
2. `WifiRecovery`: the counter of `wd.sh` 315-343, `wifi_failover.sh` and its marker, the lock of
   `bounded_log.sh` (it has no owner and no recovery); the primary profile returns.
3. An abstract speaker (one owner, freed by every death) refined by `Backchannel`.
4. `clean_records.sh` as a deletion loop against a target.

Left, proving: nothing that is within the prover's reach and worth the length of its proof; a new module of
the list brings its own theorems.

## 8. Running it

```
tlc -workers 2 -config RuntimeLock.cfg MCRuntimeLock.tla
tlapm RuntimeLockProofs.tla
```

`PROJECT.json` lists the module and the configuration of every run, and for every property a
mutant: a plausible bug in a mapped definition that makes the run find the property violated.
