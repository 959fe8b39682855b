# A TLA+ development for the UGREEN NAS drivers

This directory holds TLA+ models of the Linux drivers in this repository (three
LED drivers, the beeper, the buttons, the network trigger, the embedded
controller, the super-I/O fans and the Ryzen SMU), the TLC instances that check
them and the TLAPS proofs about them.

| module | what it is |
|---|---|
| `LedRegisters` | abstract: registers of LEDs that are known while nobody sends, and show what was asked for once that is not due any more |
| `McuLed` | `ugreen/leds-mcu-28a48.c` with its triggers: callers, work items, the bus protocol, the cache, probe and remove |
| `McuLedProofs` | types, acknowledges, the cache, probe and remove, that `McuLed` implements `LedRegisters`, and that nobody waits for good |
| `MCMcuLed` + `MCMcuLed_*.cfg` | instances for TLC |
| `Beeper` | `ugreen/ug_sataio_beeper.c`: writers, timer, closing work, exit |
| `BeeperProofs` | types, every beep ends, the length of a series, and which races alone can mislead the driver about its timer |
| `MCBeeper` + `MCBeeper_*.cfg` | instances for TLC |
| `GpioBtn` | `ugreen/ug_gpio_btn.c`: sampling timer, key reports, probe and remove |
| `GpioBtnProofs` | types, keys left pressed, and which races alone can make the handler use what is not there |
| `MCGpioBtn` + `MCGpioBtn_*.cfg` | instances for TLC |
| `NetdevTrig` | `ugreen/ledtrig-netdev2.c`: attribute stores, notifier, polling work, activation and deactivation |
| `NetdevTrigProofs` | types, references, freed devices, for every value of the constants |
| `MCNetdevTrig` + `MCNetdevTrig_*.cfg` | instances for TLC |
| `EcRegisters` | abstract: registers read and written one at a time by the call that holds the ports |
| `EcMemory` | `ugreen/it55_helper.c` and its users: the byte handshake, the port region, unloading |
| `EcMemoryProofs` | types, that `EcMemory` implements `EcRegisters`, that the fans stay together, that every call gets on and nobody waits for good |
| `MCEcMemory` + `MCEcMemory_*.cfg` | instances for TLC |
| `SmuTables` | what `ryzen-smu-amkillam/smu.c` knows of each processor: class, mailboxes, commands, sizes of the PM table |
| `SmuCommands` | abstract: the commands of all mailboxes, one at a time, each performed once |
| `SmuMailbox` | the commands of `smu.c`: the SMN window, the mailboxes, the files that use them side by side |
| `Smu` | the driver's life: probe, remove and the power-metrics (PM) table, a command being one step |
| `SmuDriver` | `SmuMailbox` and `Smu` side by side |
| `SmuDriverProofs` | types, the window, whose answer a call reads, that `SmuMailbox` implements `SmuCommands`, that nobody waits for good, that a PM table fits where it is copied to |
| `MCSmu` + `MCSmu_all.cfg` | `SmuDriver` for TLC, over all processors |
| `SioFan` | the three drivers of the super-I/O fans, the port region they share and the scripts that load them |
| `SioFanProofs` | types, one user of the ports at a time, the directory, the fans and the setting that are shown, and what alone makes a call wait for good |
| `MCSioFan` + `MCSioFan_files.cfg` | seven machines for TLC |
| `IdxLed` | `ugreen/leds-mcu.c`: stores under the mutex, works without it, transfers with attempts, remove |
| `N76Led` | `leds-mcu-n76e003.c` and its DH2600 variant: pins, modes, the unlocked work, remove |
| `OtherLeds` | a machine with one of the three drivers of `IdxLed` and `N76Led` |
| `OtherLedsProofs` | types, acknowledges, the last brightness, the pins of a colour, for every value of the constants |
| `MCOtherLeds` + `MCOtherLeds_users.cfg` | `OtherLeds` for TLC |

## 1. Inventory

### LED controller driver (`leds-mcu-28a48.c`, DXP4800 Plus)
- *State*: per LED the cache `cur_state` (run state, brightness, colour, blink
  and breath times), `value`, a work item; `i2cmutex`; `g_client`; the flag
  `remove_or_shutdown`; in the microcontroller (MCU), the registers.
- *Operations*: `leds_brightness_set` (remember the value, queue the work),
  `mcu_work` -> `do_brightness_set` / `led_set_on_off`, `color_set` ->
  `do_color_set`, `mcu_led_blink_set` -> `led_blink_or_breath`, probe
  (`init_leds_stats`, `init_leds`, `led_init_read_state`), remove, shutdown.
- *Interaction*: the LED core calls it from sysfs and from triggers; work items
  run on the workqueue; every command is one i2c write followed by polling the
  acknowledge register 0x80, repeated up to three times.
- *Hard*: one acknowledge register for all senders; a cache that suppresses
  requests and is stored outside the mutex; a last retry nobody verifies; users
  that come in while probe writes without the lock; remove against calls.
- *Correct means*: nobody takes another's acknowledge; the cache is exact where
  it can be; a brightness asked for is applied, and what is applied stays until
  another command; remove leaves nothing running.

### LED triggers (`ledtrig-normal/-timer2/-breath-ht32f52231.c`)
- *State*: the attached trigger and its two delays.
- *Operations*: activate, deactivate, the stores to `delay_on` / `delay_off`.
- *Hard*: the queued "brightness 0" of the old trigger against the blink of the
  new one.

### netdev2 trigger (`ledtrig-netdev2.c`)
- *State*: two device names, two referenced net devices, mode bits, counters,
  a delayed work.
- *Operations*: the stores, the net-device notifier, the polling work,
  activate and deactivate.
- *Hard*: notifier, stores and work interleave around one spinlock; reference
  counts across renames and unregistration; devices that a written name takes and
  whose events are dropped; uninitialised activity.

### Beeper (`ug_sataio_beeper.c`; the same code in `dxp480t/ug-beeper-dxp480t.c`, `dx4700/`, `dh2600/`)
- *State*: `beeper_timer`, `timerStatus`, `g_count`, the handler's static
  `count`, two delays, `beeper_delay_work`, the speaker.
- *Operations*: on, off, one, timer, rep (writes to `/proc/nas/beeper`), the
  timer handler, the delayed work, exit.
- *Hard*: no lock anywhere; `del_timer` does not wait; a counter that survives.
- *Correct means*: every beep ends; a timer is never added twice and nothing
  sounds after `off`, or else it is known which race was to blame; a series has
  the length asked for.

### Power and reset buttons (`ug_gpio_btn.c`)
- *State*: per button the mapped register, the count of samples `seen`,
  `prestate`, `last_report`; the timer; the input device.
- *Operations*: the sampling handler each 50 ms, probe, remove.
- *Hard*: thresholds (press and release at different counts, a saturating
  count); probe and remove against the handler.

### Embedded controller (`it55_helper.c` and `ug_it55*_functions.c`)
- *State*: the controller's input and output buffers; fan modes; power status.
- *Operations*: read and write of a byte by command, address and data, each with
  at most five tries; the procfs reads and writes built on them.
- *Hard*: giving up in the middle of a command; an answer that comes too late;
  callers that do not test for failure; several callers of one port pair; an
  exit that takes no lock.
- *Correct means*: a register holds what the last write to it said, a read
  returns it; calls do not mix; every call ends.

### Fan and super-I/O (`dxp480t/ug_it86x-cpufan.c`, `ug_it86x-sio.c`, `dh2600/ug_it86x-sio-dh2600.c`)
- *State*: in the chip the configuration mode, the fans' modes and values, three
  bits of the power-on setting; the muxed port region 0x2e/0x2f; per driver
  `update_lock` and `nas_dir`; one directory `/proc/it86`.
- *Operations*: writes of `/proc/it86/fan` (`set_fan`, `set_cpu_fan`), of
  `/proc/it86/startup` (`set_bios`), reads of both, init and exit.
- *Interaction*: each driver serialises its own calls, only the region keeps the
  drivers and other users of the ports apart; the scripts load two of them and
  both make the same directory.  The boot service loads cpufan alone
  (`ug-load-drive.sh`), `load-modules.sh` sio and then cpufan, and
  `unload-modules.sh` unloads sio and then cpufan, whoever has loaded them.
- *Hard*: error paths that skip `superio_exit`, or take it uninvited; two tables
  that decode the power-on bits; a product decides, at two places, which fan is whose.
- *Correct means*: one user of the ports at a time; the fans shown are the fans
  set; a setting is read back as it was made; a directory is removed by the driver
  that has made it.

### LED driver of the iDX models (`leds-mcu.c`)
- *State*: per LED `status[]` with a brightness and a work item; a mutex; in the
  controller one acknowledge register.
- *Operations*: `leds_brightness_set` (queue the work), `brightness_work`,
  `color_set`, `leds_blink_set`, each transfer with three attempts, remove.
- *Hard*: the work sends without the mutex; remove queues work that it has cancelled.
- *Correct means*: the brightness stored last is the one sent; stores do not take
  each other's acknowledge; nothing hangs.

### LED drivers of the n76e003 (`dxp480t/leds-mcu-n76e003.c`, `dh2600/leds-mcu-n76e003-dh2600.c`)
- *State*: a white and an orange pin, each with a mode; `led->color`,
  `led->value`, `led->brightness`; a work item; `update_lock`.
- *Operations*: brightness, colour, trigger and delay stores; the work; remove,
  which is shutdown as well.
- *Hard*: sequences of registers that no common lock protects; remove keeps
  `update_lock` while it waits for stores.
- *Correct means*: the pins that are on are those of the colour; one pin blinks.

### Ryzen SMU driver (`ryzen-smu-amkillam/`)
- *State*: a window of two PCI registers (address, data) behind `amd_pci_mutex`;
  per mailbox a command, a response and argument registers; `amd_smu_mutex`; what
  is cached of the PM table (`pm_dram_base`, its size, its mapping, the buffer and
  its length); the list of optional files.
- *Operations*: `smu_send_command` and the files that call it, `smn_store`,
  `smu_read_pm_table` (for the probe and for the file), probe, remove.
- *Hard*: the argument registers are also the answer; a count of retries that
  wraps; writes whose failure is ignored; sizes that are larger than the buffer;
  what remove does not reset.
- *Correct means*: a transfer uses the register its own thread named; an answer
  reaches the call it is for; a table is copied only to where there is room for it;
  every call returns.

### Scripts (`root/usr/local/sbin`)
- `fancontrol.sh` (curve, hysteresis, rate limit, power LED), `ugbeep`,
  `setup_leds.sh`, `ug-load-drive.sh`.

### Further
- `dxp68a88/leds-mcu-68a88.c` (near copy of `leds-mcu-28a48.c`), `ug_201x.c` /
  `leds-sio-201x.c` and `ug_it55_4800gt_functions.c` (not built), `tests/` (an EC
  test driver with a priority queue), `tools/`.

`PROJECT.json` lists each component with its status, and every hazard at the
line where it bites.

## 2. Plan

Done, in this order:

1. `McuLed`, the driver the repository is mostly about, with proofs.
2. `Beeper`, with proofs.
3. `GpioBtn`, with proofs.
4. `NetdevTrig`, with proofs.
5. `EcRegisters` and `EcMemory`, with the refinement proved.
6. `SmuTables`, `SmuMailbox` and `Smu`, with proofs.
7. `SioFan`, with a second user of the same ports and proofs.
8. `IdxLed` and `N76Led`, with proofs.
9. `LedRegisters`, what `McuLed` promises those who store brightnesses, with the
   refinement proved.
10. `SmuCommands`, what `smu_send_command` promises its callers, with the refinement proved.

Left:

11. `FanControl`: curve, hysteresis and rate limit of `fancontrol.sh` as functions
   over the whole temperature range against reference definitions.
12. `PrioQueue`: interruptible writers and the serving work of `tests/`.
13. The ten LEDs of `leds-mcu-68a88.c`, as an instance of `McuLed` where the two
    drivers agree.

Proof left: a refinement of `Smu`, whose commands are single steps, by a driver whose
readers go through `SmuMailbox`; what is proved is that the commands are apart
(`CommandsApart`), which is what `Smu` assumes of them.

## 3. How the models correspond to the code

### McuLed
A thread is a sysfs caller or a work item; the work item of LED *l* is named
*l*, and `cancel_work_sync` waits for `pc[l] = "idle"`.  A step ends where
another thread may run in between: before `mutex_lock`, at the sleep after a
bad acknowledge, after `mutex_unlock`, and between the `atomic_set`s that follow
it.  The shared path of all operations is `Request` (test of the cache) ->
`Lock` (lock and first write) -> `Ack` | `Nak`* -> `Commit` -> `CommitTimes`;
`led_set_on_off` differs as in the code: it tests the cache again under the lock
and stores it before it unlocks.

- `Send`: a write arrives or is lost, and a write that arrived may still be
  answered badly (`Nak` is enabled whatever `bus.ok` says).  An acknowledge of 1
  is taken to mean that the last write on the wire arrived; a read of 0x80 that
  itself fails is a bad acknowledge.
- `MaxNaks` bounds the bad acknowledges of one command; at `RETRIES` (3) any
  number may occur, and the call then gives up after a rewrite that is not
  verified.
- probe's writes are neither locked nor verified, and are lost only if
  `MaxNaks = RETRIES`.
- *Data*: the two delays of a trigger are one value *d* in units of 100 ms,
  and a command carries their sum, as the driver's `tmp`; colour 0 stands for
  the bytes in front of the colour table; `need_read`, which nothing reads, is
  left out.
- *The LED core* (external): `led_access` excludes brightness and trigger stores
  on one LED; writing brightness 0 or another trigger detaches the trigger and
  asks for brightness 0; the delay files of a trigger are gone only after the
  stores inside them (`Drained`); unregistering an LED waits for its callers.
- A later probe starts when work that was queued late has run
  (`ProbeStart`'s guard); that work only tests the flag and returns.
- `EarlyUsers` lets user space in between the registration of the class devices
  and the end of probe, which the code permits.
- `shutdown` performs the same steps as `remove`.
- `owner` is a history variable: the thread whose acknowledged command stands on
  a register, nobody once another sender or a failed command interfered.

`LedRegisters` has neither threads nor a mutex.  It has, for each LED, the registers the
controller shows and what the driver believes of them (`shown`, `known`), whose command is
settled on each (`settled`), what was asked of the LED last (`asked`), and whether its
work has yet to see to it (`due`).  The mapping (end of `McuLed`) takes `shown` from the
controller, `known` from the cache and `asked` from `led->value`; an LED is due while its
work item is queued or runs; a command is settled when its owner has stored it in the cache
and is done with it.  So what `LedRegisters` permits at a step of the code is at
most one register of one LED: `Send` when a write is on the wire, `Suppose` when the cache is
stored before the command is known to stand, `Settle` when it is stored and the LED shows it,
`Learn` when probe reads an LED; and a work item ends only in `Finish`, when the LED shows
what was asked last or somebody else's command has come between.
- How fast an LED blinks is part of its run register only while it blinks (`Reading`).
- A work item that ends because `remove_or_shutdown` is set has promised nothing (`serving`).
- A command that failed three times, or that another sender overlapped, is not settled, and
  nothing is claimed of the register until the next one.

### Beeper
One action per statement that touches shared state.  `Running` is the only
scheduling assumption: process context (writers, the delayed work, exit) does not
run while the handler does on one CPU (`Smp = FALSE`), and runs freely with
`Smp = TRUE`.  `del_timer` takes the timer off the queue and does not wait;
`schedule_delayed_work` leaves a queued work as it is; `remove_proc_entry` waits
for writers that are inside; `cancel_delayed_work_sync` waits for a running work.
Input that the driver refuses changes nothing and is left out; the delays are
positive (the driver takes 20 to 99999 ms), so the handler's defaults never
apply.  Ports and EC registers behind the speaker are one bit, `sound`.
The handler's `count` saturates at `MaxCount`, which is at least every length
that is written; the code's `int` wraps only after 2^31 beeps.
Nothing restricts who writes, what, or on which CPU.  History says instead what
has gone wrong on the way (`held` and `beeps` are history too; `beeps` saturates
at `MaxBeeps`):
- `raced`: two writers overlapped, or a `del_timer` found the handler running, since
  the last `on`, `off` or `one` that stopped the timer alone and with the handler idle;
- `missed`: the length of a series was set when the left-over `count` had reached it,
  so that `g_count == count` never comes true again (line 336).

The read side, `booton`/`bootoff` (a CMOS bit) and the SATA presence bits are left
out: they share nothing with the rest.

### GpioBtn
The handler is four actions per button (`Check` of the mapping, `Read`, `Report`)
and `Rearm`, so that on several CPUs probe and remove come in between.
`level` is the button itself; a register unmapped between check and read reads
as anything.  Pressing and releasing thresholds are constants per button; the
code has 1 / 100 for power, 100 / 100 for power on the DXP2800 GT, 260 / 261 for
reset, and stops counting at 1200.  `Fails` lets the `ioremap` of each register, the
allocation and the registration of the input device fail; `Rebinds` lets the driver be
bound again after a removal, keeping the counts as the code does (they are reset only
when the module is loaded).  A tick may come at any moment after `add_timer`, before
probe is done too.  `last` is history: the samples of the last hold that pressed the
key, counted on past the limit of `seen`.  So is `raced`: such a tick came, or remove
found the handler running, and no `del_timer` has found it idle since.

### NetdevTrig
A section under `trigger_data->lock` is one step; so are the test at the head of
`netdev_trig_notify` and the start of a delivery (`Announce`), which happen in one
call.  A notification has two steps, `NotifyCancel` (`cancel_delayed_work_sync`, which
waits for the work) and `NotifyLocked`; the work reads the two slots' statistics and
shows the result in four (`WorkStart`, `WorkStats0`, `WorkStats1`, `WorkShow`), since it
takes no lock.  A store begins when its own `cancel_delayed_work_sync` is through
(`Store`'s guard), then sets its names or its bit, and the baseline in a separate step
where the code does (`LedAttrStore`, `BaselineState`).
- *The network core* (external): devices are registered, renamed, opened, closed,
  made bridge ports and unregistered; carrier changes are announced later
  (`LinkWatch`); one notification is delivered at a time; a device that is still
  referenced is announced as unregistered again (`Rebroadcast`,
  `netdev_wait_allrefs`); unregistering the notifier announces every listed device
  as down, if it is up, and then as gone (`DeactivateNotify`).
- A device may be a VLAN device (`vlan`), which `dev_get_by_name` finds like any other
  and whose events the notifier drops, as those of a bridge port (`Passes`).  All devices
  are those of `init_net`: no other is ever looked up, and their events are dropped.
- `Deaf(d)`: the trigger holds `d` and its unregistration will not free the slot, because
  `d` is a VLAN device or has been renamed.
- `dev_stat` is the set of the slots whose bit is set; `refs` counts `dev_hold` and
  `dev_put`; `led` is what the LED core was asked for last, so the end of a
  one-shot blink is not a step.
- `Garbage` is what `new_activity` holds when nobody has written it.
- `overlap` is history: a store ran together with a notification or another store,
  which the code does not exclude.
- *Left out*: the DEBUG bit, the value of the interval, refused input.

### EcRegisters and EcMemory
A thread sends or receives one byte in two steps, `PollReady` (the status read that
finds the buffer as it must be) and `Send` or `Receive` (the port access), because
others may come in between when somebody uses the ports without holding them.
`PollAgain` and `PollTimeout` are the other outcomes of a status read; after `Tries`
of them the operation is given up and, as in every caller, the next one begins.
The calls are those of the files of `/proc/it86` and of the backlight, as sequences of
operations.
- *The controller* (external) takes a byte and answers a read whenever it likes, or
  never; a command byte begins a new command.  This is the protocol of an ACPI
  embedded controller, which the helper's constants are those of.
- *The region* of the ports is muxed: a request waits for its holder
  (`RequestPorts`), or fails because somebody else has the port for good
  (`RequestRefused`); a release frees the region whoever holds it.
- `EcRegisters` has the registers (`mem`), the call that holds the ports and where
  it is, and what was read.  The mapping adds to the controller's registers the value
  that has been sent and not been taken yet (`Stored`).
- `gaveUp`, `late` and `broken` are history: a wait ran out, one for an answer did,
  the ports were used without being held.  `EcRegisters` has them too: after a read
  has been given up a later one may return anything; nothing is claimed once the
  ports were used without being held, which only a refused request and the exit do.
- *Left out*: the power-status bit of `startup`, which is not behind these ports, and
  reading the fans' speed, which changes nothing.

### SmuMailbox, Smu and SmuTables
A thread is a caller of a sysfs file.  Each access to an SMN register is two steps:
`SmnAddress` takes `amd_pci_mutex` and programs the address, and the step of the
protocol that follows transfers the data (`SmnData`) or finds that an access failed
(`SmnError`).  `pc` names the step of `smu_send_command` in the order of its comments:
`Wait1` (steps 1 and 1.b), `ClearRsp` (2), `WriteArgs` (3), `WriteCmd` (4), `Wait2`
(5 and 6), `Fetch` (7).  `WriteIgnored` is a failing write of steps 2 to 4, whose result
the code drops; `PollFails` ends the call as the code does.
- `retries` is the `u32` of the code and is used up by both waits together; the
  decrement that ends a loop wraps (`PollEnds`, modulo `RetryMod`, 2^32 in the code).
- *The firmware* (external) ends a command when it likes, or never; `Answer`.
- An argument register holds whose request, or the answer to whose request, it is;
  the six registers are one.
- `spoiled` is history: a wait ran out or an ignored access failed.
- `SmuCommands` has no registers, window, mutexes or waits.  It has for each thread how far its
  command is (`phase`), for which mailbox (`box`), and for each mailbox whose command the
  firmware has yet to perform (`todo`).  The mapping (end of `SmuMailbox`) takes `phase`
  from the step of the protocol: `called` up to step 4, then `issued` until the firmware has
  answered and `performed` from then on, and the result once it is known; `todo` is the job of
  the firmware.  So only step 4 issues a command, only the firmware's answer performs it, and
  the rest changes nothing that `SmuCommands` knows.  A call that gives up leaves its command
  to be performed later, but before the next one of its mailbox, which step 1 waits for.
  Nothing is promised once `spoiled` is set.
- `Smu` has every command as one step with any result, since `amd_smu_mutex`
  serialises them.  Probe is the sequence `Probe`, `CheckMp1`, `CheckRsmu`,
  `PreparePmTable`, the read of the table, `FirstRead`, `CreateFiles`; the table's is
  `ReadPmTable`, `GetBase`, `GetVersion`, `UpdateSize`, `CheckLen`, `Transfer`, `Map`,
  `Copy`, by probe and by readers alike.  `Remove` resets what the code resets.
  A read of the file copies twice: `Copy` to the driver's buffer (`smu.c:1317`), and
  `Reply` from there to the reader's page (`drv.c:117`), of which `page` is the length.
- `SmuTables` has every processor, command number and size of the code's `switch`es.
- *Left out*: the structures `smu_args` and `smu_rsp` that all files share without a
  lock, and the contents of the tables.

### SioFan
A call is `Begin` (one of the four files), `Lock`, `Enter` or `Refused`, its
accesses, `Exit`, `Return`; a write of several registers is one step each.  `machine`
is the product, its BIOS, the bits that BIOS has set, and the drivers in the order in
which the scripts load and unload them; init runs as the thread `Script` through the
same `Enter` and `Exit`.  A muxed region makes a request wait for a holder that
shares it and refuses it if the holder does not (`Foreign`).
- `Exit` frees the region whoever holds it, as `release_region` does; `strayed` records
  that it was another's, and nothing is claimed afterwards.
- `asked` is history: the last settings of the system fans, the CPU fan and the
  power-on setting, noted when the ports are entered.
- `remove_proc_entry` waits for the calls inside a file (`RemoveFile`) and goes by
  the name (`ItExit`).  A driver without a `nas_dir` looks for its files in `/proc`
  itself and finds none.
- The orders of loading and unloading are any two lists that name a driver once and unload
  what they load (`ScriptsAssumption`).  `torn` is history: an exit removed the directory
  of another driver.  What the owner then does with its dangling `nas_dir` is undefined
  in the code; in the model it only leaves, and nothing is claimed of the files any more.
- *Left out*: reading the speeds' values; the register pairs of one fan are one.

### IdxLed
An agent is a caller or a work item, named as its LED.  A transfer is
`WriteBlock` | `WriteFails` and then `AckRead` | `AckMissing`, each at most `Attempts`
times; `last` is the sender of the command whose acknowledge stands in the register.
A store takes the mutex (`Lock`), a work does not; a colour that is not in the table
takes it and sends nothing.  Remove is `CancelWork` of all LEDs,
then `TurnOff` and `Unregister` of each, then `Free`.
- `offered` is history: the brightness that each work item offered last; what it offers
  may get lost, and the code does not look at the result.
- The LED core's own lock is left out: nothing depends on it.

### N76Led
`variant` chooses between an LED of the n76e003, the power LED of the DH2600 and its other
LEDs, for which breath does nothing (`BlinkIgnored`).  `ColorStore`, `TriggerStore`, `DelayStore` and
the work are sequences of one register write per step; the LED core (external) has
`led_access`, which colour and trigger stores hold, and detaches a trigger as for
`McuLed`.  `lit` is `led->brightness # 0`, which the code tests and never sets back.
`mixed` is history: two sequences of registers overlapped since the last colour store
that ran alone.  Remove takes `update_lock`, cancels the work, unregisters the LED, which
waits for the stores, and only then gives the lock back.  Binding again is left out.

## 4. What is checked

All twelve runs pass.  Statements of the repository that the code does not keep are
at the end of this section.

| run | shows | bounds |
|---|---|---|
| led_values | `AckIsOwn`, `RemoveQuiesces` and `Implements` (the refinement of `LedRegisters`) over brightness, colour, lost writes, early users, remove and re-probe | 1 LED, 2 callers and the work item, on and off, one colour, any bad acknowledges |
| led_probe | `WarmProbe`: binding to a running controller leaves its LEDs alone; `CacheExact` with triggers, blink and breath times | 2 LEDs that are off, on or breathing, 1 caller, all 3 triggers, one delay, one bad acknowledge per command |
| led_live | `BrightnessApplied`, `CallsReturn`, `RemoveCompletes` | 2 LEDs, 1 caller, 2 bad acknowledges per command |
| beep_up | `NoDoubleAdd`, `TimerGone`, `RepAtMost`, `NoSpuriousBeep` | 2 writers, several CPUs, every command, series of 1 and 2 beeps, unload |
| beep_live | `SoundEnds`, `SeriesEnds`, `BeepEnds` | 2 writers, several CPUs, every command, series of 1 and 2 beeps |
| btn_rebind | `HandlerSafe`, `StuckOnlyByWindow`, `KeyReleased` | 2 buttons with scaled thresholds, several CPUs, failing and slow probes, rebinding |
| netdev_one | `StatsAlive`, `RefsBalanced`, `SlotAlive`, `Deactivated`, `UnregisterCompletes`, `LedOffWithoutDevice` | 1 device, a VLAN device or not, that is renamed, bridged and carries traffic, in either slot or in none, 1 writer of the names and of tx, an uninitialised value of 1 |
| ec_users | `Implements` (the refinement), `FansTogether` | 2 callers of six calls, 2 tries per wait |
| ec_unload | `CallsReturn` with refused requests, the exit and a hanging controller | 1 caller that reads, the exit, 2 tries |
| smu | `SmnAddressed`, `AnswerIsOwn`, `CallsReturn` of one mailbox; `PmTableFits` of each processor | 2 users of one mailbox that the processor has and two that it has not, 2 polls in all, failing accesses; every processor and table version, 2 readers, bound twice |
| fan | `PortsExclusive`, `FansAsShown`, `StartupReadsBack`, `DirectoryOwn` | 2 users, a foreign driver, the scripts; 7 machines, fans on, off and at one value |
| leds | `AckNotOfCaller`, `LightSent`, `NeverHangs` of the iDX driver; `ColorShown`, `HangsOnlyInRemove` of the n76e003 drivers | 1 LED of each of three kinds, 2 callers, the work item, remove; 3 attempts, 3 brightnesses; 3 colours and all triggers |

The type invariants of all modules are theorems (section 5).

**Why the bounds are enough.**  LEDs share only the mutex, the acknowledge
register and the order of probe and remove; two callers and a work item give every
pairwise race on one register, and `led_probe` and `led_live` use two LEDs where
the loops over them matter.  The two callers of `led_values` run the same code and are
taken as symmetric.  A level between on and off is a brightness like these with a register of
its own, and is in `led_live`; `CacheExact` is checked where a register has more than one field
to agree on, in `led_probe`.  Values matter only as equal or not, except for 0 and
1 (on/off), which are among those used.  The beeper's races are between two
writers, the handler, the work and exit, all present; with series of one and of two beeps a
count that was left behind has reached the shorter length or has not, and three beeps are
one more than any series asks for.  The buttons are independent
of each other except for the loop; the scaled thresholds keep the order press,
release, limit, and the claim about them is proved for all thresholds.  The
trigger's properties concern one reference or one reading, and a device is in one slot
at a time or moves from one to the other by its name, so one device is enough; two
devices at once are covered by the proofs.  `link` is not among the bits of the
instance: it changes how the LED is lit, and of that `LinkShown` speaks, which fails.  The embedded controller's bytes belong to
one call at a time, so two callers meet in every way; two tries let a wait succeed,
repeat and run out.  `MCEcMemory` keeps of each call the operations on a few
registers, so that a call has one or two operations.  In `smu` one allowed retry
lets a wait succeed at once, after a poll, or run out, in either of the two waits, and
`RetryMod = 3` lets the count wrap to a value that it cannot reach otherwise; mailboxes
share the window, the mutex and nothing else, so one mailbox with two users has
every race of a command, and the file `smn` brings the accesses outside
`amd_smu_mutex`.  A second binding is where what remove left behind shows.  In `fan`
there is a machine for each branch by product, BIOS and activity of the device, and for
each order in which the scripts load and unload: both drivers by `load-modules.sh`, cpufan by
the boot service alone, and cpufan by the boot service with sio added by `load-modules.sh`,
which `unload-modules.sh` then removes first.  Two
users, of which one sets the fans as `fancontrol.sh` does, meet in every file.  In
`leds` an LED's registers are its own and the acknowledge register is shared, for which
two callers and a work are enough; `AckNotOfCaller` and `LightSent` are proved
for any number.  The safety properties among
these are proved (section 5), some under hypotheses on the constants that TLC evaluates
for its instances.

**CHECK_DEADLOCK FALSE** stands in `beep_up`, where the module is unloaded for
good; in `smu`, where nothing happens after the last binding (a driver that could not be
bound is not bound a third time); in `fan`, where a device that is not active leaves
the ports taken for good, which `PortsExclusive` names; and in `leds`, where the driver is
gone at the end.  There `NeverHangs` and `HangsOnlyInRemove` say what deadlock checking
would, for code that has begun.

**Fairness.**  `McuLed`: every thread that can go on does (weak fairness);
`Lock` is strongly fair because a kernel mutex hands over to its waiters.  The
bad acknowledges of one command are bounded by the code itself.  Nothing is
assumed of users: starting a call, removing the driver and toggling a button are
never fair.  `Beeper`, `GpioBtn`: timers expire, queued work runs, code that
runs goes on.  `NetdevTrig`: the same; `NotifyCancel` and `DeactivateEnd` are strongly fair
because `cancel_delayed_work_sync` keeps the work from queueing itself again, and the
core's repetition of an event because it takes turns with other events.
`EcMemory`: code that runs goes on, and a muxed region that is freed again and
again is got in the end; nothing is assumed of the controller, which may hang.
`SmuMailbox`: a thread that waits for no mutex goes on, and gets a mutex (`SendCommand`,
`SmnAddress`) that is given up again and again; nothing is assumed of the firmware.
`SioFan`, `IdxLed` and `N76Led` state no fairness and are checked for safety.

**Exceptions.**  Where the code excludes a race by nothing, a property does not assume it
away: it is checked with the race in the model and says what follows from it and what
does not.  Each exception is a history variable, or a condition on the state, whose every
cause is in the module:

| exception | in | what it excuses |
|---|---|---|
| `raced` (`Beeper`) | `NoDoubleAdd`, `TimerGone`, `NoSpuriousBeep` | two writers at once, or a `del_timer` that finds the handler running, until the next command that stops the timer alone |
| `missed` (`Beeper`) | `RepAtMost`, `SeriesEnds` | a series whose length was set when the left-over count had reached it: it has no end |
| `raced` (`GpioBtn`) | `HandlerSafe` | a tick before the end of probe, or a removal that finds the handler running, until a later removal finds it idle |
| `overlap` (`NetdevTrig`) | `StatsAlive` | a store that overlaps a notification or another store |
| `Deaf` (`NetdevTrig`) | `UnregisterCompletes` | a VLAN device or a renamed one, as long as a slot holds it: its unregistration waits |
| `spoiled` (`SmuMailbox`) | `AnswerIsOwn` | a wait that ran out, an access whose failure the code ignores |
| `LongTables`, `binds = 1` (`Smu`) | `PmTableFits` | the ten tables that are longer than a page; the buffer in a second binding |
| `strayed` (`SioFan`) | `PortsExclusive`, `FansAsShown`, `StartupReadsBack` | ports that a refused `fan_read` has released for another |
| `Overtaken`, `torn` (`SioFan`) | `DirectoryOwn`; `FansAsShown`, `StartupReadsBack` | a driver that is unloaded before one that was loaded earlier |
| `mixed` (`N76Led`) | `ColorShown` | two sequences of registers that overlapped, until a colour store runs alone |

`HandlerSafe` is one property because its three parts, `MapAlive`, `KeyAlive` and `TimerGone`,
have the same exception.

**Disagreements with statements of the repository.**  Five are definitions of the
modules; each is violated when it is put alone into the `.cfg` of a run of its module:
- `FansAutomatic` (`EcMemory`): a user's call can set the fans after the exit has switched
  them to automatic, where the comment at `ug_it55_functions.c:598` says that no lock is
  necessary;
- `LinkShown` (`NetdevTrig`, with two devices): with eth0 and eth1 monitored, taking down
  the one with carrier leaves the LED on, where `ledtrig-netdev2.c:34` says that the LED
  reflects the link;
- `OkMeansOk` (`SmuMailbox`): a command that was still being processed, or has failed, is
  reported as OK unless the retries happen to be 0 at the end (`smu.c`, step 6);
- `MapsTheTable` (`Smu`): `SMU_Return_Failed` is 0xFF and the test is `< 0xFF`, so the
  error is taken for the address of the table (`smu.c:1213`);
- `OldOffReadsBack` (`SioFan`): on BIOS T1605A13 off leaves bit 0xF4[6] alone, and
  `dh2600/ug_it86x-sio-dh2600.c:348` reads off only if it is set.

Others, of which no definition speaks:
- colour 8 passes `color_set`'s test and is masked to 0, the entry before
  `led_color_table`; the table has an eighth entry and `fancontrol.sh:105` writes 8;
- the beeper's static `count` survives a series that is cut short, so that the next
  one beeps less often than asked (`ugbeep:3` calls the argument the number of
  beeps), or without end if its length is not above `count` (`missed`);
- beeper and buttons: `del_timer` does not wait for a running handler, which then queues
  the timer again (`raced`); exit of the beeper calls it only if `timerStatus` says that
  the timer runs, and remove of the buttons unmaps the registers before it;
- netdev2: a VLAN device that is called eth0 or eth1 is taken by `device_name_store`, and
  never given back on its unregistration, which then waits (`Deaf`);
- `ugbeep` passes length and pause of `rep` exchanged;
- with only eth1 monitored `new_activity` is never set, and the LED may blink without
  traffic;
- the flush of the breath trigger does not wait for this driver's work;
- the cache, "real brightness" at `leds-mcu-28a48.c:79`, differs from the
  LED after three bad acknowledges;
- reset is reported after 260 samples, 13 s, where the comment
  (`ug_gpio_btn.c:73`) says 5 s; the limit "< 10min" (line 71) is 60 s;
- writing on to `Lan_wakeup` writes 0 and off writes 1, and reading it reads the
  register of `G3_wakeup`;
- in `ug_it55_4800gt_functions.c`, which is not built, reading and writing the power
  status disagree on what the bit means.
- SMU: because `retries` wraps, the timeout of step 1.b is never seen and the command is
  sent to a mailbox that is still busy; the sizes of the PM tables of Vermeer 0x380005 and
  Storm Peak 0x5C0002 and 0x5C0003 are larger than `PM_TABLE_MAX_SIZE`, "the largest", and after a second
  binding such a table is copied past the end of the buffer, because the length is kept;
  `pm_table_show` copies up to 0x1AB0 bytes in the first binding (more in later ones) to a page
  of 0x1000 (`drv.c:117`, `LongTables`);
  the version of Castle Peak's table is never asked for; a failed mapping of the second table
  is not tried again, and the first is then used without it; the list of optional files and the
  pointer to the freed buffer survive remove;
- fans: a refused `fan_read` gives back ports it has not got, one of an inactive device
  keeps them; what `set_fan` returns is ignored; the second driver's failure to make
  its directory is ignored; exit removes `it86` by its name, so that after the boot service
  and `load-modules.sh` sio, which `unload-modules.sh` removes first, takes away the directory
  of cpufan, whose `nas_dir` is then dangling (`torn`); the models with one fan are shown a
  CPU fan;
- iDX: the comment at `leds-mcu.c:495` says that the transfer protects itself, and it does
  not; the comment at line 656 says that remove cancels the works, and the unregistration that
  follows queues them again before `status` is freed; `status` is used before it is
  initialised; the reboot notifier is never unregistered; the trigger normal sends
  brightness 0 while the stored one stays;
- n76e003: `unsigned char mode = -1` makes the test `mode != -1` always true;
  `led->brightness` is not reset when the LED goes off; the DH2600 ignores colours until a
  brightness has been stored;
- `leds-mcu-28a48.c`: a brightness stored before the end of probe may be lost
  (`BrightnessApplied` is claimed for `EarlyUsers = FALSE`).

## 5. What is proved

All theorems are for arbitrary constants that satisfy the named assumptions
(`LedAssumption`, `BeeperAssumption`, `ButtonAssumption`, `NetdevAssumption`,
`EcAssumption`, `SmuAssumption`, `KernelAssumption`, `SioFanAssumption`, `ScriptsAssumption`, `IdxAssumption`,
`N76Assumption`): any number of LEDs, callers, writers, commands, buttons, thresholds,
devices, calls, tries, mailboxes and machines.

Some theorems need more, stated as their hypothesis:

| hypothesis | says | because |
|---|---|---|
| `~EarlyUsers`, `MaxNaks <= 1` (`McuLed`) | user space waits for probe; of two reads in a row one succeeds | probe reads an LED's state at most twice |
| `SpeedsTogether` (`EcMemory`) | a call writes the speeds of both fans, to one value, or of none | `set_sys_fan` is the only writer of these registers |
| `KnownProducts` (`SioFan`) | cpufan is loaded on products that its tables name | on others its reads and writes do not agree on the fans |
| `OneBios` (`SioFan`) | the DH2600's old BIOS meets no other driver of `startup` | no script loads that driver beside another |

TLC evaluates those about the data of an instance as `ASSUME`s of its `MC` module.

`McuLedProofs`
- `TypeCorrect`: types, with `StoredOK` (a store holds a legal brightness).
- `AckOwned`: `AckIsOwn`.  Inductive with `LockHeld` (a thread between its
  write and its unlock holds the mutex; the last write is its own or probe's).
- `CacheIsExact`: `CacheExact`.  The invariant `OwnedOK` says for each
  owner of a register how far its command has come and what the controller and the cache
  show at that point (`Standing`); it needs `CmdOK`, that a command in progress
  is one its thread may send.
- `RemoveIsQuiet`: `RemoveQuiesces`.  `Draining` counts off the work items that
  remove has cancelled, `Closed` the LEDs it has unregistered; a flagged driver
  starts nothing new.
- `ProbeKeepsLeds`: the action property `WarmProbe`.  `ProbeAlone` says that nobody is
  inside the driver while it probes, and that it writes to an LED other than the power
  LED only when that LED is off.
- `ImplementsLedRegisters`: `Implements`.  Each step of `McuLed` serves one LED (`Serve`),
  asks for a brightness (`Ask`), begins or ends the service (`Open`, `Close`), or
  leaves the variables of `LedRegisters` alone.  `SystemCallServes`, `WorkServes` and
  `ProbeServes` say so of the steps of calls, work items and probe; `ProtocolElsewhere`, that
  a step of the protocol changes one register; `ProtocolFinish` and `CachedIsMet`, that a
  work item ends with its LED as it was asked to be, by its command or because the cache, which
  is exact for its own register (`OwnedOK`), says that it is so.  This needs `WorkInv` (a
  work item that runs acts on the brightness asked for last, or is queued again) and
  `Stopped` (the flag is up only after remove has begun, so that a work item that finds it up
  belongs to a driver that serves no more).
- `PromiseKept`: `Registers!Promise`, proved from the steps of `LedRegisters` and the
  refinement alone: what is settled is known, and an LED whose work is done shows what was
  asked last unless another command came between.
- `NobodyWaitsForGood`: `NobodyStuck`, the part of `CallsReturn` and `RemoveCompletes` that needs
  no fairness.  `AckGoes` says that who waits for an acknowledge has a try left and may have
  either answer, so that the holder of `i2cmutex` goes on; `AccessHeld`, that who holds `led_access` is
  inside a call for that LED; hence a call waits only for somebody who goes on, and probe and
  remove only for calls and works.

`BeeperProofs`
- `TypeCorrect`; `EveryBeepEnds`: `SoundEnds` is itself inductive, for any
  number of writers and CPUs.
- `AddsOnce`, `TimerIsGone`, `SoundsOnCommand`: `NoDoubleAdd`, `TimerGone`, `NoSpuriousBeep`,
  for any number of writers and CPUs.  The invariant is `StatusSound`: as long as nothing has
  raced, at most one writer is inside, a queued or running timer is known to `timerStatus` or
  was added just now, and who is stopping or starting the timer finds it off.  A command that
  stops the timer alone and with the handler idle restores all of this, whatever went before.
- `SeriesIsBounded`: `RepAtMost`, for any writers, lengths and CPUs.  `Counted` relates the
  handler's static count to the beeps heard since the series began: unless the length was set
  too late (`missed`), the count is below it, the timer that is queued has beeped at most
  as often as it says, the handler is at most one beep ahead, and what a series that was
  cut short has left behind only makes the next one shorter.

`GpioBtnProofs`
- `TypeCorrect`, with `IndexOK`.
- `StuckKeyWindow`: `StuckOnlyByWindow` for any thresholds and CPUs.  `Standing`
  relates the count, the sample before and the history of each button.
- `HandlerIsSafe`: `HandlerSafe`, for any buttons and CPUs.  The invariant `PhaseOK` says what
  holds in each phase of probe and remove as long as nothing has raced.  `KeyAlive` excepts
  the timer that a failed probe left behind.

`NetdevTrigProofs`
- `TypeCorrect`; `ReferencesBalance`: `RefsBalanced`.  The invariant `RefInv` adds
  `StatOK` (a slot that is filled has its bit in `dev_stat`, so the code that tests the
  bit does not lose a reference) and `PhaseOK` (stores and events only
  while the trigger is there; what was freed has nothing queued and holds nothing),
  of which `DeactivationClean` is a consequence.
- `SlotsAlive`: `SlotAlive`.  `AliveOK` adds that the event in delivery and what the
  deactivation has yet to announce name devices that exist: a device is freed only
  when nobody holds it, and a slot holds it.
- `NoLinkWithoutDevice`: `NoDeviceNoLink`.
- `WorkReadsAlive`: `StatsAlive`.  `WorkOK` says that as long as nothing overlapped the work
  reads a device of a slot, and that a writer and the locked section are alone.

`EcMemoryProofs`
- `TypeCorrect`, with `TypeInv` (where each thread is in its call).
- `ImplementsRegisters`: every step of `EcMemory` is a step of `EcRegisters` or leaves its
  variables alone.  A byte is meaningful only by what was sent before, so
  the invariant `Handshake` says, until the ports are used without being held: who
  is inside a call holds the ports; after the command the controller expects the
  address or is about to take the command (`Commanded`); after the address of a write
  it waits for the value of that register (`Writing`), after that of a read it answers
  or has answered with it (`Reading`); and an answer comes only to who waits for it,
  unless one was given up (`AnswerInv`).
- `FansAreTogether`: `FansTogether`, proved from the steps of `EcRegisters` and the
  refinement, so that the handshake is no part of the argument.  `PwmInv` says that
  the speeds are the same unless a call that sets them holds the ports, and that those
  such a call has set are the ones it was called with.
- `CallsAlwaysGoOn`: `CallsGoOn`, with `HolderInside` (who holds the ports is at a step of an
  operation, and those wait for nobody).  A call waits at most for the holder of the ports, and
  the exit for calls.
- `CallsAdvance`: no step of a call goes back or stands still (`Advances`): it has one poll less
  to make, or is at the access, a later byte or a later operation.  With `CallsAlwaysGoOn` this
  is `CallsReturn` up to fairness: a call ends within 3 * (`Tries` + 1) of its own steps for
  each operation.

`SmuDriverProofs`
- `TypeCorrect`; `DataMeetsAddress`: `SmnAddressed`.  `OneInWindow` says that the
  window has at most one thread, that this thread is at an access, and that the address is
  its own.
- `AnswersAreOwn`: `AnswerIsOwn`.  `LockHeld` says that a thread inside the protocol holds
  `amd_smu_mutex`.  `Exchange` says, until something is spoiled, that a free mailbox has a
  response and no job (`Responded`), and what its registers hold at each step of
  the thread that uses it (`Progress`): after step 4 the firmware works on that thread's own
  request or has answered it.
- `ImplementsSmuCommands`: `ImplementsCommands`, from `LockHeld` and `Exchange`.
  `CommandRefines`, `FileRefines` and `AnswerRefines` go through the steps: `Responded` is why
  step 4 finds a mailbox without a job and nobody else in flight, `Progress` why the answer
  is to the thread that waits, so that it performs that thread's command and no other's.
- `CommandsApart`: `Commands!Promise`, proved from the steps of `SmuCommands` and the refinement.
- `CallsAlwaysGoOn`: `CallsGoOn`, with `LockUsed` (`amd_smu_mutex` is held only by a thread
  between its taking and its release).  The window is taken last and given back on
  every path, so whoever waits for the mutex waits for one who goes on or waits
  for the window, and whoever waits for the window waits for one who goes on.
- `LifeTypeCorrect`: types of the driver's life, with `Attached` (the file is read only while
  the driver is bound, and its own first read is part of probe); a command's number is one
  of the list that the processor's class has.
- `TheTableFits`: `PmTableFits`, for every processor, version and order of failures.  `PageInv`
  is about all bindings: the size that is kept, and the length that a reader is given, are
  those of the processor's table or not known yet, and `LongAreNamed` finds the tables that are
  longer than a page.  `LifeInv`
  is about the first binding: before it nothing is cached (`Fresh`); each stage of probe
  knows what the stages before have found, so that a table is copied only when its size was
  tested, and mapped when the size needs a second table (`KernelKnows`); the file exists
  only if all of that succeeded (`FileReady`), and its readers never ask for base, version
  or size again (`UsersRead`).

`SioFanProofs`
- `PortsAreExclusive`: `PortsExclusive`, inductive with the type of `pc`.  It covers init and
  the calls of all drivers, for any machines.
- `Types`: `Shapes` adds that what a thread has still to write fits the call it is in.
- `DirectoryIsOwn`: `DirectoryOwn`, for any orders of loading and unloading.  `DirInv`: only
  the owner of the directory has a `nas_dir`, and no driver that is there was loaded before
  it, so that a removal of `it86` that is not the owner's is that of a driver that was loaded
  later and leaves earlier (`Overtakes`).
- `FansAreAsShown` and `StartupIsReadBack`, from one invariant, `SInv`: until the ports are
  misused or a directory is torn, what a call has still to write agrees with what it was asked (`TodoInv`), the chip
  shows the last settings but for what the call inside the ports still has to write
  (`AskedInv`, `DoneInv`), and the bits that have been read are those that stand in the chip
  (`ReadInv`).
- `OnlyKeptPortsHang`: `CallsGoOn`, with `CallsInside` (which calls are where) and `HoldersInside`
  (who holds a driver's mutex is in a call of that driver; who holds the ports is at them or
  left them in a `fan_read` of a device that is not active).  A call waits for the mutex of its
  driver or for the ports, an unload for calls, and each of them for one who goes on, unless the
  ports were kept (`PortsKept`), as TLC shows that they can be.

`OtherLedsProofs`
- `TypeCorrect`; `AcksApart`: `AckNotOfCaller`.  `MutexHeld` says that a store inside
  a transfer holds the mutex; only a work item can then overwrite `last`.
- `LastLightSent`: `LightSent`.  `WorkOf` says of each LED for which no store is
  under way and no work queued (`Settled`) that its work is about to send the brightness
  stored last or was the last to offer it.
- `NothingHangs`: `CodeGoesOn`, which is `NeverHangs` with the guards of the code's steps
  written out where the run has ENABLED.  `HolderInside`: who holds the mutex is at a
  step of a transfer, and those wait for nothing.
- `N76TypeCorrect`; `ColorsShown`: `ColorShown`.  `ColorInv` says, as long as no two sequences
  of registers have overlapped, that a sequence is alone with
  the registers and works for the stored colour (`Alone`), what it has written so far
  (`Written`), and that a work on its way applies the stored colour (`WorkApplies`); `Shown`
  is what the pins are when nothing is about to write them.  `OnePin` and `Unlit` (the DH2600
  writes no colour before its LED has been lit) hold whatever overlaps.
- `OnlyOneHang`: `OnlyRemoveHangs`, which is `HangsOnlyInRemove` with the guards written out.
  `UpdateHeld` says who can hold `update_lock` and where it then is.

Proved and in no run: `NoDeviceNoLink`,
`CodeGoesOn`, `OnlyRemoveHangs`, `Registers!Promise`, `NobodyStuck`, `ImplementsCommands`,
`Commands!Promise`, `CallsGoOn` of `EcMemory`, `SmuMailbox` and `SioFan`, `NoCallGoesBack`, and the
type invariants.  TLC has confirmed each of them on small instances before it was proved.

Only model-checked, because the prover handles neither fairness nor ENABLED: the liveness
properties (`BrightnessApplied`, `CallsReturn` of three modules, `RemoveCompletes`,
`SeriesEnds`, `BeepEnds`, `KeyReleased`, `UnregisterCompletes`, `LedOffWithoutDevice`), and
`NeverHangs` and `HangsOnlyInRemove` in the form with ENABLED.  What they say beyond fairness
is proved where it is the hard part: `NothingHangs`, `OnlyOneHang`, `NobodyWaitsForGood`,
`OnlyKeptPortsHang` and the two `CallsAlwaysGoOn` say of six drivers that the guards close no
circle, or which is the only one.

## 6. What is not modelled

The components with status `not_modelled` in `PROJECT.json`, by plan or because
they are third-party, not built, or straight-line.  Within the modelled ones: the
setup of the i2c client (`init`, `detect`), allocation failures of the LED
driver's probe, CRCs and byte layout of commands (a corrupted command counts as
lost), the DMI tables (a product that is not recognised leaves the driver
without buttons), the reboot notifier of the iDX driver, the `smu_args` and `smu_rsp` that
the files of the SMU driver share without a lock, `pr_info` and all formatting.

Of the rest: `fancontrol.sh` is a sequential loop and next in the plan; `leds-mcu-68a88.c`
repeats `leds-mcu-28a48.c` with ten LEDs and five colours;
`ug_201x.c`, `leds-sio-201x.c` and `ug_it55_4800gt_functions.c` are built by no Makefile; no
script loads the drivers of `tests/`; the boot scripts and the tools are straight-line.
