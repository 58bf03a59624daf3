-------------------------------- MODULE Boot --------------------------------
(***************************************************************************)
(* kernel_start from apic_init to hang, run against the interrupts this    *)
(* kernel can get: the keyboard's, which is also its only source of        *)
(* context switches, and the local APIC's spurious one.  It composes       *)
(* Scheduler and Console with the interrupt stubs, interrupt_handler, the  *)
(* lock of printf and exec_elf, which starts the one process this kernel   *)
(* has.                                                                    *)
(*                                                                         *)
(* load_idt has set the interrupt flag before; every gate clears it, so    *)
(* that handlers are not interrupted.  kernel_start runs with the identity *)
(* of the idle thread once sched_init has made one.  schedule does not     *)
(* save the registers of the idle thread, so the first schedule after      *)
(* sched_init abandons kernel_start wherever it is: booting becomes FALSE  *)
(* for ever.                                                               *)
(***************************************************************************)
EXTENDS Scheduler, Console

CONSTANTS
  KEYBOARD_BUFFER_SIZE,   \* 32
  UnknownChars,           \* characters of the line for an unknown interrupt: 35
  MaxFiles,               \* bound on the files of the archive
  LastCalls               \* the printfs kernel_start ends with: sequences of formats

ASSUME BootAssumption ==
  /\ KEYBOARD_BUFFER_SIZE \in Nat \ {0} /\ UnknownChars \in 0 .. VGA_WIDTH - 1
  /\ MaxFiles \in Nat
  /\ VGA_WIDTH * VGA_HEIGHT + UnknownChars < PageCells
  /\ LastCalls \subseteq Seq(Formats)

VARIABLES
  boot_pc,        \* the next step of kernel_start
  booting,        \* the processor executes kernel_start
  calls,          \* the printfs of this part of kernel_start still to come
  irq,            \* the keyboard's redirection entry is unmasked
  should_sched,   \* interrupt_handler's static variable
  is_make, keyboard_pos,   \* keyboard.c's variables
  lock,           \* printf's lock
  writing,        \* a system call is in printf, interrupts off
  output,         \* the characters it still has to print
  stuck           \* it spins on the lock instead

keyVars  == <<should_sched, is_make, keyboard_pos>>
sysVars  == <<writing, output, stuck>>
bootVars == <<boot_pc, booting, calls, irq, keyVars, lock, sysVars>>
allVars  == <<vars, consoleVars, bootVars>>

\* The scheduler's variables have the values sched_init gives them from the
\* start; what reads them before, schedule, is dealt with in Switch.
BootInit ==
  /\ Init /\ ConsoleInit
  /\ boot_pc = "apic_init" /\ booting = TRUE /\ calls = <<>> /\ irq = FALSE
  /\ should_sched = TRUE /\ is_make = TRUE /\ keyboard_pos = 0
  /\ lock = FALSE /\ writing = FALSE /\ output = <<>> /\ stuck = FALSE

\* Interrupts are on and code is executed.
Running == ~fault /\ ~stuck /\ ~writing

\* kernel_start does its step from and comes to its step to.
BootStep(from, to) ==
  /\ Running /\ booting /\ boot_pc = from
  /\ boot_pc' = to
  /\ UNCHANGED <<booting, keyVars, sysVars>>

\* One that has nothing to do with the console.
QuietStep(from, to) == BootStep(from, to) /\ UNCHANGED <<consoleVars, lock>>

-----------------------------------------------------------------------------
(* kernel_start *)

\* local_apic_enable, and remap_ioredtbl, which unmasks the keyboard behind everything
\* apic_init prints.
apic_init == QuietStep("apic_init", "tar_init") /\ irq' = TRUE /\ UNCHANGED <<vars, calls>>

\* The format of parse_tar_file.
found_file == <<"c", "%s", "newline">>

\* tar_init maps the archive, without which it panics (see Vmm); parse_tar_file then
\* prints once for every file.
tar_init ==
  /\ QuietStep("tar_init", "parse_tar")
  /\ \E files \in 0 .. MaxFiles : calls' = [i \in 1 .. files |-> found_file]
  /\ UNCHANGED <<vars, irq>>

vfs_init == QuietStep("parse_tar", "sched_init") /\ calls = <<>> /\ UNCHANGED <<vars, calls, irq>>

sched_init == QuietStep("sched_init", "exec_elf") /\ UNCHANGED <<vars, calls, irq>>

\* dump_ehdr's formats.
dump_ehdr == << <<"c", "%s", "newline">>, <<"c", "%lu", "newline">>, <<"c", "%d", "newline">> >>

\* create_vmm and switch_vm_space(&vmm): the new address space is current.
exec_elf(p) ==
  /\ QuietStep("exec_elf", "dump_ehdr")
  /\ current_vmm' = p
  /\ calls' = dump_ehdr
  /\ UNCHANGED <<procVars, threadVars, current_process, current_thread, cpu, work, fault, irq>>

\* A printf of kernel_start: acquire, its characters, and release.
acquire(from, to) ==
  /\ BootStep(from, to)
  /\ calls # <<>> /\ calls' = Tail(calls) /\ format' = Head(calls)
  /\ ~lock /\ lock' = TRUE
  /\ UNCHANGED <<vars, cursor, print_pc, text, settled, outside, irq>>

printf(in) == BootStep(in, in) /\ printfStep /\ UNCHANGED <<vars, calls, irq, lock>>

release(from, to) ==
  /\ BootStep(from, to) /\ Printed
  /\ lock' = FALSE
  /\ UNCHANGED <<vars, consoleVars, calls, irq>>

\* Mutant of new_proc: the process is queued before it has a thread.
NewProcQueued(p) ==
  /\ QuietStep("dump_ehdr", "create_thread") /\ calls = <<>> /\ p = current_vmm
  /\ liveP' = liveP \cup {p}
  /\ p_pid' = [p_pid EXCEPT ![p] = next_pid] /\ next_pid' = next_pid + 1
  /\ p_user' = [p_user EXCEPT ![p] = TRUE]
  /\ p_threads' = [p_threads EXCEPT ![p] = NULL] /\ p_next' = [p_next EXCEPT ![p] = NULL]
  /\ head_proc' = p
  /\ UNCHANGED <<threadVars, cpuVars, calls, irq>>

\* create_proc(load_elf(filename), ..., true, true), in four steps: the new block, ...
new_proc(p) ==
  /\ QuietStep("dump_ehdr", "create_thread") /\ calls = <<>> /\ p = current_vmm
  /\ liveP' = liveP \cup {p}
  /\ p_pid' = [p_pid EXCEPT ![p] = next_pid] /\ next_pid' = next_pid + 1
  /\ p_user' = [p_user EXCEPT ![p] = TRUE]
  /\ p_threads' = [p_threads EXCEPT ![p] = NULL] /\ p_next' = [p_next EXCEPT ![p] = NULL]
  /\ UNCHANGED <<head_proc, threadVars, cpuVars, calls, irq>>

\* ... create_thread, ...
new_thread(p, t) ==
  /\ QuietStep("create_thread", "link") /\ p \in liveP
  /\ NewThread(p, t, TRUE)
  /\ p_threads' = [p_threads EXCEPT ![p] = t]
  /\ UNCHANGED <<head_proc, p_next, p_pid, p_user, next_pid, liveP, current_process,
                 current_thread, cpu, fault, calls, irq>>

\* ... new_proc->next = head_proc, ...
link(p) ==
  /\ QuietStep("link", "queue") /\ p \in liveP
  /\ p_next' = [p_next EXCEPT ![p] = head_proc]
  /\ UNCHANGED <<head_proc, p_threads, p_pid, p_user, next_pid, liveP, threadVars, cpuVars,
                 calls, irq>>

\* Mutant of queue: add_to_queue is false.
QueueNothing(p) ==
  QuietStep("queue", "switch_back") /\ p \in liveP /\ UNCHANGED <<vars, calls, irq>>

\* ... head_proc = new_proc.
queue(p) ==
  /\ QuietStep("queue", "switch_back") /\ p \in liveP
  /\ head_proc' = p
  /\ UNCHANGED <<p_next, p_threads, p_pid, p_user, next_pid, liveP, threadVars, cpuVars,
                 calls, irq>>

\* switch_vm_space(&current_process->vmm), and on to the last printfs.
exec_elf_back ==
  /\ QuietStep("switch_back", "printf")
  /\ current_vmm' = current_process
  /\ calls' \in LastCalls
  /\ UNCHANGED <<procVars, threadVars, current_process, current_thread, cpu, work, fault, irq>>

hang == QuietStep("printf", "hang") /\ calls = <<>> /\ UNCHANGED <<vars, calls, irq>>

kernel_start ==
  \/ apic_init
  \/ tar_init
  \/ acquire("parse_tar", "parse_end")
  \/ printf("parse_end")
  \/ release("parse_end", "parse_tar")
  \/ vfs_init
  \/ sched_init
  \/ \E p \in Procs : exec_elf(p)
  \/ acquire("dump_ehdr", "dump_end")
  \/ printf("dump_end")
  \/ release("dump_end", "dump_ehdr")
  \/ \E p \in Procs : new_proc(p)
  \/ \E p \in Procs, t \in Threads : new_thread(p, t)
  \/ \E p \in Procs : link(p)
  \/ \E p \in Procs : queue(p)
  \/ exec_elf_back
  \/ acquire("printf", "printf_end")
  \/ printf("printf_end")
  \/ release("printf_end", "printf")
  \/ hang

-----------------------------------------------------------------------------
(* Interrupts *)

\* The gates that are used, as the code that uses them writes them.
KeyboardGate == 64    \* remap_ioredtbl: 0x40
SpuriousGate == 240   \* local_apic_enable: 0xf0
SyscallGate  == 254   \* execute_syscall: int $0xfe

\* What the stub of a gate pushes: isr_stubs.S counts from 8 again behind the 32
\* exceptions.
StubVec(gate) == IF gate < 32 THEN gate ELSE gate - 24

\* Nobody has made the idle process yet.
NoScheduler == boot_pc \in {"apic_init", "tar_init", "parse_tar", "parse_end", "sched_init"}

\* schedule, for which a NULL process, or one without threads, is a fault.
Switch ==
  IF NoScheduler \/ (head_proc # NULL /\ p_threads[head_proc] = NULL)
  THEN fault' = TRUE /\ UNCHANGED <<procVars, threadVars, current_process, current_thread,
                                    current_vmm, cpu, work, booting>>
  ELSE schedule /\ booting' = FALSE

\* keyboard_handler for the key str, <<>> if it is none of keyboard_layout's: a make
\* code is printed and goes into the ring.
keyboard_handler(str) ==
  /\ is_make' = ~is_make
  /\ IF is_make /\ str # <<>>
     THEN printc(str[1]) /\ keyboard_pos' = (keyboard_pos + 1) % KEYBOARD_BUFFER_SIZE
     ELSE UNCHANGED <<consoleVars, keyboard_pos>>

\* System call 1, printf("%s", ...): when somebody else holds the lock it spins for
\* ever, because nobody else can run.
syscall_handler ==
  IF lock THEN stuck' = TRUE /\ UNCHANGED <<vars, lock, writing, output>>
  ELSE /\ Run
       /\ lock' = TRUE /\ writing' = TRUE /\ output' \in Texts
       /\ UNCHANGED stuck

\* interrupt_handler, for the number the gate's stub has pushed.  Every second
\* interrupt of the keyboard calls schedule.  The exceptions (vec <= 32) are fault;
\* no gate in use has a stub that pushes 0xf0 or 0x68.
interrupt_handler(gate) ==
  LET vec == StubVec(gate) IN
  /\ CASE vec = 40 ->        \* 0x28
            /\ \E str \in {<<>>, <<"c">>} : keyboard_handler(str)
            /\ should_sched' = ~should_sched
            /\ IF should_sched THEN Switch ELSE UNCHANGED <<vars, booting>>
            /\ UNCHANGED <<lock, sysVars>>
       [] vec = 230 ->       \* 0xe6
            syscall_handler /\ UNCHANGED <<consoleVars, keyVars, booting>>
       [] OTHER ->
            printLine(UnknownChars) /\ UNCHANGED <<vars, keyVars, booting, lock, sysVars>>
  /\ UNCHANGED <<boot_pc, calls, irq>>

\* A key is pressed or released.
Key == Running /\ irq /\ interrupt_handler(KeyboardGate)

\* local_apic_enable gives the spurious interrupt a gate whose stub pushes 0xd8.
Spurious == Running /\ irq /\ interrupt_handler(SpuriousGate)

-----------------------------------------------------------------------------
(* The process *)

Write ==
  /\ Running /\ current_thread \in Threads
  /\ t_status[current_thread] # "DEAD" /\ work[current_thread] < MaxWork
  /\ interrupt_handler(SyscallGate)

\* Mutant of WriteStep: the system call's printf returns with the lock held.
WriteStepKeep ==
  /\ writing
  /\ IF output # <<>> THEN printc(Head(output)) /\ output' = Tail(output) /\ UNCHANGED <<lock, writing>>
     ELSE writing' = FALSE /\ UNCHANGED <<consoleVars, lock, output>>
  /\ UNCHANGED <<vars, boot_pc, booting, calls, irq, keyVars, stuck>>

\* The system call's printf, character by character, and its return.
WriteStep ==
  /\ writing
  /\ IF output # <<>> THEN printc(Head(output)) /\ output' = Tail(output) /\ UNCHANGED <<lock, writing>>
     ELSE lock' = FALSE /\ writing' = FALSE /\ UNCHANGED <<consoleVars, output>>
  /\ UNCHANGED <<vars, boot_pc, booting, calls, irq, keyVars, stuck>>

\* main has made its calls and returned: kernel_thread_wrapper.
Return ==
  /\ Running
  /\ work[current_thread] = MaxWork /\ Exit
  /\ UNCHANGED <<consoleVars, bootVars>>

\* A panic and a spinning system call are for ever.
Halted == (fault \/ stuck) /\ UNCHANGED allVars

BootNext == kernel_start \/ Key \/ Spurious \/ Write \/ WriteStep \/ Return \/ Halted

\* Code that has the processor runs.  That keys are pressed is not assumed here.
BootFairness ==
  /\ WF_allVars(kernel_start)
  /\ WF_allVars(Write \/ WriteStep)
  /\ WF_allVars(Return)

BootSpec == BootInit /\ [][BootNext]_allVars /\ BootFairness

-----------------------------------------------------------------------------
(* Properties *)

\* Whenever the key is pressed, the kernel panics only in the window between
\* apic_init's unmasking of the keyboard and the end of sched_init; no later
\* schedule, with kernel_start abandoned anywhere in exec_elf, faults.
PanicOnlyBeforeSched ==
  fault => booting /\ boot_pc \in {"tar_init", "parse_tar", "parse_end", "sched_init"}

\* A system call blocks for ever only if kernel_start was abandoned inside its last
\* printfs, after exec_elf had queued the process.
StuckOnlyInPrintf == stuck => ~booting /\ boot_pc = "printf_end"

\* A character is written outside the console's page, into what alloc_mmio mapped
\* behind it, only if a key came to a printc of kernel_start between the statements
\* that wrap y and x, at the end of the last line, and kernel_start never went on: it
\* was abandoned there, or the key, before sched_init, was a panic.
OutsideOnlyFromWrap == outside => print_pc = "mod" /\ (~booting \/ fault)

\* If keys keep being pressed: once exec_elf has queued the process, its thread makes
\* its calls and is reaped, or blocks on the lock kernel_start took with it.
ProcessFinishes ==
  WF_allVars(Key) => ((boot_pc = "switch_back") ~> (stuck \/ (liveT = {} /\ liveP = {})))

\* Every printf of kernel_start, for the files of the archive, the ELF header and at the
\* end, returns, unless a key takes the processor away or panics or its format has a
\* specifier other than %d, %s and %lu, as unit_tests.c:24 has.
PrintfReturns ==
  (booting /\ boot_pc \in {"parse_end", "dump_end", "printf_end"})
    ~> \/ boot_pc \notin {"parse_end", "dump_end", "printf_end"} \/ ~booting \/ fault
       \/ format # <<>> /\ Head(format) \in {"%l", "%?"}

=============================================================================
