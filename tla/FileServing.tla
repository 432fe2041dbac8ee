----------------------------- MODULE FileServing -----------------------------
(* One GET or HEAD of a static file (overlay and single_file, static_content.cpp,
   file_stream.cpp, the POSIX file_mapping.cpp, range_stream.cpp and the two body
   loops of http1_io.cpp) on a file system that other processes change meanwhile.

   The server looks at the path three times, each time on a thread of the pool:
   stat in wants, fopen in handle, and open again for the mapping at the first
   read.  Between any two of them, and between two reads, the path may name
   another file, no file, or a file of another size.

   A file is an inode; its byte at offset o is the pair of the inode and o, so
   that a body shows where every byte of it came from.  A size is a number of
   bytes, and Page, WindowCapacity and Buffer are the page, window_capacity and
   the 4096 bytes of the body loop in those units.  With a request comes the wire
   it came on (sendfile works on "tcp" only) and whether mmap will succeed. *)
EXTENDS Integers, Sequences, FiniteSets, FiniteSetsExt

CONSTANTS
  Sizes,            \* the sizes a file may have
  FileRequests,     \* [verb, wire, mmap, range, ifMatch, ifNoneMatch, ifModifiedSince, ifRange]
  Page, WindowCapacity, Buffer,
  IntLimit,         \* the first number an int64_t does not hold, 2^63 in the code
  MaxChanges        \* changes to the file system during the request

ASSUME FileSizes == /\ Sizes \subseteq Nat
                    /\ {Page, WindowCapacity, Buffer, IntLimit} \subseteq Nat \ {0}

VARIABLES
  disk,       \* [path, inodes]: the inode the path names (0: none), all the inodes
  changes,    \* changes made so far
  get,        \* the request
  step,       \* where the coroutines of the request stand
  info,       \* the platform::file_info that wants() cached
  reply,      \* [status, begin, length, total] of the head that is sent
  file,       \* the file_stream: [node, pos] of its FILE*
  mapping,    \* its mapping_: [node, total, start, size, pos]; node 0: not valid
  attempted,  \* mapping_attempted_
  out         \* the body bytes that were sent

fsVars == <<disk, changes, get, step, info, reply, file, mapping, attempted, out>>

Nothing == [node |-> 0, pos |-> 0]
NoMapping == [node |-> 0, total |-> 0, start |-> 0, size |-> 0, pos |-> 0]
NoReply == [status |-> 0, begin |-> 0, length |-> 0, total |-> 0]

\* Header fields: absent, or for a number empty or not a number.
Absent == -3
Junk == -2
Empty == -1

ASSUME FileRequestAssumption ==
  \A req \in FileRequests : {req.range.first, req.range.last} \subseteq Nat \cup {Junk, Empty}

SizeOf(node) == disk.inodes[node].size

(***************************************************************************)
(* Other processes                                                         *)
(***************************************************************************)
Change(next) ==
  /\ changes < MaxChanges
  /\ step \notin {"idle", "done", "sigbus"}
  /\ changes' = changes + 1
  /\ disk' = next
  /\ UNCHANGED <<get, step, info, reply, file, mapping, attempted, out>>

\* rename() puts a new file in the place of the old one.
Replace(s) ==
  Change([path |-> Len(disk.inodes) + 1,
          inodes |-> Append(disk.inodes, [size |-> s, mtime |-> changes + 1])])

\* A writer shortens or extends the file in place.
Resize(s) ==
  /\ disk.path # 0
  /\ s # SizeOf(disk.path)
  /\ Change([disk EXCEPT !.inodes[disk.path] = [size |-> s, mtime |-> changes + 1]])

Unlink == disk.path # 0 /\ Change([disk EXCEPT !.path = 0])

(***************************************************************************)
(* wants and handle                                                        *)
(***************************************************************************)
Finish(status) ==
  /\ step' = "done"
  /\ reply' = [NoReply EXCEPT !.status = status]

\* A request for a file of size s.
Arrive(req, s) ==
  /\ disk' = [path |-> 1, inodes |-> <<[size |-> s, mtime |-> 0]>>]
  /\ get' = req
  /\ step' = "wants"
  /\ UNCHANGED <<changes, info, reply, file, mapping, attempted, out>>

\* overlay::wants, single_file::wants: without a file the request goes on to the
\* next extension.
Stat ==
  /\ step = "wants"
  /\ IF disk.path = 0
       THEN Finish(404) /\ UNCHANGED info
       ELSE /\ info' = disk.inodes[disk.path]
            /\ step' = "open"
            /\ UNCHANGED reply
  /\ UNCHANGED <<disk, changes, get, file, mapping, attempted, out>>

\* file_stream::open with the size of the cached stat.
Open ==
  /\ step = "open"
  /\ IF disk.path = 0
       THEN Finish(404) /\ UNCHANGED file
       ELSE /\ file' = [node |-> disk.path, pos |-> 0]
            /\ step' = "serve"
            /\ UNCHANGED reply
  /\ UNCHANGED <<disk, changes, get, info, mapping, attempted, out>>

Etag == <<info.mtime, info.size>>

\* etag_list_contains, or "*".  A list of entity tags is the set of them.
Lists(list) == list = {"any"} \/ Etag \in list

IfMatchFails == get.ifMatch # {} /\ ~Lists(get.ifMatch)

NotModified ==
  IF get.ifNoneMatch # {} THEN Lists(get.ifNoneMatch)
  ELSE get.ifModifiedSince \notin {Absent, Junk} /\ info.mtime <= get.ifModifiedSince

\* If-Range holds an entity tag or a date.
IfRangeOk ==
  \/ get.ifRange = <<>>
  \/ Len(get.ifRange) = 2 /\ get.ifRange = Etag
  \/ Len(get.ifRange) = 1 /\ get.ifRange[1] # Junk /\ get.ifRange[1] >= info.mtime

\* parse_digits accumulates in an int64_t; overflow wraps around in the builds there are.
ParseDigits(n) == ((n + IntLimit) % (2 * IntLimit)) - IntLimit

\* parse_range_header of "unit=first-last", the first range of a list; without a
\* dash it is as if the unit were not bytes.
ClampedEnd(last, size) == IF last = Empty THEN size - 1 ELSE Min({ParseDigits(last), size - 1})
ParseRange(range, size) ==
  LET bad == [satisfiable |-> FALSE, begin |-> 0, end |-> 0]
      suffix == range.first = Empty
      begin == IF suffix THEN Max({0, size - ParseDigits(range.last)}) ELSE ParseDigits(range.first)
      end == IF suffix THEN size - 1 ELSE ClampedEnd(range.last, size)
  IN  IF size <= 0 \/ range.unit # "bytes" THEN [bad EXCEPT !.satisfiable = TRUE]
      ELSE IF Junk \in {range.first, range.last} THEN bad
      ELSE IF suffix /\ (range.last = Empty \/ ParseDigits(range.last) <= 0) THEN bad
      ELSE [satisfiable |-> 0 <= begin /\ begin <= end /\ begin < size, begin |-> begin, end |-> end]

HasRange == get.range.unit # "none" /\ IfRangeOk

\* serve_stream_conditionally; without a body the request is over with the head.
ServeStreamConditionally ==
  LET rr == ParseRange(get.range, info.size)
      head(status, begin, length) ==
        [status |-> status, begin |-> begin, length |-> length, total |-> info.size]
  IN  /\ step = "serve"
      /\ reply' = IF IfMatchFails THEN head(412, 0, 0)
                  ELSE IF NotModified THEN head(304, 0, 0)
                  ELSE IF ~HasRange THEN head(200, 0, info.size)
                  ELSE IF ~rr.satisfiable THEN head(416, 0, 0)
                  ELSE head(206, rr.begin, rr.end - rr.begin + 1)
      /\ step' = IF get.verb = "HEAD" \/ reply'.length = 0 THEN "done"
                 ELSE IF reply'.status = 206 THEN "position"
                 ELSE IF get.wire = "tcp" THEN "sendfile" ELSE "read"
      /\ UNCHANGED <<disk, changes, get, info, file, mapping, attempted, out>>

(***************************************************************************)
(* The body                                                                *)
(***************************************************************************)
Bytes(node, from, n) == [i \in 1..n |-> <<node, from + i - 1>>]
Remaining == reply.length - Len(out)

\* write_message_body_sendfile: sendfile(2) from the FILE's descriptor with an
\* offset of its own, which may take fewer bytes than it was offered.
SendFile ==
  /\ step = "sendfile"
  /\ LET left == Min({Remaining, SizeOf(file.node) - Len(out)})
     IN  IF left <= 0 THEN step' = "done" /\ UNCHANGED out
         ELSE \E n \in 1..left :
                /\ out' = out \o Bytes(file.node, Len(out), n)
                /\ step' = IF Remaining = n THEN "done" ELSE step
  /\ UNCHANGED <<disk, changes, get, info, reply, file, mapping, attempted>>

\* The constructor of range_stream.
RangeClamp(o) == Min({o, info.size})

\* range_stream::ensure_positioned, over file_stream::seek of a stream that nothing
\* read from yet: fseek.  The range is clamped to the length the stream believes in.
EnsurePositioned ==
  /\ step = "position"
  /\ file' = [file EXCEPT !.pos = RangeClamp(reply.begin)]
  /\ step' = "read"
  /\ UNCHANGED <<disk, changes, get, info, reply, mapping, attempted, out>>

\* file_mapping::open.
MapOpen == disk.path # 0 /\ SizeOf(disk.path) > 0

\* The first read: the mapping takes the position of the FILE* over.
MappedFromStart == 0
MappedPos == file.pos
ProbeMapping ==
  /\ step = "read"
  /\ ~attempted
  /\ attempted' = TRUE
  /\ mapping' = IF info.size > 0 /\ MapOpen
                  THEN [NoMapping EXCEPT !.node = disk.path, !.total = SizeOf(disk.path),
                                         !.pos = MappedPos]
                  ELSE NoMapping
  /\ UNCHANGED <<disk, changes, get, step, info, reply, file, out>>

\* What write_message_body asks for, and what range_stream::read leaves of it.
Want == Min({Remaining, Buffer})
RangeLeft == IF reply.status = 206
               THEN RangeClamp(reply.begin + reply.length) - RangeClamp(reply.begin) - Len(out)
               ELSE Want

\* read() == 0 ends the loop of write_message_body, with Remaining bytes unsent.
EndOfBody == step' = "done" /\ UNCHANGED <<mapping, file, out>>

\* Bytes that a mapped page really holds; the rest of its last page reads as zero.
Mapped(pos, n) ==
  [i \in 1..n |-> IF pos + i - 1 < SizeOf(mapping.node)
                    THEN <<mapping.node, pos + i - 1>> ELSE <<0, 0>>]

\* file_mapping::ensure_window, then the memcpy.  A page that the file no longer
\* reaches is a SIGBUS, whatever total_size_ said when the file was opened.
CopyFromWindow(n) ==
  LET pos == mapping.pos
      hit == mapping.size > 0 /\ pos >= mapping.start /\ pos + n <= mapping.start + mapping.size
      start == (pos \div Page) * Page
      size == Min({Max({WindowCapacity, n + pos - start}), mapping.total - start})
      window == IF hit THEN mapping ELSE [mapping EXCEPT !.start = start, !.size = size]
      lastPage == ((pos + n - 1) \div Page) * Page
  IN  IF lastPage >= SizeOf(mapping.node)
        THEN step' = "sigbus" /\ UNCHANGED <<mapping, out, file>>
        ELSE /\ out' = out \o Mapped(pos, n)
             /\ mapping' = [window EXCEPT !.pos = pos + n]
             /\ step' = IF Remaining = n THEN "done" ELSE step
             /\ UNCHANGED file

\* ensure_window refuses what does not lie in the file as it was when opened.
AtOrPastEnd(n) == mapping.pos + n >= mapping.total
PastEnd(n) == mapping.pos + n > mapping.total

\* file_stream::read of a mapped file.
ReadMapped ==
  /\ step = "read"
  /\ attempted
  /\ mapping.node # 0
  /\ LET n == Min({info.size - mapping.pos, Want, RangeLeft})
     IN  IF n <= 0 \/ PastEnd(n) THEN EndOfBody
         ELSE IF get.mmap THEN CopyFromWindow(n) ELSE EndOfBody
  /\ UNCHANGED <<disk, changes, get, info, reply, attempted>>

\* file_stream::read through stdio.
ReadFile ==
  /\ step = "read"
  /\ attempted
  /\ mapping.node = 0
  /\ LET n == Min({SizeOf(file.node) - file.pos, Want, RangeLeft})
     IN  IF n <= 0 THEN EndOfBody
         ELSE /\ out' = out \o Bytes(file.node, file.pos, n)
              /\ file' = [file EXCEPT !.pos = @ + n]
              /\ step' = IF Remaining = n THEN "done" ELSE step
              /\ UNCHANGED mapping
  /\ UNCHANGED <<disk, changes, get, info, reply, attempted>>

FsInit ==
  /\ disk = [path |-> 0, inodes |-> <<>>]
  /\ changes = 0
  /\ get = [wire |-> "none"]
  /\ step = "idle"
  /\ info = [size |-> 0, mtime |-> 0]
  /\ reply = NoReply
  /\ file = Nothing
  /\ mapping = NoMapping
  /\ attempted = FALSE
  /\ out = <<>>

Server == \/ Stat \/ Open \/ ServeStreamConditionally \/ SendFile \/ EnsurePositioned
          \/ ProbeMapping \/ ReadMapped \/ ReadFile

FsNext == \/ Server
          \/ \E s \in Sizes : Replace(s) \/ Resize(s)
          \/ step = "idle" /\ \E req \in FileRequests, s \in Sizes : Arrive(req, s)
          \/ Unlink

FsSpec == FsInit /\ [][FsNext]_fsVars

(***************************************************************************)
(* Properties                                                              *)
(***************************************************************************)
\* Whatever happens to the file, the body is a prefix of the range the head
\* announced and of one single file: byte i is the one at begin + i of that file,
\* and no read goes back, skips, repeats or changes from one version of the file to
\* another, although fseek, the FILE*, the mapping and sendfile each keep a position
\* of their own and the mapping opens the path again.  Zeros may stand for bytes
\* that a writer cut off.
BodyIsOneRangeOfOneFile ==
  /\ Len(out) <= reply.length
  /\ \E node \in 0..Len(disk.inodes) : \A i \in DOMAIN out :
       out[i] \in {<<node, reply.begin + i - 1>>, <<0, 0>>}

\* The offsets a range asks for, from the meaning of the header.
Asked(range, size) ==
  {o \in 0..(size - 1) :
     IF range.first = Empty THEN o >= size - range.last
     ELSE o >= range.first /\ (range.last = Empty \/ o <= range.last)}

\* The numbers of a range that parse_digits gets right.
InInt64(range) == {range.first, range.last} \subseteq 0..(IntLimit - 1) \cup {Empty, Junk}

\* A bytes range is answered with 206 and exactly the offsets it asks for, or with
\* 416 when the file has none of them, when it is not the entity tag's or the
\* date's turn to suppress it (parse_range_header and serve_stream_conditionally
\* against a definition by sets).  A number of 2^63 and more is taken for another
\* one; even then the offsets that are sent exist.  And a file that nobody changes
\* is sent completely, over windows that end before the range does and whichever of
\* the three ways it takes, with no window read past the last page (ensure_window and
\* the memcpy), unless the file cannot be mapped: then nothing is sent after the head.
\* On an empty file, and for a unit other than bytes, the code answers every Range
\* with bytes 0-0, of which an empty file has none (parse_range_header's present is
\* never looked at).
RequestedRangeIsSent ==
  /\ reply.status \in {206, 416} /\ get.range.unit = "bytes" /\ info.size > 0 =>
       LET asked == IF Junk \in {get.range.first, get.range.last} THEN {}
                    ELSE Asked(get.range, info.size)
           sent == reply.begin..(reply.begin + reply.length - 1)
       IN  /\ reply.status = 206 => sent # {} /\ sent \subseteq 0..(info.size - 1)
           /\ InInt64(get.range) => IF reply.status = 416 THEN asked = {} ELSE asked = sent
  /\ step = "done" /\ changes = 0 /\ get.verb = "GET" /\ info.size > 0
       => \/ Len(out) = reply.length
          \/ ~get.mmap /\ mapping.node # 0 /\ out = <<>>
  /\ changes = 0 => step # "sigbus"

\* "e.g. the file was truncated after opening - treat like EOF rather than reading
\* garbage" (file_stream.cpp:200): reading a truncated file ends the body, and
\* neither kills the process nor sends bytes the file does not hold.
TruncationIsEof ==
  step # "sigbus" /\ \A i \in DOMAIN out : out[i] # <<0, 0>>
==============================================================================
