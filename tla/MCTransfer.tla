---------------------------- MODULE MCTransfer ----------------------------
(* Calls around every limit of the codec, for TLC. *)
EXTENDS Transfer

Name15 == "interface-of-15"
Name16 == "interface-of--16"
Long == "a-path-of-forty-characters-/dev/ttyUSB-0"
Path128 == Long \o Long \o Long \o "12345678"

Line(cmd, args) ==
  [cmd |-> cmd, args |-> args, name |-> "", bus |-> -1, opts |-> <<>>, value |-> "none",
   size |-> 0, addr |-> 0, read |-> FALSE]
OpenLine(name, bus, path, opts) ==
  [Line("open", <<path>>) EXCEPT !.name = name, !.bus = bus, !.opts = opts]
XferLine(name, value, size, addr, opts) ==
  [Line("xfer", <<name>>) EXCEPT !.value = value, !.size = size, !.addr = addr, !.opts = opts,
                                 !.read = addr # 0]
O(key, val) == [key |-> key, val |-> val]

Opens ==
  {OpenLine("cmd", EP_IPC, "/tmp/x", <<O("abs", ""), O("managed", "")>>),
   OpenLine("name", EP_IPC, "interfaces", <<O("file", "")>>),
   OpenLine(Name15, EP_INET, "host", <<>>),
   OpenLine(Name16, EP_INET, "host:80", <<O("managed", "")>>),
   OpenLine("id", EP_TTY, Path128, <<O("speed", "9600")>>),
   OpenLine("gpio", EP_GPIO, "chip", <<O("line", "300"), O("in", ""), O("out", ""), O("hi", "")>>),
   OpenLine("gpio", EP_GPIO, "chip", <<O("out", ""), O("hi", ""), O("lo", "")>>),
   OpenLine("spi", EP_SPI, "nr_intf", <<O("mode", "1")>>),
   OpenLine("i2c", EP_I2C, "path", <<O("speed", "9600")>>),
   OpenLine("sysfs", EP_SYSFS, "path", <<>>), OpenLine(Name16, EP_GPIO, "chip", <<>>),
   OpenLine("tty", EP_TTY, "", <<O("speed", "0"), O("speed", "0")>>),
   OpenLine("tty", EP_TTY, "", <<O("speed", "")>>),
   OpenLine("tty", EP_TTY, "", <<O("rate", "0")>>),
   OpenLine("", EP_TTY, "", <<>>), OpenLine("tty", -1, "", <<>>)}

Xfers ==
  {XferLine("gpio", "0", 1, 0, <<>>), XferLine("spi", "hex", 9, 0, <<O("rsize", "4")>>),
   XferLine("i2c", "hex", 4, 66, <<>>), XferLine("sysfs", "data", 200, 0, <<>>),
   XferLine("sysfs", "data", 0, 0, <<>>), XferLine("sysfs", "data", 6000, 0, <<>>),
   XferLine("cmd", "data", 10, 0, <<>>), XferLine("gone", "data", 10, 0, <<>>),
   XferLine("gpio", "1", 1, 0, <<O("line", "4")>>), Line("xfer", <<"gpio">>),
   [XferLine("i2c", "hex", 4, 0, <<>>) EXCEPT !.bus = EP_I2C]}

MCLines ==
  Opens \cup Xfers \cup
  {Line("list", <<>>), Line("close", <<"cmd", "name", "id">>), Line("close", <<>>),
   Line("close", <<Name16>>), Line("route", <<"action", Name15>>), Line("route", <<"cmd">>),
   Line("forget", <<"val">>), Line("forget", <<>>), Line("cat", <<"interfaces">>),
   Line("cat", <<"a", "b">>)}

Sender(name, path) ==
  [NewIntf EXCEPT !.id = 4, !.bus_type = EP_IPC, !.name = name, !.path = path, !.managed = 1]
MCSend(bus, name, wlen, rlen, addr) ==
  [bus |-> bus, name |-> name, wlen |-> wlen, rlen |-> rlen, addr |-> addr,
   sender |-> Sender("cmd", "ipc:///tmp/x")]

\* Around the first payloads whose base64 text overruns its buffer.
Large == {14999, 15147, 15148, 15168, 15169, 18177, 18178}

MCSends ==
  {MCSend(EP_GPIO, "gpio", n, 0, 0) : n \in {0, 1}}
  \cup {MCSend(EP_SPI, "spi", n, r, 0) : n \in {0, 1, 2, 20, 60}, r \in {0, 1}}
  \cup {MCSend(EP_I2C, "i2c", n, r, 66) : n \in {0, 1, 3}, r \in {0, 2}}
  \cup {MCSend(EP_SYSFS, "sysfs", n, 0, 0) : n \in {1, 300}}
  \cup {MCSend(EP_TTY, name, n, 0, 0) : name \in {"tty", Name16}, n \in {0, 1, 99}}
  \cup {MCSend(EP_IPC, name, n, 0, 0) :
          name \in {"peer", Name15, "gone"},
          n \in {1, 54, 55, 400, 3000} \cup Large \cup 188 .. 208 \cup {50 * k : k \in 118 .. 130}}

MCRaws ==
  {[bus |-> EP_TTY, wlen |-> n,
    sender |-> [Sender(name, path) EXCEPT !.bus_type = EP_TTY, !.managed = 0, !.partner = "peer"]] :
     n \in {1, 54, 5000} \cup Large \cup 98 .. 112 \cup {50 * k : k \in 194 .. 202}, name \in {"v", Name15}, path \in {"tty:///dev/ttyS0,9600", SubSeq(Path128, 1, 127)}}

MCTargets ==
  [gpio |-> [bus |-> EP_GPIO, managed |-> FALSE], spi |-> [bus |-> EP_SPI, managed |-> FALSE],
   i2c |-> [bus |-> EP_I2C, managed |-> FALSE], sysfs |-> [bus |-> EP_SYSFS, managed |-> FALSE],
   tty |-> [bus |-> EP_TTY, managed |-> FALSE], peer |-> [bus |-> EP_IPC, managed |-> TRUE],
   cmd |-> [bus |-> EP_IPC, managed |-> FALSE]]

Listed(n) ==
  [k \in 1 .. n |-> [Sender(IF k = 1 THEN "@rtemgrd" ELSE "spi", Long) EXCEPT !.id = k - 1]]
MCListings == {Listed(n) : n \in {1, 3, 10, 40}}

MCQueued == {0, 1, 500, 2000, 6000, 15148}

MCPayloads == {"hex", "0", "1", "data"}
MCNumbers ==
  -1 .. 310 \cup {50 * k : k \in 1 .. 202} \cup Large \cup {115200}
=============================================================================
