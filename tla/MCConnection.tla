---------------------------- MODULE MCConnection ----------------------------
(* Streams and users for Connection. *)
EXTENDS Connection

Long == 3
Short == 2

\* Unit number i: odd ones have a zero in their data, as far as it goes.
U(zeros, header, i) ==
  [zeros |-> zeros, data |-> header \o (IF i % 2 = 1 THEN <<0, 0, 3>> ELSE << >>) \o <<9 + i>>]

\* The header bytes, with start codes: all short, or in turn.
Stream(codec, headers, zeros) ==
  [codec |-> codec, units |-> [i \in DOMAIN headers |-> U(zeros[i], headers[i], i)]]
Styles == {[i \in 1 .. 9 |-> Short],
           [i \in 1 .. 9 |-> IF i % 3 = 0 THEN Long ELSE Short],
           [i \in 1 .. 9 |-> IF i % 2 = 0 THEN Long ELSE Short]}

\* Header bytes: H.264 has one, H.265 two; 0, 1 is TRAIL_N.
H264 == {
  << <<103>>, <<104>>, <<6>>, <<101>>, <<65>>, <<103>>, <<104>>, <<101>>, <<65>> >>,
  << <<65>>, <<103>>, <<104>>, <<101>>, <<65>>, <<65>>, <<65>>, <<65>>, <<65>> >> }
H265 == {
  << <<64, 1>>, <<66, 1>>, <<68, 1>>, <<78, 1>>, <<38, 1>>, <<0, 1>>, <<2, 1>> >>,
  << <<0, 1>>, <<42, 1>>, <<64, 1>>, <<66, 1>>, <<68, 1>>, <<40, 1>>, <<0, 1>> >> }

MCStreams == {Stream("h264", h, z) : h \in H264, z \in Styles}
        \cup {Stream("h265", h, z) : h \in H265, z \in Styles}
OneUnit == Stream("h264", << <<101>> >>, <<Long>>)
NoVideo == Stream("h264", << >>, << >>)

Keys(names) == {KeyEvent(action, k) : action \in 0 .. 1, k \in names}

\* To the left by one, with the second button down; a turn of the wheel; a press.
Moves == {Event("mouse", <<2, -1, 300, 2, 0, 0>>), Event("mouse", <<2, 0, 0, 0, 0, -40>>),
          Event("touch", <<0, 9, 1919, 0, 65535, 1>>)}

\* What only an Android page sends, and its touches and keys.
Virtual == {Event("create", <<1, 6353, 1, 2, <<86, 75>>, 3, <<5, 1, 9>> >>),
            Event("input", <<1, 2, <<0, 4>> >>), Event("input", <<2, 3, <<1, 0, 255>> >>),
            Event("destroy", <<2>>)}
Commands == {Event("set", <<0, 1, 3, <<195, 169, 0>> >>), Event("get", <<0>>),
             Event("scroll", <<540, 1200, -30, 300, 0>>), Event("rotate", << >>),
             Event("touch", <<2, 1, 1079, 2399, 0, 1>>), KeyEvent(1, "Home")}

User(targets, users) ==
  [stream : {NoVideo}, target : targets, user : users, sounds : {FALSE}]

\* A video nobody touches, a user without a video, a little of both, and sound.
MCScenarios ==
  [stream : MCStreams, target : {"x11"}, user : {{}}, sounds : {FALSE}]
    \cup User({"x11", "wayland"}, {{KeyEvent(0, k)} : k \in DOMAIN Kernel})
    \cup User({"x11", "wayland"}, {Keys({"ShiftLeft", "PageDown", "Home"})})
    \cup User({"x11"}, {Keys({"PageDown", "MetaLeft"}), Keys({"KeyA"}) \cup Moves})
    \cup User({"android"}, {Virtual, Commands})
    \cup [stream : {OneUnit}, target : {"wayland"}, user : {{KeyEvent(0, "KeyA")}}, sounds : {FALSE}]
    \cup [stream : {NoVideo}, target : {"android"}, user : {{}}, sounds : {TRUE}]
=============================================================================
