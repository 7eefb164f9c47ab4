SPECIFICATION Spec
CONSTANTS
    bg = bg
    font = font
    red = red
    plain = plain
    quoted = quoted
    Names <- MCNames
    ColorNames <- MCColorNames
    SysConf <- MCSysConf
    Values = {red, plain, quoted}
    Colors = {red}
    Quoted = {quoted}
    Unset = unset
    NoText = notext
    NoFile = nofile
    NoConf = noconf
    Garbled = garbled
    NoProp = noprop
    UserText = {u1, u2}
    Disturb = {"crash", "flush", "edit", "unwritable"}
INVARIANT TypeOK
INVARIANT TextSurvives
INVARIANT RestoredAfterQuit
INVARIANT Durable
