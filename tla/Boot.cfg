SPECIFICATION Spec
CONSTANTS
  init = init
  names = names
  clock = clock
  console = console
  marklin = marklin
  sensor = sensor
  switch = switch
  zone = zone
  trainsys = trainsys
  rand = rand
  pactrain = pactrain
  tick = tick
  conReceive = conReceive
  conSend = conSend
  marReceive = marReceive
  marSend = marSend
  sensorNotifier = sensorNotifier
  zoneNotifier = zoneNotifier
  ui = ui
  clockUI = clockUI
  renderSwitch = renderSwitch
  renderSensor = renderSensor
  prompt = prompt
  predict = predict
  idlePerf = idlePerf
  MaxInterrupts = 1
INVARIANTS BootInv
